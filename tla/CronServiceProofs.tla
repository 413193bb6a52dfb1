------------------------- MODULE CronServiceProofs -------------------------
(***************************************************************************)
(* Safety of CronService for any number of jobs, timer tasks, run_job      *)
(* callers and calls: types, one timer task at most, the cached store      *)
(* during a tick, a timer always armed while the service runs, and a       *)
(* durable job list that implements CronCatalog.                           *)
(***************************************************************************)
EXTENDS CronService, TLAPS, WellFoundedInduction

-----------------------------------------------------------------------------
(* Extremal elements *)

NatLess == {p \in Nat \X Nat : p[1] < p[2]}

LEMMA NatLessWellFounded == IsWellFoundedOn(NatLess, Nat)
BY NatLessThanWellFounded, Zenon DEF OpToRel, NatLess

\* A non-empty set of naturals has a least element (WakeAt's CHOOSE).
LEMMA NatMin ==
    ASSUME NEW T, T \subseteq Nat, T # {}
    PROVE  \E x \in T : \A y \in T : x <= y
<1>1. PICK x \in T : \A y \in T : ~ (<<y, x>> \in NatLess)
  BY WFMin, NatLessWellFounded
<1>2. \A y \in T : x <= y
  <2> SUFFICES ASSUME NEW y \in T, y < x PROVE FALSE
    OBVIOUS
  <2>1. <<y, x>> \in NatLess BY DEF NatLess
  <2> QED BY <1>1, <2>1
<1> QED BY <1>2

\* A non-empty set of positions has a greatest one (Replay's CHOOSE).
LEMMA PositionMax ==
    ASSUME NEW n \in Nat, NEW T, T \subseteq 1..n, T # {}
    PROVE  \E x \in T : \A y \in T : y <= x
<1> DEFINE U == {u \in Nat : \E i \in T : u = n - i}
<1>1. U # {}
  <2>1. PICK i \in T : TRUE OBVIOUS
  <2>2. n - i \in U BY i \in 1..n
  <2> QED BY <2>2
<1>2. PICK u \in U : \A v \in U : u <= v
  BY <1>1, U \subseteq Nat, NatMin
<1>3. PICK x \in T : u = n - x OBVIOUS
<1>4. \A y \in T : n - y \in U
  BY \A y \in T : y \in 1..n
<1>5. \A y \in T : y <= x
  BY <1>2, <1>3, <1>4, \A y \in T : y \in 1..n
<1> QED BY <1>5

-----------------------------------------------------------------------------
(* Types of the helpers *)

LEMMA ComputeNextRunType ==
    ASSUME NEW s \in Schedules, NEW t \in Nat
    PROVE  ComputeNextRun(s, t) \in Nat \cup {NoRun}
<1>1. s.kind \in Kinds /\ s.n \in Nat
  BY CronAssumption
<1>2. CASE s.kind = "cron" /\ s.n > 0
  <2>1. t \div s.n \in Nat BY <1>1, <1>2
  <2>2. \A a, b \in Nat : a * b \in Nat OBVIOUS
  <2>3. (t \div s.n + 1) * s.n \in Nat BY <2>1, <2>2, <1>1
  <2> QED BY <1>2, <2>3 DEF ComputeNextRun
<1>3. CASE ~(s.kind = "cron" /\ s.n > 0)
  BY <1>1, <1>3 DEF ComputeNextRun, Kinds
<1> QED BY <1>2, <1>3

LEMMA ReplayType ==
    ASSUME NEW d \in Catalogs, NEW l \in Seq(ActionRec)
    PROVE  Replay(d, l) \in Catalogs
<1> SUFFICES ASSUME NEW j \in Jobs PROVE Replay(d, l)[j] \in Slot
  BY DEF Catalogs, Replay
<1> DEFINE mine == {i \in DOMAIN l : l[i].id = j}
<1>1. CASE mine = {}
  BY <1>1 DEF Replay, Catalogs
<1>2. CASE mine # {}
  <2>1. mine \subseteq 1..Len(l) OBVIOUS
  <2>2. \E i \in mine : \A k \in mine : k <= i
    BY <2>1, <1>2, PositionMax, Len(l) \in Nat
  <2> DEFINE last == CHOOSE i \in mine : \A k \in mine : k <= i
  <2>3. last \in mine BY <2>2
  <2>4. Replay(d, l)[j] = l[last].job BY <1>2 DEF Replay
  <2>5. l[last] \in ActionRec BY <2>3
  <2> QED BY <2>4, <2>5 DEF ActionRec
<1> QED BY <1>1, <1>2

LEMMA LoadStoreType ==
    ASSUME StateOK, NEW r \in BOOLEAN
    PROVE  /\ LoadStore(r).s \in Catalogs \cup {NoStore}
           /\ LoadStore(r).d \in Catalogs \cup {Corrupt}
           /\ LoadStore(r).l \in Seq(ActionRec)
           /\ store # NoStore => LoadStore(r).s # NoStore
<1>1. EmptyCatalog \in Catalogs
  BY DEF EmptyCatalog, Catalogs, Slot
<1>2. disk # Corrupt => Replay(disk, alog) \in Catalogs
  BY ReplayType DEF StateOK
<1>3. <<>> \in Seq(ActionRec) OBVIOUS
<1>4. NoStore \notin Catalogs BY CronAssumption
<1> QED BY <1>1, <1>2, <1>3, <1>4 DEF LoadStore, StateOK

LEMMA NewJobType ==
    ASSUME StateOK, NEW s \in Schedules, NEW d \in BOOLEAN
    PROVE  NewJob(s, d) \in JobRec
BY ComputeNextRunType DEF NewJob, JobRec, StateOK

LEMMA ExecutedType ==
    ASSUME StateOK, NEW rec \in JobRec
    PROVE  Executed(rec) \in JobRec
<1>1. ComputeNextRun(rec.sched, now) \in Nat \cup {NoRun}
  BY ComputeNextRunType DEF JobRec, StateOK
<1> QED BY <1>1 DEF Executed, JobRec

LEMMA RecomputeType ==
    ASSUME StateOK, NEW s \in Catalogs
    PROVE  RecomputeNextRuns(s) \in Catalogs
<1> SUFFICES ASSUME NEW j \in Jobs PROVE RecomputeNextRuns(s)[j] \in Slot
  BY DEF RecomputeNextRuns, Catalogs
<1>1. CASE s[j] # Absent /\ s[j].enabled
  <2>1. s[j] \in JobRec BY <1>1 DEF Catalogs, Slot
  <2>2. ComputeNextRun(s[j].sched, now) \in Nat \cup {NoRun}
    BY <2>1, ComputeNextRunType DEF JobRec, StateOK
  <2> QED BY <1>1, <2>1, <2>2 DEF RecomputeNextRuns, JobRec, Slot
<1>2. CASE ~(s[j] # Absent /\ s[j].enabled)
  BY <1>2 DEF RecomputeNextRuns, Catalogs
<1> QED BY <1>1, <1>2

\* The sleep arm_timer asks for ends within max_sleep_ms.
LEMMA WakeAtBound ==
    ASSUME StateOK, NEW s \in Catalogs \cup {NoStore}
    PROVE  WakeAt(s) \in Int /\ WakeAt(s) <= now + MaxSleep
<1> DEFINE soon == {t \in WakeTimes(s) : t < now + MaxSleep}
<1>0. now \in Nat /\ MaxSleep \in Nat BY CronAssumption DEF StateOK
<1>1. WakeTimes(s) \subseteq Nat
  BY DEF WakeTimes, Catalogs, Slot, JobRec
<1>2. CASE soon = {}
  BY <1>0, <1>2 DEF WakeAt
<1>3. CASE soon # {}
  <2> DEFINE first == CHOOSE t \in soon : \A u \in soon : t <= u
  <2>1. \E t \in soon : \A u \in soon : t <= u
    BY <1>1, <1>3, soon \subseteq Nat, NatMin
  <2>2. first \in soon BY <2>1
  <2>3. WakeAt(s) = IF first < now THEN now ELSE first BY <1>3 DEF WakeAt
  <2>4. first \in Nat /\ first < now + MaxSleep BY <2>2, <1>1
  <2> HIDE DEF first
  <2> QED BY <1>0, <2>3, <2>4
<1> QED BY <1>2, <1>3

-----------------------------------------------------------------------------
(* The inductive invariant *)

\* A tick that is executing knows which of its due jobs it executes.
ExecCurrent ==
    \A t \in Tasks : st[t] = "exec" => cur[t] \in Jobs /\ due[t][cur[t]] # Absent

\* The part about timer tasks: what ArmTimer, stop and a crash re-establish.
TimerInv == SingleTimer /\ TickKeepsCache /\ ExecCurrent

IInv == StateOK /\ TimerInv /\ AlwaysArmed

TimerTypes ==
    /\ handle \in Tasks \cup {NoTask}
    /\ st \in [Tasks -> {"dead", "sleep", "enter", "tick", "exec"}]
    /\ wake \in [Tasks -> Int]
    /\ due \in [Tasks -> Catalogs]
    /\ cur \in [Tasks -> Jobs \cup {NoJob}]

LEMMA AbortTypes ==
    ASSUME StateOK, AbortTimer
    PROVE  due' \in [Tasks -> Catalogs] /\ cur' \in [Tasks -> Jobs \cup {NoJob}]
<1>1. NoDue \in Catalogs BY DEF NoDue, Catalogs, Slot
<1> QED BY <1>1 DEF AbortTimer, StateOK

\* After arm_timer the only live task sleeps, and there is one iff running.
LEMMA ArmTimerResult ==
    ASSUME StateOK, SingleTimer, NEW r \in BOOLEAN,
           NEW s \in Catalogs \cup {NoStore}, ArmTimer(r, s)
    PROVE  /\ TimerTypes'
           /\ TimerInv'
           /\ r => /\ handle' # NoTask /\ Live(handle)'
                   /\ wake'[handle'] <= now + MaxSleep
<1>1. due' \in [Tasks -> Catalogs] /\ cur' \in [Tasks -> Jobs \cup {NoJob}]
  BY AbortTypes DEF ArmTimer
<1>2. NoTask \notin Tasks BY CronAssumption
<1>3. CASE r
  <2>1. PICK t \in Tasks :
          /\ handle' = t
          /\ st' = [u \in Tasks |-> IF u = t THEN "sleep"
                                    ELSE IF u = handle THEN "dead" ELSE st[u]]
          /\ wake' = [wake EXCEPT ![t] = WakeAt(s)]
    BY <1>3 DEF ArmTimer
  <2>2. \A u \in Tasks : st'[u] = IF u = t THEN "sleep" ELSE "dead"
    BY <2>1 DEF SingleTimer, Live
  <2>3. TimerTypes'
    BY <1>1, <2>1, WakeAtBound DEF TimerTypes, StateOK
  <2>4. TimerInv'
    BY <2>1, <2>2 DEF TimerInv, SingleTimer, TickKeepsCache, ExecCurrent, Live, InTick
  <2>5. handle' # NoTask /\ Live(handle)' /\ wake'[handle'] <= now + MaxSleep
    BY <1>2, <2>1, <2>2, WakeAtBound DEF Live, StateOK
  <2> QED BY <2>3, <2>4, <2>5
<1>4. CASE ~r
  <2>1. /\ handle' = NoTask /\ wake' = wake
        /\ st' = [u \in Tasks |-> IF u = handle THEN "dead" ELSE st[u]]
    BY <1>4 DEF ArmTimer
  <2>2. \A u \in Tasks : st'[u] = "dead"
    BY <2>1 DEF SingleTimer, Live
  <2>3. TimerTypes' BY <1>1, <2>1 DEF TimerTypes, StateOK
  <2>4. TimerInv'
    BY <2>2 DEF TimerInv, SingleTimer, TickKeepsCache, ExecCurrent, Live, InTick
  <2> QED BY <1>4, <2>3, <2>4
<1> QED BY <1>3, <1>4

\* Steps that leave the timer tasks alone keep their invariant as long as they do
\* not drop the store or clear timer_active.
LEMMA KeepTimerResult ==
    ASSUME StateOK, TimerInv, UNCHANGED <<handle, st, wake, due, cur, timerActive>>,
           store # NoStore => store' # NoStore
    PROVE  TimerTypes' /\ TimerInv'
<1>1. TimerTypes' BY DEF StateOK, TimerTypes
<1>2. TimerInv'
  BY DEF TimerInv, SingleTimer, TickKeepsCache, ExecCurrent, Live, InTick
<1> QED BY <1>1, <1>2

\* `running` and the armed timer: what a step has to show for AlwaysArmed.
LEMMA ArmedKept ==
    ASSUME StateOK, AlwaysArmed, now' = now, rj' = rj, UNCHANGED <<handle, st, wake>>,
           running' => running
    PROVE  AlwaysArmed'
BY DEF AlwaysArmed, Live

-----------------------------------------------------------------------------
(* Initial states and the steps of the timer task *)

LEMMA InitIInv == Init => IInv
<1> SUFFICES ASSUME Init PROVE IInv OBVIOUS
<1>1. EmptyCatalog \in Catalogs /\ NoDue \in Catalogs
  BY DEF EmptyCatalog, NoDue, Catalogs, Slot
<1>2. StateOK
  <2>1. alog \in Seq(ActionRec) BY DEF Init
  <2>2. call \in [n : Nat, job : Jobs \cup {NoJob}] BY DEF Init
  <2>3. now \in Nat /\ running \in BOOLEAN /\ timerActive \in BOOLEAN BY DEF Init
  <2>4. st \in [Tasks -> {"dead", "sleep", "enter", "tick", "exec"}] BY DEF Init
  <2> QED BY <1>1, <2>1, <2>2, <2>3, <2>4 DEF Init, StateOK
<1>3. TimerInv /\ AlwaysArmed
  BY DEF Init, TimerInv, SingleTimer, TickKeepsCache, ExecCurrent, AlwaysArmed,
         Live, InTick
<1> QED BY <1>2, <1>3 DEF IInv

LEMMA WakeStep ==
    ASSUME IInv, NEW t \in Tasks, Wake(t)
    PROVE  IInv'
<1> USE DEF IInv
<1>1. StateOK' BY DEF StateOK, Wake
<1>2. TimerInv'
  BY DEF Wake, StateOK, TimerInv, SingleTimer, TickKeepsCache, ExecCurrent, Live, InTick
<1>3. AlwaysArmed'
  BY DEF Wake, StateOK, AlwaysArmed, TimerInv, SingleTimer, Live
<1> QED BY <1>1, <1>2, <1>3

LEMMA EnterTickStep ==
    ASSUME IInv, NEW t \in Tasks, EnterTick(t)
    PROVE  IInv'
<1> USE DEF IInv
<1> DEFINE L == LoadStore(running)
           D == [j \in Jobs |-> IF L.s # NoStore /\ IsDue(L.s[j]) THEN L.s[j] ELSE Absent]
<1>0. running \in BOOLEAN BY DEF StateOK
<1>1. /\ L.s \in Catalogs \cup {NoStore} /\ L.d \in Catalogs \cup {Corrupt}
      /\ L.l \in Seq(ActionRec) /\ (store # NoStore => L.s # NoStore)
  BY <1>0, LoadStoreType
<1>2. D \in Catalogs BY <1>1 DEF Catalogs, Slot
<1>3. L.s = NoStore => D = NoDue BY DEF NoDue
<1>4. /\ store' = L.s /\ disk' = L.d /\ alog' = L.l /\ timerActive' = TRUE
      /\ due' = [due EXCEPT ![t] = D]
      /\ st' = [st EXCEPT ![t] = "tick"] /\ st[t] = "enter"
      /\ UNCHANGED <<now, running, handle, wake, cur, rj, call>>
  BY DEF EnterTick
<1> HIDE DEF L, D
<1>5. StateOK' BY <1>1, <1>2, <1>4 DEF StateOK
<1>6. TimerInv'
  BY <1>1, <1>3, <1>4 DEF StateOK, TimerInv, SingleTimer, TickKeepsCache, ExecCurrent,
     Live, InTick
<1>7. AlwaysArmed'
  BY <1>4 DEF StateOK, AlwaysArmed, Live
<1> QED BY <1>5, <1>6, <1>7

LEMMA StartJobStep ==
    ASSUME IInv, NEW t \in Tasks, NEW j \in Jobs, StartJob(t, j)
    PROVE  IInv'
<1> USE DEF IInv
<1>1. StateOK' BY DEF StateOK, StartJob
<1>2. TimerInv'
  BY DEF StartJob, StateOK, TimerInv, SingleTimer, TickKeepsCache, ExecCurrent, Live,
         InTick
<1>3. AlwaysArmed'
  BY DEF StartJob, StateOK, AlwaysArmed, Live
<1> QED BY <1>1, <1>2, <1>3

LEMMA WriteBackStep ==
    ASSUME IInv, NEW t \in Tasks, WriteBack(t)
    PROVE  IInv'
<1> USE DEF IInv
<1> DEFINE j == cur[t]
           c == due[t][j]
<1>1. j \in Jobs /\ c \in JobRec
  BY DEF WriteBack, StateOK, TimerInv, ExecCurrent, Catalogs, Slot
<1>2. Executed(c) \in JobRec BY <1>1, ExecutedType
<1>3. /\ st[t] = "exec"
      /\ store' \in Catalogs \cup {NoStore}
      /\ store # NoStore => store' # NoStore
  <2>1. \A x \in Slot, f \in Catalogs : [f EXCEPT ![j] = x] \in Catalogs
    BY <1>1 DEF Catalogs
  <2>2. Absent \in Slot /\ Executed(c) \in Slot BY <1>2 DEF Slot
  <2>3. NoStore \notin Catalogs BY CronAssumption
  <2>4. /\ st[t] = "exec"
        /\ \/ store' = store
           \/ store # NoStore /\ store' = [store EXCEPT ![j] = Absent]
           \/ store # NoStore /\ store' = [store EXCEPT ![j] = Executed(c)]
    BY DEF WriteBack
  <2>5. store \in Catalogs \cup {NoStore} BY DEF StateOK
  <2> HIDE DEF j, c, IInv
  <2> QED BY <2>1, <2>2, <2>3, <2>4, <2>5
<1>4. /\ due' = [due EXCEPT ![t][j] = Absent]
      /\ st' = [st EXCEPT ![t] = "tick"] /\ cur' = [cur EXCEPT ![t] = NoJob]
      /\ UNCHANGED <<now, disk, alog, running, timerActive, handle, wake, rj, call>>
  BY DEF WriteBack
<1>5. due' \in [Tasks -> Catalogs]
  BY <1>1, <1>4 DEF StateOK, Catalogs, Slot
<1>6. StateOK' BY <1>3, <1>4, <1>5 DEF StateOK
<1>7. store # NoStore
  <2>1. due[t] # NoDue BY <1>1, CronAssumption DEF NoDue
  <2> QED BY <2>1, <1>3 DEF TimerInv, TickKeepsCache, InTick
<1>8. TimerInv'
  BY <1>3, <1>4, <1>7 DEF StateOK, TimerInv, SingleTimer, TickKeepsCache, ExecCurrent,
     Live, InTick
<1>9. AlwaysArmed' BY <1>3, <1>4 DEF StateOK, AlwaysArmed, Live
<1> QED BY <1>6, <1>8, <1>9

LEMMA FinishTickStep ==
    ASSUME IInv, NEW t \in Tasks, FinishTick(t)
    PROVE  IInv'
<1> USE DEF IInv
<1>1. /\ ArmTimer(running, store) /\ disk' = SaveStore(store, disk)
      /\ timerActive' = FALSE
      /\ UNCHANGED <<now, alog, store, running, rj, call>>
  BY DEF FinishTick
<1>2. /\ TimerTypes' /\ TimerInv'
      /\ running => /\ handle' # NoTask /\ Live(handle)'
                    /\ wake'[handle'] <= now + MaxSleep
  BY <1>1, ArmTimerResult DEF StateOK, TimerInv
<1>3. StateOK' BY <1>1, <1>2 DEF StateOK, TimerTypes, SaveStore
<1>4. AlwaysArmed' BY <1>1, <1>2 DEF AlwaysArmed
<1> QED BY <1>2, <1>3, <1>4

-----------------------------------------------------------------------------
(* The public calls *)

LEMMA CallType ==
    ASSUME StateOK, NEW j \in Jobs \cup {NoJob}, Call(j)
    PROVE  call' \in [n : Nat, job : Jobs \cup {NoJob}]
BY DEF StateOK, Call

LEMMA PutType ==
    ASSUME NEW s \in Catalogs, NEW j \in Jobs, NEW x \in Slot
    PROVE  [s EXCEPT ![j] = x] \in Catalogs
BY DEF Catalogs

\* A call that ends in arm_timer with the files and the store well typed.
LEMMA ArmStep ==
    ASSUME IInv, ArmTimer(running', store'), now' = now,
           store' \in Catalogs \cup {NoStore}, disk' \in Catalogs \cup {Corrupt},
           alog' \in Seq(ActionRec), running' \in BOOLEAN, timerActive' = timerActive,
           rj' \in [Runners -> [id : Jobs, rec : JobRec, was : BOOLEAN] \cup {Idle}],
           call' \in [n : Nat, job : Jobs \cup {NoJob}]
    PROVE  IInv'
<1> USE DEF IInv
<1>1. /\ TimerTypes' /\ TimerInv'
      /\ running' => /\ handle' # NoTask /\ Live(handle)'
                     /\ wake'[handle'] <= now + MaxSleep
  BY ArmTimerResult DEF TimerInv
<1>2. StateOK' BY <1>1 DEF StateOK, TimerTypes
<1>3. AlwaysArmed' BY <1>1 DEF AlwaysArmed
<1> QED BY <1>1, <1>2, <1>3

\* A call that leaves the timer alone and does not set `running`.
LEMMA QuietStep ==
    ASSUME IInv, KeepTimer, now' = now, rj' = rj, timerActive' = timerActive,
           store' \in Catalogs \cup {NoStore}, disk' \in Catalogs \cup {Corrupt},
           alog' \in Seq(ActionRec), store # NoStore => store' # NoStore,
           running' \in BOOLEAN, running' => running,
           call' \in [n : Nat, job : Jobs \cup {NoJob}]
    PROVE  IInv'
<1> USE DEF IInv
<1>1. UNCHANGED <<handle, st, wake, due, cur>> BY DEF KeepTimer, timerVars
<1>2. TimerTypes' /\ TimerInv' BY <1>1, KeepTimerResult
<1>3. StateOK' BY <1>2 DEF StateOK, TimerTypes
<1>4. AlwaysArmed' BY <1>1, ArmedKept
<1> QED BY <1>2, <1>3, <1>4

LEMMA StartStep ==
    ASSUME IInv, Start
    PROVE  IInv'
<1> DEFINE L == LoadStore(TRUE)
<1>1. StateOK BY DEF IInv
<1>2. /\ L.s \in Catalogs \cup {NoStore} /\ L.d \in Catalogs \cup {Corrupt}
      /\ L.l \in Seq(ActionRec) /\ (store # NoStore => L.s # NoStore)
  BY <1>1, LoadStoreType
<1>3. call' \in [n : Nat, job : Jobs \cup {NoJob}] BY <1>1, CallType DEF Start
<1>4. alog' = L.l /\ UNCHANGED <<now, timerActive, rj>> BY DEF Start
<1>5. CASE L.s = NoStore
  <2>1. running' = FALSE /\ store' = L.s /\ disk' = L.d /\ KeepTimer
    BY <1>5 DEF Start
  <2> QED BY <1>2, <1>3, <1>4, <2>1, QuietStep
<1>6. CASE L.s # NoStore
  <2>1. /\ running' = TRUE /\ store' = RecomputeNextRuns(L.s) /\ disk' = store'
        /\ ArmTimer(TRUE, store')
    BY <1>6 DEF Start
  <2>2. store' \in Catalogs BY <1>1, <1>2, <1>6, <2>1, RecomputeType
  <2>3. ArmTimer(running', store') BY <2>1
  <2> HIDE DEF L
  <2> QED BY <1>1, <1>2, <1>3, <1>4, <2>1, <2>2, <2>3, ArmStep DEF StateOK
<1> QED BY <1>5, <1>6

LEMMA StopStep ==
    ASSUME IInv, Stop
    PROVE  IInv'
<1> USE DEF IInv
<1>1. due' \in [Tasks -> Catalogs] /\ cur' \in [Tasks -> Jobs \cup {NoJob}]
  BY AbortTypes DEF Stop
<1>2. call' \in [n : Nat, job : Jobs \cup {NoJob}] BY CallType DEF Stop
<1>3. \A u \in Tasks : st'[u] = "dead"
  BY DEF Stop, TimerInv, SingleTimer, Live
<1>4. StateOK' BY <1>1, <1>2 DEF Stop, StateOK
<1>5. TimerInv' BY <1>3 DEF TimerInv, SingleTimer, TickKeepsCache, ExecCurrent, Live, InTick
<1>6. AlwaysArmed' BY DEF Stop, AlwaysArmed
<1> QED BY <1>4, <1>5, <1>6

LEMMA QueryStep ==
    ASSUME IInv, Query
    PROVE  IInv'
<1>1. StateOK /\ running \in BOOLEAN BY DEF IInv, StateOK
<1>2. /\ LoadStore(running).s \in Catalogs \cup {NoStore}
      /\ LoadStore(running).d \in Catalogs \cup {Corrupt}
      /\ LoadStore(running).l \in Seq(ActionRec)
      /\ store # NoStore => LoadStore(running).s # NoStore
  BY <1>1, LoadStoreType
<1>3. call' \in [n : Nat, job : Jobs \cup {NoJob}] BY <1>1, CallType DEF Query
<1>4. KeepTimer BY DEF Query, KeepTimer
<1> QED BY <1>1, <1>2, <1>3, <1>4, QuietStep DEF Query

LEMMA AddJobStep ==
    ASSUME IInv, NEW j \in Jobs, NEW s \in Schedules, NEW d \in BOOLEAN, AddJob(j, s, d)
    PROVE  IInv'
<1> DEFINE L == LoadStore(TRUE)
<1>1. StateOK /\ running \in BOOLEAN BY DEF IInv, StateOK
<1>2. /\ L.s \in Catalogs \cup {NoStore} /\ L.d \in Catalogs \cup {Corrupt}
      /\ L.l \in Seq(ActionRec)
  BY <1>1, LoadStoreType
<1>3. call' \in [n : Nat, job : Jobs \cup {NoJob}] BY <1>1, CallType DEF AddJob
<1>4. UNCHANGED <<now, running, timerActive, rj>> BY DEF AddJob
<1>5. NewJob(s, d) \in Slot BY <1>1, NewJobType DEF Slot
<1>6. CASE running
  <2>1. /\ store' = IF L.s = NoStore THEN NoStore ELSE [L.s EXCEPT ![j] = NewJob(s, d)]
        /\ disk' = SaveStore(store', L.d) /\ alog' = L.l /\ ArmTimer(TRUE, store')
    BY <1>6 DEF AddJob
  <2>2. store' \in Catalogs \cup {NoStore} BY <1>2, <1>5, <2>1, PutType
  <2>3. disk' \in Catalogs \cup {Corrupt} BY <1>2, <2>1, <2>2 DEF SaveStore
  <2>4. running' = TRUE BY <1>1, <1>4, <1>6
  <2>5. ArmTimer(running', store') BY <2>1, <2>4
  <2> HIDE DEF L
  <2> QED BY <1>1, <1>2, <1>3, <1>4, <2>1, <2>2, <2>3, <2>4, <2>5, ArmStep DEF StateOK
<1>7. CASE ~running
  <2>1. /\ alog' = Append(alog, [id |-> j, job |-> NewJob(s, d)])
        /\ UNCHANGED <<disk, store>> /\ KeepTimer
    BY <1>7 DEF AddJob
  <2>2. alog' \in Seq(ActionRec) BY <1>1, <1>5, <2>1 DEF StateOK, ActionRec
  <2> QED BY <1>1, <1>3, <1>4, <2>1, <2>2, QuietStep DEF StateOK
<1> QED BY <1>6, <1>7

LEMMA RegisterStep ==
    ASSUME IInv, NEW j \in Jobs, NEW s \in Schedules, RegisterSystemJob(j, s)
    PROVE  IInv'
<1> DEFINE L == LoadStore(running)
<1>1. StateOK /\ running \in BOOLEAN BY DEF IInv, StateOK
<1>2. /\ L.s \in Catalogs \cup {NoStore} /\ L.d \in Catalogs \cup {Corrupt}
      /\ L.l \in Seq(ActionRec)
  BY <1>1, LoadStoreType
<1>3. call' \in [n : Nat, job : Jobs \cup {NoJob}] BY <1>1, CallType DEF RegisterSystemJob
<1>4. NewJob(s, FALSE) \in Slot BY <1>1, NewJobType DEF Slot
<1>5. /\ store' = IF L.s = NoStore THEN NoStore ELSE [L.s EXCEPT ![j] = NewJob(s, FALSE)]
      /\ disk' = SaveStore(store', L.d) /\ alog' = L.l /\ ArmTimer(running, store')
      /\ UNCHANGED <<now, running, timerActive, rj>>
  BY DEF RegisterSystemJob
<1>6. store' \in Catalogs \cup {NoStore} BY <1>2, <1>4, <1>5, PutType
<1>7. disk' \in Catalogs \cup {Corrupt} BY <1>2, <1>5, <1>6 DEF SaveStore
<1>8. ArmTimer(running', store') BY <1>5
<1> HIDE DEF L
<1> QED BY <1>1, <1>2, <1>3, <1>5, <1>6, <1>7, <1>8, ArmStep DEF StateOK

\* remove_job, enable_job and update_job share their end.
LEMMA CommitStep ==
    ASSUME IInv, NEW j \in Jobs, NEW s \in Catalogs, Commit(LoadStore(running), s, j),
           Call(j)
    PROVE  IInv'
<1> DEFINE L == LoadStore(running)
<1>1. StateOK /\ running \in BOOLEAN BY DEF IInv, StateOK
<1>2. L.d \in Catalogs \cup {Corrupt} /\ L.l \in Seq(ActionRec)
  BY <1>1, LoadStoreType
<1>3. call' \in [n : Nat, job : Jobs \cup {NoJob}] BY <1>1, CallType
<1>4. store' = s /\ UNCHANGED <<now, running, timerActive, rj>> BY DEF Commit
<1>5. CASE running
  <2>1. disk' = s /\ alog' = L.l /\ ArmTimer(TRUE, s) BY <1>5 DEF Commit
  <2>2. running' = TRUE BY <1>1, <1>4, <1>5
  <2>3. ArmTimer(running', store') BY <1>4, <2>1, <2>2
  <2> HIDE DEF L
  <2> QED BY <1>1, <1>2, <1>3, <1>4, <2>1, <2>2, <2>3, ArmStep DEF StateOK
<1>6. CASE ~running
  <2>1. disk' = L.d /\ alog' = Append(L.l, [id |-> j, job |-> s[j]]) /\ KeepTimer
    BY <1>6 DEF Commit
  <2>2. s[j] \in Slot BY DEF Catalogs
  <2>3. alog' \in Seq(ActionRec) BY <1>2, <2>1, <2>2 DEF ActionRec
  <2>4. store' # NoStore BY <1>4, CronAssumption
  <2> HIDE DEF L
  <2> QED BY <1>1, <1>2, <1>3, <1>4, <2>1, <2>3, <2>4, QuietStep DEF StateOK
<1> QED BY <1>5, <1>6

LEMMA RemoveStep ==
    ASSUME IInv, NEW j \in Jobs, RemoveJob(j)
    PROVE  IInv'
<1> DEFINE L == LoadStore(running)
<1>1. StateOK /\ running \in BOOLEAN BY DEF IInv, StateOK
<1>2. L.s \in Catalogs BY <1>1, LoadStoreType DEF RemoveJob
<1>3. [L.s EXCEPT ![j] = Absent] \in Catalogs BY <1>2, PutType DEF Slot
<1> QED BY <1>3, CommitStep DEF RemoveJob

\* Changing fields of a job that is there yields a job.
LEMMA EditType ==
    ASSUME NEW s \in Catalogs, NEW j \in Jobs, s[j] # Absent
    PROVE  /\ s[j] \in JobRec
           /\ \A e \in BOOLEAN, n \in Nat \cup {NoRun} :
                [s EXCEPT ![j].enabled = e, ![j].next = n] \in Catalogs
           /\ \A c \in Schedules, d \in BOOLEAN, n \in Nat \cup {NoRun} :
                [s EXCEPT ![j].sched = c, ![j].del = d, ![j].next = n] \in Catalogs
<1>1. s[j] \in JobRec BY DEF Catalogs, Slot
<1>2. ASSUME NEW e \in BOOLEAN, NEW n \in Nat \cup {NoRun}
      PROVE  [s EXCEPT ![j].enabled = e, ![j].next = n] \in Catalogs
  BY <1>1 DEF Catalogs, Slot, JobRec
<1>3. ASSUME NEW c \in Schedules, NEW d \in BOOLEAN, NEW n \in Nat \cup {NoRun}
      PROVE  [s EXCEPT ![j].sched = c, ![j].del = d, ![j].next = n] \in Catalogs
  BY <1>1 DEF Catalogs, Slot, JobRec
<1> QED BY <1>1, <1>2, <1>3

LEMMA EnableStep ==
    ASSUME IInv, NEW j \in Jobs, NEW e \in BOOLEAN, EnableJob(j, e)
    PROVE  IInv'
<1> DEFINE L == LoadStore(running)
           next == IF e THEN ComputeNextRun(L.s[j].sched, now) ELSE NoRun
<1>1. StateOK /\ running \in BOOLEAN /\ now \in Nat BY DEF IInv, StateOK
<1>2. L.s \in Catalogs /\ L.s[j] # Absent BY <1>1, LoadStoreType DEF EnableJob
<1>3. L.s[j].sched \in Schedules BY <1>2, EditType DEF JobRec
<1>4. next \in Nat \cup {NoRun} BY <1>1, <1>3, ComputeNextRunType
<1>5. [L.s EXCEPT ![j].enabled = e, ![j].next = next] \in Catalogs
  BY <1>2, <1>4, EditType
<1> QED BY <1>5, CommitStep DEF EnableJob

LEMMA UpdateStep ==
    ASSUME IInv, NEW j \in Jobs, NEW s \in Schedules, NEW d \in BOOLEAN, UpdateJob(j, s, d)
    PROVE  IInv'
<1> DEFINE L == LoadStore(running)
           next == IF L.s[j].enabled THEN ComputeNextRun(s, now) ELSE L.s[j].next
<1>1. StateOK /\ running \in BOOLEAN /\ now \in Nat BY DEF IInv, StateOK
<1>2. L.s \in Catalogs /\ L.s[j] # Absent BY <1>1, LoadStoreType DEF UpdateJob
<1>3. L.s[j].next \in Nat \cup {NoRun} BY <1>2, EditType DEF JobRec
<1>4. next \in Nat \cup {NoRun} BY <1>1, <1>3, ComputeNextRunType
<1>5. [L.s EXCEPT ![j].sched = s, ![j].del = d, ![j].next = next] \in Catalogs
  BY <1>2, <1>4, EditType
<1> QED BY <1>5, CommitStep DEF UpdateJob

\* While a run_job call is in flight AlwaysArmed claims nothing; when it is
\* refused, `running` and the timer are as before.
LEMMA RunJobBeginStep ==
    ASSUME IInv, NEW r \in Runners, NEW j \in Jobs, NEW force \in BOOLEAN,
           RunJobBegin(r, j, force)
    PROVE  IInv'
<1> DEFINE L == LoadStore(TRUE)
           go == L.s # NoStore /\ L.s[j] # Absent /\ (force \/ L.s[j].enabled)
<1>1. StateOK /\ running \in BOOLEAN BY DEF IInv, StateOK
<1>2. /\ L.s \in Catalogs \cup {NoStore} /\ L.d \in Catalogs \cup {Corrupt}
      /\ L.l \in Seq(ActionRec) /\ (store # NoStore => L.s # NoStore)
  BY <1>1, LoadStoreType
<1>3. call' \in [n : Nat, job : Jobs \cup {NoJob}] BY <1>1, CallType DEF RunJobBegin
<1>4. /\ store' = L.s /\ disk' = L.d /\ alog' = L.l
      /\ rj[r] = Idle /\ running' = (running \/ go)
      /\ rj' = [rj EXCEPT ![r] = IF go THEN [id |-> j, rec |-> L.s[j], was |-> running]
                                       ELSE Idle]
      /\ UNCHANGED <<now, timerActive, timerVars>>
  BY DEF RunJobBegin
<1>5. CASE go
  <2>1. L.s[j] \in JobRec BY <1>2, <1>5 DEF Catalogs, Slot
  <2>2. rj' = [rj EXCEPT ![r] = [id |-> j, rec |-> L.s[j], was |-> running]]
    BY <1>4, <1>5
  <2> HIDE DEF L, go
  <2>3. rj' \in [Runners -> [id : Jobs, rec : JobRec, was : BOOLEAN] \cup {Idle}]
    BY <1>1, <2>1, <2>2 DEF StateOK
  <2>4. rj'[r] # Idle
    BY <1>1, <2>1, <2>2, CronAssumption DEF StateOK
  <2>5. TimerTypes' /\ TimerInv'
    BY <1>1, <1>2, <1>4, KeepTimerResult DEF timerVars, IInv
  <2>6. running' \in BOOLEAN BY <1>1, <1>4, <1>5
  <2>7. StateOK' BY <1>1, <1>2, <1>3, <1>4, <2>3, <2>5, <2>6 DEF StateOK, TimerTypes
  <2>8. AlwaysArmed' BY <2>4 DEF AlwaysArmed
  <2> QED BY <2>5, <2>7, <2>8 DEF IInv
<1>6. CASE ~go
  <2>1. running' = running BY <1>1, <1>4, <1>6
  <2>2. rj' = rj BY <1>1, <1>4, <1>6 DEF StateOK
  <2>3. KeepTimer BY <1>4 DEF KeepTimer
  <2> HIDE DEF L, go
  <2> QED BY <1>1, <1>2, <1>3, <1>4, <2>1, <2>2, <2>3, QuietStep
<1> QED BY <1>5, <1>6

LEMMA RunJobEndStep ==
    ASSUME IInv, NEW r \in Runners, RunJobEnd(r)
    PROVE  IInv'
<1> DEFINE j == rj[r].id
<1>1. StateOK BY DEF IInv
<1>2. rj[r] \in [id : Jobs, rec : JobRec, was : BOOLEAN] BY <1>1 DEF RunJobEnd, StateOK
<1>3. j \in Jobs /\ Executed(rj[r].rec) \in Slot /\ rj[r].was \in BOOLEAN
  BY <1>1, <1>2, ExecutedType DEF Slot
<1>4. /\ store' = IF store # NoStore /\ store[j] # Absent
                  THEN [store EXCEPT ![j] = Executed(rj[r].rec)] ELSE store
      /\ disk' = SaveStore(store', disk) /\ running' = rj[r].was
      /\ rj' = [rj EXCEPT ![r] = Idle]
      /\ IF rj[r].was THEN ArmTimer(TRUE, store') ELSE KeepTimer
      /\ UNCHANGED <<now, alog, timerActive, call>>
  BY DEF RunJobEnd
<1>5. store' \in Catalogs \cup {NoStore} /\ (store # NoStore => store' # NoStore)
  <2>1. store # NoStore => [store EXCEPT ![j] = Executed(rj[r].rec)] \in Catalogs
    BY <1>1, <1>3, PutType DEF StateOK
  <2>2. NoStore \notin Catalogs BY CronAssumption
  <2>3. store \in Catalogs \cup {NoStore} BY <1>1 DEF StateOK
  <2> HIDE DEF j
  <2> QED BY <1>4, <2>1, <2>2, <2>3
<1>6. disk' \in Catalogs \cup {Corrupt} BY <1>1, <1>4, <1>5 DEF SaveStore, StateOK
<1>7. rj' \in [Runners -> [id : Jobs, rec : JobRec, was : BOOLEAN] \cup {Idle}]
  BY <1>1, <1>4 DEF StateOK
<1>8. alog' \in Seq(ActionRec) /\ call' \in [n : Nat, job : Jobs \cup {NoJob}]
  BY <1>1, <1>4 DEF StateOK
<1>9. CASE rj[r].was
  <2>1. running' = TRUE /\ ArmTimer(TRUE, store') BY <1>3, <1>4, <1>9
  <2>2. ArmTimer(running', store') BY <2>1
  <2> QED BY <1>4, <1>5, <1>6, <1>7, <1>8, <2>1, <2>2, ArmStep
<1>10. CASE ~rj[r].was
  <2>1. running' = FALSE /\ KeepTimer BY <1>3, <1>4, <1>10
  <2>2. UNCHANGED <<handle, st, wake, due, cur>> BY <2>1 DEF KeepTimer, timerVars
  <2>3. TimerTypes' /\ TimerInv' BY <1>1, <1>4, <1>5, <2>2, KeepTimerResult DEF IInv
  <2>4. StateOK' BY <1>1, <1>4, <1>5, <1>6, <1>7, <1>8, <2>1, <2>3 DEF StateOK, TimerTypes
  <2>5. AlwaysArmed' BY <2>1 DEF AlwaysArmed
  <2> QED BY <2>3, <2>4, <2>5 DEF IInv
<1> QED BY <1>9, <1>10

-----------------------------------------------------------------------------
(* The rest of the world, and the theorems *)

LEMMA ToolAddStep ==
    ASSUME IInv, NEW j \in Jobs, NEW s \in Schedules, NEW d \in BOOLEAN, ToolAdd(j, s, d)
    PROVE  IInv'
<1>1. StateOK BY DEF IInv
<1>2. NewJob(s, d) \in Slot BY <1>1, NewJobType DEF Slot
<1>3. alog' \in Seq(ActionRec) BY <1>1, <1>2 DEF ToolAdd, ActionRec, StateOK
<1>4. call' \in [n : Nat, job : Jobs \cup {NoJob}] BY <1>1, CallType DEF ToolAdd
<1> QED BY <1>1, <1>3, <1>4, QuietStep DEF ToolAdd, KeepTimer, StateOK

LEMMA ToolRemoveStep ==
    ASSUME IInv, NEW j \in Jobs, ToolRemove(j)
    PROVE  IInv'
<1>1. StateOK BY DEF IInv
<1>2. alog' \in Seq(ActionRec) BY <1>1 DEF ToolRemove, ActionRec, Slot, StateOK
<1>3. call' \in [n : Nat, job : Jobs \cup {NoJob}] BY <1>1, CallType DEF ToolRemove
<1> QED BY <1>1, <1>2, <1>3, QuietStep DEF ToolRemove, KeepTimer, StateOK

LEMMA ToolRenameStep ==
    ASSUME IInv, ToolRename
    PROVE  IInv'
<1>1. StateOK BY DEF IInv
<1>2. disk' \in Catalogs BY DEF ToolRename, EmptyCatalog, Catalogs, Slot
<1>3. call' \in [n : Nat, job : Jobs \cup {NoJob}] BY <1>1, CallType DEF ToolRename
<1> QED BY <1>1, <1>2, <1>3, QuietStep DEF ToolRename, KeepTimer, StateOK

LEMMA DiesStep ==
    ASSUME IInv, Dies, disk' \in Catalogs \cup {Corrupt}, alog' \in Seq(ActionRec)
    PROVE  IInv'
<1>1. StateOK BY DEF IInv
<1>2. NoDue \in Catalogs BY DEF NoDue, Catalogs, Slot
<1>3. call' \in [n : Nat, job : Jobs \cup {NoJob}] BY <1>1, CallType DEF Dies
<1>4. StateOK' BY <1>1, <1>2, <1>3 DEF Dies, StateOK
<1>5. TimerInv'
  BY DEF Dies, TimerInv, SingleTimer, TickKeepsCache, ExecCurrent, Live, InTick
<1>6. AlwaysArmed' BY DEF Dies, AlwaysArmed
<1> QED BY <1>4, <1>5, <1>6 DEF IInv

LEMMA ClockStep ==
    ASSUME IInv, Clock
    PROVE  IInv'
<1> USE DEF IInv
<1>1. UNCHANGED <<handle, st, wake, due, cur>> BY DEF Clock, timerVars
<1>2. TimerTypes' /\ TimerInv' BY <1>1, KeepTimerResult DEF Clock
<1>3. StateOK' BY <1>2 DEF Clock, StateOK, TimerTypes
<1>4. AlwaysArmed'
  <2>1. now \in Nat /\ now' = now + 1 /\ MaxSleep \in Nat
    BY CronAssumption DEF Clock, StateOK
  <2>2. UNCHANGED <<running, rj>> BY DEF Clock
  <2>3. handle \in Tasks => wake[handle] \in Int BY DEF StateOK
  <2> QED BY <1>1, <2>1, <2>2, <2>3 DEF AlwaysArmed, Live, StateOK
<1> QED BY <1>2, <1>3, <1>4

LEMMA NextIInv == IInv /\ [Next]_vars => IInv'
<1> SUFFICES ASSUME IInv, [Next]_vars PROVE IInv' OBVIOUS
<1>1. CASE Start BY <1>1, StartStep
<1>2. CASE Stop BY <1>2, StopStep
<1>3. CASE Query BY <1>3, QueryStep
<1>4. ASSUME NEW j \in Jobs, JobCall(j) PROVE IInv'
  BY <1>4, RemoveStep, ToolRemoveStep, EnableStep, RegisterStep, AddJobStep,
     UpdateStep, ToolAddStep, RunJobBeginStep DEF JobCall
<1>5. ASSUME NEW r \in Runners, RunJobEnd(r) PROVE IInv'
  BY <1>5, RunJobEndStep
<1>6. ASSUME NEW t \in Tasks, TimerStep(t) PROVE IInv'
  BY <1>6, WakeStep, EnterTickStep, StartJobStep, WriteBackStep, FinishTickStep
     DEF TimerStep
<1>7. CASE Crash BY <1>7, DiesStep DEF Crash, fileVars, IInv, StateOK
<1>8. CASE CrashInMerge BY <1>8, DiesStep DEF CrashInMerge, IInv, StateOK
<1>9. CASE CrashInSave BY <1>9, DiesStep DEF CrashInSave, IInv, StateOK
<1>10. CASE Clock BY <1>10, ClockStep
<1>12. CASE ToolRename BY <1>12, ToolRenameStep
<1>11. CASE UNCHANGED vars
  <2>1. StateOK' BY <1>11 DEF vars, IInv, StateOK
  <2>2. TimerInv' BY <1>11, KeepTimerResult DEF vars, IInv
  <2>3. AlwaysArmed' BY <1>11, ArmedKept DEF vars, IInv
  <2> QED BY <2>1, <2>2, <2>3 DEF IInv
<1> QED
  BY <1>1, <1>2, <1>3, <1>4, <1>5, <1>6, <1>7, <1>8, <1>9, <1>10, <1>11, <1>12 DEF Next

\* IInv is invariant: the strengthening all theorems below project from.
THEOREM CronInvariant == Spec => []IInv
<1>1. Init => IInv BY InitIInv
<1>2. IInv /\ [Next]_vars => IInv' BY NextIInv
<1> QED BY <1>1, <1>2, PTL DEF Spec

\* The tool's state and the history variables along every step
HistoryOK == tool \in {"idle", "torn"} /\ ran \subseteq Jobs /\ harmed \subseteq Jobs

LEMMA NextHistory == IInv /\ HistoryOK /\ [Next]_vars => HistoryOK'
<1> SUFFICES ASSUME IInv, HistoryOK, [Next]_vars PROVE HistoryOK' OBVIOUS
<1> USE DEF HistoryOK
<1>1. tool \in {"idle", "torn"} /\ ran \subseteq Jobs /\ harmed \subseteq Jobs OBVIOUS
<1>2. ASSUME NEW w, MayTear(w) PROVE tool' \in {"idle", "torn"} BY <1>1, <1>2 DEF MayTear
<1>3. ASSUME NEW k, Call(k) PROVE ran' \subseteq Jobs BY <1>1, <1>3 DEF Call
<1>4. ASSUME UNCHANGED pastVars PROVE ran' \subseteq Jobs /\ harmed' \subseteq Jobs
  BY <1>1, <1>4 DEF pastVars
<1>5. CASE Start BY <1>1, <1>2, <1>3, <1>5 DEF Start
<1>6. CASE Stop BY <1>1, <1>3, <1>6 DEF Stop
<1>7. CASE Query BY <1>1, <1>2, <1>3, <1>7 DEF Query
<1>8. ASSUME NEW L, NEW s, NEW j, Commit(L, s, j), Call(j) PROVE HistoryOK'
  BY <1>1, <1>2, <1>3, <1>8 DEF Commit
<1>9. ASSUME NEW j \in Jobs, JobCall(j) PROVE HistoryOK'
  <2>1. CASE RemoveJob(j) BY <1>8, <2>1 DEF RemoveJob
  <2>2. CASE ToolRemove(j) BY <1>1, <1>3, <2>2 DEF ToolRemove
  <2>3. ASSUME NEW e \in BOOLEAN, EnableJob(j, e) PROVE HistoryOK' BY <1>8, <2>3 DEF EnableJob
  <2>4. ASSUME NEW s \in Schedules, RegisterSystemJob(j, s) PROVE HistoryOK'
    BY <1>1, <1>2, <1>3, <2>4 DEF RegisterSystemJob
  <2>5. ASSUME NEW s \in Schedules, NEW d \in BOOLEAN, AddJob(j, s, d) PROVE HistoryOK'
    BY <1>1, <1>2, <1>3, <2>5 DEF AddJob
  <2>6. ASSUME NEW s \in Schedules, NEW d \in BOOLEAN, UpdateJob(j, s, d) PROVE HistoryOK'
    BY <1>8, <2>6 DEF UpdateJob
  <2>7. ASSUME NEW s \in Schedules, NEW d \in BOOLEAN, ToolAdd(j, s, d) PROVE HistoryOK'
    BY <1>1, <1>3, <2>7 DEF ToolAdd
  <2>8. ASSUME NEW r \in Runners, NEW f \in BOOLEAN, RunJobBegin(r, j, f) PROVE HistoryOK'
    BY <1>1, <1>2, <1>3, <2>8 DEF RunJobBegin
  <2> QED BY <1>9, <2>1, <2>2, <2>3, <2>4, <2>5, <2>6, <2>7, <2>8 DEF JobCall
<1>10. ASSUME NEW r \in Runners, RunJobEnd(r) PROVE HistoryOK'
  <2>1. rj[r].id \in Jobs BY <1>10 DEF RunJobEnd, IInv, StateOK
  <2>2. harmed' \subseteq harmed \cup {rj[r].id} BY <1>10 DEF RunJobEnd
  <2> QED BY <1>1, <1>2, <1>10, <2>1, <2>2 DEF RunJobEnd
<1>11. ASSUME NEW t \in Tasks, TimerStep(t) PROVE HistoryOK'
  <2>1. CASE Wake(t) BY <1>1, <1>4, <2>1 DEF Wake
  <2>2. CASE EnterTick(t) BY <1>2, <1>4, <2>2 DEF EnterTick
  <2>3. ASSUME NEW j \in Jobs, StartJob(t, j) PROVE HistoryOK' BY <1>1, <1>4, <2>3 DEF StartJob
  <2>4. CASE WriteBack(t)
    <3>1. cur[t] \in Jobs BY <2>4 DEF WriteBack, IInv, TimerInv, ExecCurrent
    <3>2. ran' \subseteq ran \cup {cur[t]} BY <2>4 DEF WriteBack
    <3> QED BY <1>1, <2>4, <3>1, <3>2 DEF WriteBack
  <2>5. CASE FinishTick(t) BY <1>2, <1>4, <2>5 DEF FinishTick
  <2> QED BY <1>11, <2>1, <2>2, <2>3, <2>4, <2>5 DEF TimerStep
<1>12. CASE Dies /\ harmed' \subseteq Jobs BY <1>1, <1>3, <1>12 DEF Dies
<1>13. CASE Crash BY <1>1, <1>12, <1>13 DEF Crash
<1>14. CASE CrashInMerge
  <2>1. alog \in Seq(ActionRec) BY DEF IInv, StateOK
  <2>2. \A i \in DOMAIN alog : alog[i] \in ActionRec BY <2>1
  <2>3. \A i \in DOMAIN alog : alog[i].id \in Jobs BY <2>2 DEF ActionRec
  <2> QED BY <1>1, <1>12, <1>14, <2>3 DEF CrashInMerge
<1>15. CASE CrashInSave BY <1>12, <1>15 DEF CrashInSave
<1>16. CASE ToolRename BY <1>3, <1>16 DEF ToolRename
<1>17. CASE Clock \/ UNCHANGED vars BY <1>1, <1>4, <1>17 DEF Clock, vars, pastVars
<1> QED BY <1>5, <1>6, <1>7, <1>9, <1>10, <1>11, <1>13, <1>14, <1>15, <1>16, <1>17 DEF Next

\* Every variable keeps its type, whatever the callers of the service do.
THEOREM CronTypeCorrect == Spec => []TypeOK
<1>1. Init => HistoryOK BY DEF Init, HistoryOK
<1>2. IInv /\ HistoryOK /\ [Next]_vars => HistoryOK' BY NextHistory
<1>3. IInv /\ HistoryOK => TypeOK BY DEF IInv, HistoryOK, TypeOK
<1> QED BY <1>1, <1>2, <1>3, CronInvariant, PTL DEF Spec

\* arm_timer and stop leave no timer task behind that the handle cannot abort.
THEOREM CronSingleTimer == Spec => []SingleTimer
<1>1. IInv => SingleTimer BY DEF IInv, TimerInv
<1> QED BY <1>1, CronInvariant, PTL

\* Between the first and the last critical section of on_timer the store cannot be
\* reloaded from jobs.json by a concurrent call.
THEOREM CronTickKeepsCache == Spec => []TickKeepsCache
<1>1. IInv => TickKeepsCache BY DEF IInv, TimerInv
<1> QED BY <1>1, CronInvariant, PTL

\* A running service always has a live timer task that wakes within max_sleep_ms,
\* through every abort, stop, run_job and crash.
THEOREM CronAlwaysArmed == Spec => []AlwaysArmed
<1>1. IInv => AlwaysArmed BY DEF IInv
<1> QED BY <1>1, CronInvariant, PTL

-----------------------------------------------------------------------------
(* The durable job list is a CronCatalog for every job that no accident    *)
(* has harmed.                                                             *)

Logged(l, k) == \E i \in DOMAIN l : l[i].id = k

\* x is what became of job k, recorded as y, without a call that names it.
Follows(k, x, y) == Class(x) = Class(y) \/ (k \in ran /\ x = Absent)

\* The store in memory is ahead of jobs.json by one-shots that have run, apart from
\* the jobs that the log speaks of.
CacheAgrees ==
    store # NoStore =>
        \A k \in Jobs \ harmed : Logged(alog, k) \/ Follows(k, store[k], disk[k])

\* The clones a tick still has to execute are jobs of the store.
DueAgrees ==
    \A t \in Tasks, k \in Jobs \ harmed : InTick(t) /\ due[t][k] # Absent =>
        Logged(alog, k) \/ Class(due[t][k]) = Class(store[k])

CatalogInv == disk # Corrupt /\ CacheAgrees /\ DueAgrees

\* The invariant: CatalogInv, until every job is harmed
UnharmedInv == Jobs \subseteq harmed \/ CatalogInv

LEMMA ReplayUnlogged ==
    ASSUME NEW d, NEW l, NEW k \in Jobs, ~Logged(l, k)
    PROVE  Replay(d, l)[k] = d[k]
BY DEF Logged, Replay

LEMMA ReplayLogged ==
    ASSUME NEW d, NEW e, NEW l, NEW k \in Jobs, Logged(l, k)
    PROVE  Replay(d, l)[k] = Replay(e, l)[k]
<1>1. {i \in DOMAIN l : l[i].id = k} # {} BY DEF Logged
<1> QED BY <1>1 DEF Replay

LEMMA NothingLogged == \A k : ~Logged(<<>>, k)
BY DEF Logged

LEMMA ReplayAppend ==
    ASSUME NEW d, NEW l \in Seq(ActionRec), NEW e \in ActionRec, NEW k \in Jobs
    PROVE  /\ Replay(d, Append(l, e))[k] = IF k = e.id THEN e.job ELSE Replay(d, l)[k]
           /\ Logged(Append(l, e), k) <=> Logged(l, k) \/ k = e.id
<1> DEFINE m == Append(l, e)
           here == {i \in DOMAIN m : m[i].id = k}
           mine == {i \in DOMAIN l : l[i].id = k}
<1>1. /\ Len(l) \in Nat /\ DOMAIN l = 1..Len(l) /\ DOMAIN m = 1..(Len(l) + 1)
      /\ m[Len(l) + 1] = e
  OBVIOUS
<1>2. \A i \in DOMAIN l : i \in DOMAIN m /\ m[i] = l[i] /\ i < Len(l) + 1 OBVIOUS
<1>3. \A i \in DOMAIN m : i \in DOMAIN l \/ i = Len(l) + 1 BY <1>1
<1>4. Len(l) + 1 \in DOMAIN m BY <1>1
<1> HIDE DEF m
<1>5. Logged(m, k) <=> Logged(l, k) \/ k = e.id
  BY <1>1, <1>2, <1>3, <1>4 DEF Logged
<1>6. CASE k = e.id
  <2>1. Len(l) + 1 \in here BY <1>1, <1>4, <1>6
  <2>2. \A i \in here : i <= Len(l) + 1 BY <1>1, <1>2, <1>3
  <2> DEFINE last == CHOOSE i \in here : \A j \in here : j <= i
  <2>3. last \in here /\ \A j \in here : j <= last BY <2>1, <2>2
  <2>4. last = Len(l) + 1
    <3>1. last \in 1..(Len(l) + 1) /\ Len(l) + 1 <= last BY <1>1, <2>1, <2>3
    <3> QED BY <1>1, <3>1
  <2>5. Replay(d, m)[k] = m[last].job BY <2>1 DEF Replay
  <2> QED BY <1>1, <1>5, <1>6, <2>4, <2>5 DEF m
<1>7. CASE k # e.id
  <2>1. here = mine BY <1>1, <1>2, <1>3, <1>7
  <2>2. CASE mine = {} BY <1>5, <1>7, <2>1, <2>2 DEF Replay, m
  <2>3. CASE mine # {}
    <3> DEFINE last == CHOOSE i \in mine : \A j \in mine : j <= i
    <3>1. mine \subseteq 1..Len(l) BY <1>1
    <3>2. \E i \in mine : \A j \in mine : j <= i BY <1>1, <2>3, <3>1, PositionMax
    <3>3. last \in DOMAIN l BY <3>2
    <3>4. Replay(d, l)[k] = l[last].job BY <2>3 DEF Replay
    <3>5. Replay(d, m)[k] = m[last].job BY <2>1, <2>3 DEF Replay
    <3> QED BY <1>2, <1>5, <1>7, <3>3, <3>4, <3>5 DEF m
  <2> QED BY <2>2, <2>3
<1> QED BY <1>6, <1>7

\* load_store never changes what the files stand for, and what it returns follows
\* what it leaves on disk.
LEMMA LoadKeeps ==
    ASSUME StateOK, CatalogInv, NEW r \in BOOLEAN
    PROVE  LET L == LoadStore(r) IN
           /\ L.s \in Catalogs /\ L.d \in Catalogs /\ L.l \in Seq(ActionRec)
           /\ \A k \in Jobs : Replay(L.d, L.l)[k] = Replay(disk, alog)[k]
           /\ \A k \in Jobs \ harmed : Logged(L.l, k) \/ Follows(k, L.s[k], L.d[k])
           /\ timerActive /\ store # NoStore => L.s = store /\ L.d = disk /\ L.l = alog
           /\ ~r => L.d = disk /\ L.l = alog
<1> DEFINE L == LoadStore(r)
<1>1. disk \in Catalogs /\ alog \in Seq(ActionRec) /\ disk # Corrupt
  BY DEF StateOK, CatalogInv
<1>2. Replay(disk, alog) \in Catalogs BY <1>1, ReplayType
<1>3. CASE timerActive /\ store # NoStore
  <2>1. L.s = store /\ L.d = disk /\ L.l = alog BY <1>3 DEF LoadStore
  <2> QED BY <1>1, <1>3, <2>1 DEF CatalogInv, CacheAgrees, StateOK
<1>4. CASE ~(timerActive /\ store # NoStore) /\ r /\ alog # <<>>
  <2>1. L.s = Replay(disk, alog) /\ L.d = Replay(disk, alog) /\ L.l = <<>>
    BY <1>1, <1>4 DEF LoadStore
  <2>2. \A k \in Jobs : Replay(L.d, L.l)[k] = L.d[k]
    BY <2>1, NothingLogged, ReplayUnlogged
  <2>3. <<>> \in Seq(ActionRec) OBVIOUS
  <2> QED BY <1>2, <1>4, <2>1, <2>2, <2>3 DEF Follows
<1>5. CASE ~(timerActive /\ store # NoStore) /\ ~(r /\ alog # <<>>)
  <2>1. L.s = Replay(disk, alog) /\ L.d = disk /\ L.l = alog
    BY <1>1, <1>5 DEF LoadStore
  <2>2. \A k \in Jobs : Logged(alog, k) \/ Replay(disk, alog)[k] = disk[k]
    BY ReplayUnlogged
  <2> QED BY <1>1, <1>2, <1>5, <2>1, <2>2 DEF Follows
<1> QED BY <1>3, <1>4, <1>5

-----------------------------------------------------------------------------
(* Steps of the catalog *)

\* What a step may do to a job it does not name.
Shrinks(k) ==
    \/ DurableClass'[k] = DurableClass[k]
    \/ k \in ran /\ DurableClass'[k] = "none"

\* A step keeps the catalog's promise to the jobs that no accident has harmed.
Promise ==
    \A k \in Jobs \ harmed' :
        \/ Shrinks(k)
        \/ /\ call'.n # call.n /\ call'.job = k
           /\ DurableClass'[k] = "none" => k \notin SysJobs

LEMMA DurableIs ==
    ASSUME disk # Corrupt, disk' # Corrupt, NEW k \in Jobs
    PROVE  /\ DurableClass[k] = Class(Replay(disk, alog)[k])
           /\ DurableClass'[k] = Class(Replay(disk', alog')[k])
<1>1. DurableClass[k] = Class(Replay(disk, alog)[k])
  BY DEF DurableClass, Durable
<1>2. DurableClass'[k] = Class(Replay(disk', alog')[k])
  <2>1. Durable' = Replay(disk', alog') BY DEF Durable, Replay
  <2> QED BY <2>1 DEF DurableClass, Class, IsOneShot
<1> QED BY <1>1, <1>2

\* A call that names j keeps the promise if the others only shrink.
LEMMA NamedStep ==
    ASSUME IInv, NEW j \in Jobs, Call(j), \A k \in Jobs \ (harmed' \cup {j}) : Shrinks(k),
           j \in harmed' \/ Shrinks(j) \/ (DurableClass'[j] = "none" => j \notin SysJobs)
    PROVE  Promise
<1>1. call'.n # call.n /\ call'.job = j BY DEF Call, IInv, StateOK
<1> QED BY <1>1 DEF Promise

LEMMA ClassExecuted ==
    ASSUME StateOK, NEW rec \in JobRec
    PROVE  Class(Executed(rec)) = Class(rec) /\ rec # Absent /\ Executed(rec) # Absent
<1>1. rec # Absent /\ Executed(rec) # Absent BY ExecutedType, CronAssumption
<1>2. Executed(rec).sched = rec.sched /\ Executed(rec).del = rec.del
  BY DEF Executed, JobRec
<1> QED BY <1>1, <1>2 DEF Class, IsOneShot

LEMMA ClassRecompute ==
    ASSUME StateOK, NEW s \in Catalogs, NEW k \in Jobs
    PROVE  Class(RecomputeNextRuns(s)[k]) = Class(s[k])
<1> DEFINE x == RecomputeNextRuns(s)[k]
<1>1. CASE s[k] # Absent /\ s[k].enabled
  <2>1. s[k] \in JobRec BY <1>1 DEF Catalogs, Slot
  <2>2. x = [s[k] EXCEPT !.next = ComputeNextRun(s[k].sched, now)]
    BY <1>1 DEF RecomputeNextRuns
  <2>3. ComputeNextRun(s[k].sched, now) \in Nat \cup {NoRun}
    BY <2>1, ComputeNextRunType DEF JobRec, StateOK
  <2> HIDE DEF x
  <2>4. x \in JobRec /\ x.sched = s[k].sched /\ x.del = s[k].del
    BY <2>1, <2>2, <2>3 DEF JobRec
  <2>5. x # Absent BY <2>4, CronAssumption
  <2> QED BY <1>1, <2>4, <2>5 DEF Class, IsOneShot, x
<1>2. CASE ~(s[k] # Absent /\ s[k].enabled)
  BY <1>2 DEF RecomputeNextRuns
<1> QED BY <1>1, <1>2

\* The files after a save, where job k is what became of x, when d and the log stand for
\* what the files stood for
LEMMA SaveStep ==
    ASSUME disk # Corrupt, disk' \in Catalogs, NEW k \in Jobs, NEW x, NEW d,
           Replay(d, alog')[k] = Replay(disk, alog)[k],
           Logged(alog', k) \/ Follows(k, x, d[k])
    PROVE  /\ Class(disk'[k]) = Class(x) => Shrinks(k)
           /\ Shrinks(k) \/ DurableClass'[k] = Class(disk'[k])
<1>1. disk' # Corrupt BY CronAssumption
<1>2. /\ DurableClass[k] = Class(Replay(disk, alog)[k])
      /\ DurableClass'[k] = Class(Replay(disk', alog')[k])
  BY <1>1, DurableIs
<1>3. CASE Logged(alog', k)
  <2>1. Replay(disk', alog')[k] = Replay(d, alog')[k] BY <1>3, ReplayLogged
  <2> QED BY <1>2, <2>1 DEF Shrinks
<1>4. CASE ~Logged(alog', k)
  <2>1. Replay(disk', alog')[k] = disk'[k] /\ Replay(d, alog')[k] = d[k]
    BY <1>4, ReplayUnlogged
  <2>2. DurableClass[k] = Class(d[k]) /\ DurableClass'[k] = Class(disk'[k])
    BY <1>2, <2>1
  <2>3. ASSUME Class(disk'[k]) = Class(x) PROVE Shrinks(k)
    <3>1. DurableClass'[k] = Class(x) /\ Follows(k, x, d[k]) BY <1>4, <2>2, <2>3
    <3> QED BY <2>2, <3>1 DEF Shrinks, Follows, Class
  <2> QED BY <2>2, <2>3
<1> QED BY <1>3, <1>4

\* A save of the loaded store, and one of the store in memory
LEMMA LoadedSteps ==
    ASSUME StateOK, CatalogInv, NEW r \in BOOLEAN, NEW X, disk' \in Catalogs,
           harmed' = harmed, alog' = LoadStore(r).l,
           \A k \in Jobs \ X : Class(disk'[k]) = Class(LoadStore(r).s[k])
    PROVE  /\ \A k \in Jobs \ (harmed' \cup X) : Shrinks(k)
           /\ \A k \in Jobs \ harmed' : Shrinks(k) \/ DurableClass'[k] = Class(disk'[k])
<1> DEFINE L == LoadStore(r)
<1>1. disk # Corrupt BY DEF CatalogInv
<1>2. ASSUME NEW k \in Jobs \ harmed
      PROVE  (k \notin X => Shrinks(k)) /\ (Shrinks(k) \/ DurableClass'[k] = Class(disk'[k]))
  <2> DEFINE x == L.s[k]
             d == L.d
  <2>1. /\ Replay(d, alog')[k] = Replay(disk, alog)[k]
        /\ Logged(alog', k) \/ Follows(k, x, d[k])
    BY LoadKeeps
  <2>2. k \notin X => Class(disk'[k]) = Class(x) OBVIOUS
  <2> HIDE DEF x, d
  <2>3. /\ Class(disk'[k]) = Class(x) => Shrinks(k)
        /\ Shrinks(k) \/ DurableClass'[k] = Class(disk'[k])
    BY <1>1, <2>1, SaveStep
  <2> QED BY <2>2, <2>3
<1> QED BY <1>2

LEMMA MemorySteps ==
    ASSUME StateOK, CatalogInv, store # NoStore, disk' \in Catalogs,
           harmed \subseteq harmed', alog' = alog,
           \A k \in Jobs \ harmed' : Class(disk'[k]) = Class(store[k])
    PROVE  Promise
<1>1. disk # Corrupt BY DEF CatalogInv
<1>2. ASSUME NEW k \in Jobs \ harmed' PROVE Shrinks(k)
  <2> DEFINE x == store[k]
  <2>1. Replay(disk, alog')[k] = Replay(disk, alog)[k] OBVIOUS
  <2>2. Logged(alog', k) \/ Follows(k, x, disk[k]) BY DEF CatalogInv, CacheAgrees
  <2>3. Class(disk'[k]) = Class(x) OBVIOUS
  <2> HIDE DEF x
  <2> QED BY <1>1, <2>1, <2>2, <2>3, SaveStep
<1> QED BY <1>2 DEF Promise

LEMMA LoadSteps ==
    ASSUME StateOK, CatalogInv, NEW r \in BOOLEAN,
           disk' = LoadStore(r).d, alog' = LoadStore(r).l
    PROVE  disk' # Corrupt /\ Promise
<1>1. /\ disk' \in Catalogs
      /\ \A k \in Jobs : Replay(disk', alog')[k] = Replay(disk, alog)[k]
  BY LoadKeeps
<1>2. disk # Corrupt /\ disk' # Corrupt BY <1>1, CronAssumption DEF CatalogInv
<1>3. \A k \in Jobs : DurableClass'[k] = DurableClass[k] BY <1>1, <1>2, DurableIs
<1> QED BY <1>2, <1>3 DEF Promise, Shrinks

LEMMA StillSteps ==
    ASSUME UNCHANGED fileVars
    PROVE  DurableClass' = DurableClass /\ Promise
<1>1. DurableClass' = DurableClass
  BY DEF fileVars, DurableClass, Durable, Replay, IsOneShot, Class
<1> QED BY <1>1 DEF Promise, Shrinks

LEMMA AppendSteps ==
    ASSUME StateOK, CatalogInv, NEW j \in Jobs, NEW x \in Slot,
           disk' = disk, alog' = Append(alog, [id |-> j, job |-> x])
    PROVE  /\ \A k \in Jobs \ {j} : Shrinks(k)
           /\ DurableClass'[j] = Class(x)
           /\ \A k \in Jobs : Logged(alog', k) <=> Logged(alog, k) \/ k = j
<1> DEFINE e == [id |-> j, job |-> x]
<1>1. e \in ActionRec /\ e.id = j /\ e.job = x BY DEF ActionRec
<1>2. disk # Corrupt /\ disk' # Corrupt BY DEF CatalogInv
<1>3. alog \in Seq(ActionRec) /\ alog' = Append(alog, e) BY DEF StateOK
<1> HIDE DEF e
<1>4. ASSUME NEW k \in Jobs
      PROVE  /\ Replay(disk', alog')[k] = IF k = j THEN x ELSE Replay(disk, alog)[k]
             /\ Logged(alog', k) <=> Logged(alog, k) \/ k = j
  <2>1. /\ Replay(disk, Append(alog, e))[k] = IF k = e.id THEN e.job ELSE Replay(disk, alog)[k]
        /\ Logged(Append(alog, e), k) <=> Logged(alog, k) \/ k = e.id
    <3>1. e \in ActionRec BY <1>1
    <3>2. alog \in Seq(ActionRec) BY <1>3
    <3> QED BY <3>1, <3>2, ReplayAppend
  <2> QED BY <1>1, <1>3, <2>1
<1>5. \A k \in Jobs : /\ DurableClass[k] = Class(Replay(disk, alog)[k])
                      /\ DurableClass'[k] = Class(Replay(disk', alog')[k])
  BY <1>2, DurableIs
<1> QED BY <1>4, <1>5 DEF Shrinks

-----------------------------------------------------------------------------
(* CatalogInv along the steps *)

\* Nothing is in a tick after arm_timer or while the service does not run.
NoTick == \A t \in Tasks : st[t] \notin {"enter", "tick", "exec"}

LEMMA ArmNoTick ==
    ASSUME StateOK, SingleTimer, NEW r \in BOOLEAN, NEW s, ArmTimer(r, s)
    PROVE  NoTick'
<1>1. CASE r
  <2>1. PICK t \in Tasks :
          st' = [u \in Tasks |-> IF u = t THEN "sleep" ELSE IF u = handle THEN "dead" ELSE st[u]]
    BY <1>1 DEF ArmTimer
  <2> QED BY <2>1 DEF NoTick, SingleTimer, Live, StateOK
<1>2. CASE ~r
  <2>1. st' = [u \in Tasks |-> IF u = handle THEN "dead" ELSE st[u]] BY <1>2 DEF ArmTimer
  <2> QED BY <2>1 DEF NoTick, SingleTimer, Live, StateOK
<1> QED BY <1>1, <1>2

LEMMA SavedInv ==
    ASSUME NoTick', disk' # Corrupt, store' # NoStore => disk' = store'
    PROVE  CatalogInv'
<1>1. CacheAgrees' BY DEF CacheAgrees, Follows
<1> QED BY <1>1 DEF CatalogInv, DueAgrees, NoTick, InTick

\* A step that leaves files, store and due lists alone
LEMMA StillInv ==
    ASSUME CatalogInv, UNCHANGED <<disk, alog, store, due, harmed>>,
           \A k \in Jobs : k \in ran => k \in ran',
           \A t \in Tasks : InTick(t)' => InTick(t)
    PROVE  CatalogInv'
<1>1. CacheAgrees' BY DEF CatalogInv, CacheAgrees, Follows
<1>2. DueAgrees' BY DEF CatalogInv, DueAgrees
<1> QED BY <1>1, <1>2 DEF CatalogInv

\* Whether a job has run is asked anew only for the job a call names.
LEMMA CallRan ==
    ASSUME NEW j, Call(j), NEW k, k # j
    PROVE  k \in ran <=> k \in ran'
BY DEF Call

LEMMA NoJobRan ==
    ASSUME Call(NoJob)
    PROVE  \A k \in Jobs : k \in ran <=> k \in ran'
BY CronAssumption DEF Call

-----------------------------------------------------------------------------
(* Each step keeps CatalogInv and the promise *)

LEMMA StartCatalog ==
    ASSUME IInv, CatalogInv, Start
    PROVE  CatalogInv' /\ Promise
<1> DEFINE L == LoadStore(TRUE)
<1>1. StateOK /\ SingleTimer BY DEF IInv, TimerInv
<1>2. L.s \in Catalogs /\ L.s # NoStore BY <1>1, LoadKeeps, CronAssumption
<1>3. /\ alog' = L.l /\ store' = RecomputeNextRuns(L.s) /\ disk' = store'
      /\ ArmTimer(TRUE, store') /\ harmed' = harmed
  BY <1>2 DEF Start
<1> HIDE DEF L
<1>4. disk' \in Catalogs /\ disk' # Corrupt
  BY <1>1, <1>2, <1>3, RecomputeType, CronAssumption
<1>5. \A k \in Jobs \ {} : Class(disk'[k]) = Class(L.s[k])
  BY <1>1, <1>2, <1>3, ClassRecompute
<1>6. \A k \in Jobs \ (harmed' \cup {}) : Shrinks(k)
  BY <1>1, <1>3, <1>4, <1>5, LoadedSteps DEF L
<1>7. Promise BY <1>6 DEF Promise
<1>8. NoTick' BY <1>1, <1>3, ArmNoTick
<1> QED BY <1>3, <1>4, <1>7, <1>8, SavedInv

LEMMA StopCatalog ==
    ASSUME IInv, CatalogInv, Stop
    PROVE  CatalogInv' /\ Promise
<1>1. StateOK /\ SingleTimer BY DEF IInv, TimerInv
<1>2. /\ UNCHANGED <<disk, alog, store, harmed>> /\ Call(NoJob)
      /\ st' = [u \in Tasks |-> IF u = handle THEN "dead" ELSE st[u]]
  BY DEF Stop
<1>3. NoTick' BY <1>1, <1>2 DEF NoTick, SingleTimer, Live, StateOK
<1>4. CacheAgrees' BY <1>2, NoJobRan DEF CatalogInv, CacheAgrees, Follows
<1>5. CatalogInv' BY <1>2, <1>3, <1>4 DEF CatalogInv, DueAgrees, NoTick, InTick
<1> QED BY <1>2, <1>5, StillSteps DEF fileVars

\* A load_store that leaves the due lists as they are
LEMMA LoadedInv ==
    ASSUME IInv, CatalogInv, NEW r \in BOOLEAN,
           store' = LoadStore(r).s, disk' = LoadStore(r).d, alog' = LoadStore(r).l,
           \A k \in Jobs : k \in ran /\ store'[k] = Absent => k \in ran',
           UNCHANGED <<st, due, harmed>>
    PROVE  CatalogInv'
<1> DEFINE L == LoadStore(r)
<1>1. StateOK /\ TickKeepsCache BY DEF IInv, TimerInv
<1>2. /\ L.s \in Catalogs /\ L.d \in Catalogs
      /\ \A k \in Jobs \ harmed : Logged(L.l, k) \/ Follows(k, L.s[k], L.d[k])
      /\ timerActive /\ store # NoStore => L.s = store /\ L.d = disk /\ L.l = alog
  BY <1>1, LoadKeeps
<1>3. store' = L.s /\ disk' = L.d /\ alog' = L.l OBVIOUS
<1> HIDE DEF L
<1>4. disk' # Corrupt BY <1>2, <1>3, CronAssumption
<1>5. CacheAgrees' BY <1>2, <1>3 DEF CacheAgrees, Follows
<1>6. DueAgrees'
  <2> SUFFICES ASSUME NEW t \in Tasks, NEW k \in Jobs \ harmed, InTick(t), due[t][k] # Absent
               PROVE  Logged(alog', k) \/ Class(due[t][k]) = Class(store'[k])
    BY DEF DueAgrees, InTick
  <2>1. due[t] # NoDue BY DEF NoDue
  <2>2. timerActive /\ store # NoStore BY <1>1, <2>1 DEF TickKeepsCache
  <2> QED BY <1>2, <1>3, <2>2 DEF CatalogInv, DueAgrees
<1> QED BY <1>4, <1>5, <1>6 DEF CatalogInv

LEMMA QueryCatalog ==
    ASSUME IInv, CatalogInv, Query
    PROVE  CatalogInv' /\ Promise
<1>1. StateOK /\ running \in BOOLEAN BY DEF IInv, StateOK
<1>2. /\ store' = LoadStore(running).s /\ disk' = LoadStore(running).d
      /\ alog' = LoadStore(running).l /\ Call(NoJob)
      /\ UNCHANGED <<st, due, harmed>>
  BY DEF Query, timerVars
<1>3. CatalogInv' BY <1>1, <1>2, NoJobRan, LoadedInv
<1>4. Promise BY <1>1, <1>2, LoadSteps
<1> QED BY <1>3, <1>4

\* A call that names j, saves the loaded store with j changed and arms the timer
LEMMA SavingCall ==
    ASSUME IInv, CatalogInv, NEW r \in BOOLEAN, NEW j \in Jobs, NEW x \in Slot,
           x = Absent => j \notin SysJobs,
           store' = [LoadStore(r).s EXCEPT ![j] = x], disk' = store',
           alog' = LoadStore(r).l, NEW q \in BOOLEAN, ArmTimer(q, store'), Call(j),
           harmed' = harmed
    PROVE  CatalogInv' /\ Promise
<1> DEFINE L == LoadStore(r)
<1>1. StateOK /\ SingleTimer BY DEF IInv, TimerInv
<1>2. L.s \in Catalogs BY <1>1, LoadKeeps
<1>3. store' = [L.s EXCEPT ![j] = x] /\ disk' = store' /\ alog' = L.l OBVIOUS
<1> HIDE DEF L
<1>5. disk' \in Catalogs /\ disk' # Corrupt BY <1>2, <1>3, PutType, CronAssumption
<1>6. disk'[j] = x /\ \A k \in Jobs \ {j} : disk'[k] = L.s[k] BY <1>2, <1>3 DEF Catalogs
<1>7. \A k \in Jobs \ {j} : Class(disk'[k]) = Class(L.s[k]) BY <1>6
<1>8. /\ \A k \in Jobs \ (harmed' \cup {j}) : Shrinks(k)
      /\ j \in harmed' \/ Shrinks(j) \/ DurableClass'[j] = Class(x)
  BY <1>1, <1>3, <1>5, <1>6, <1>7, LoadedSteps DEF L
<1>9. Class(x) = "none" => j \notin SysJobs BY DEF Class
<1>10. Promise BY <1>8, <1>9, NamedStep
<1>11. NoTick' BY <1>1, ArmNoTick
<1> QED BY <1>3, <1>5, <1>10, <1>11, SavedInv

\* A call that names j and logs it: the stopped service, or the tool's
LEMMA LoggingCall ==
    ASSUME IInv, CatalogInv, NEW j \in Jobs, NEW x \in Slot,
           x = Absent => j \notin SysJobs,
           disk' = disk, alog' = Append(alog, [id |-> j, job |-> x]),
           UNCHANGED <<st, due, harmed>>,
           \/ store' = store
           \/ \E s \in Slot : store' = [LoadStore(FALSE).s EXCEPT ![j] = s],
           Call(j)
    PROVE  CatalogInv' /\ Promise
<1>1. StateOK /\ TickKeepsCache BY DEF IInv, TimerInv
<1>2. /\ \A k \in Jobs \ {j} : Shrinks(k)
      /\ DurableClass'[j] = Class(x)
      /\ \A k \in Jobs : Logged(alog', k) <=> Logged(alog, k) \/ k = j
  BY <1>1, AppendSteps
<1>3. \A k : k # j => (k \in ran <=> k \in ran') BY CallRan
<1>4. Class(x) = "none" => j \notin SysJobs BY DEF Class
<1>5. Promise BY <1>2, <1>4, NamedStep
<1>6. disk' # Corrupt BY DEF CatalogInv
<1> DEFINE L == LoadStore(FALSE)
<1>7. /\ L.s \in Catalogs /\ L.d = disk /\ L.l = alog
      /\ \A k \in Jobs \ harmed : Logged(alog, k) \/ Follows(k, L.s[k], disk[k])
      /\ timerActive /\ store # NoStore => L.s = store
  BY <1>1, LoadKeeps
<1> HIDE DEF L
<1>8. store' = store \/ \A k \in Jobs \ {j} : store'[k] = L.s[k]
  <2>1. store' = store \/ \E s \in Slot : store' = [L.s EXCEPT ![j] = s] BY DEF L
  <2> QED BY <1>7, <2>1 DEF Catalogs
<1>9. CacheAgrees'
  <2> SUFFICES ASSUME store' # NoStore, NEW k \in Jobs \ harmed, k # j, ~Logged(alog, k)
               PROVE  Class(store'[k]) = Class(disk[k]) \/ (k \in ran' /\ store'[k] = Absent)
    BY <1>2 DEF CacheAgrees, Follows
  <2> QED BY <1>3, <1>7, <1>8 DEF CatalogInv, CacheAgrees, Follows
<1>10. DueAgrees'
  <2> SUFFICES ASSUME NEW t \in Tasks, NEW k \in Jobs \ harmed, InTick(t), due[t][k] # Absent,
                      k # j, ~Logged(alog, k)
               PROVE  Class(due[t][k]) = Class(store'[k])
    BY <1>2 DEF DueAgrees, InTick
  <2>1. due[t] # NoDue BY DEF NoDue
  <2>2. timerActive /\ store # NoStore BY <1>1, <2>1 DEF TickKeepsCache
  <2> QED BY <1>7, <1>8, <2>2 DEF CatalogInv, DueAgrees
<1> QED BY <1>5, <1>6, <1>9, <1>10 DEF CatalogInv

LEMMA AddJobCatalog ==
    ASSUME IInv, CatalogInv, NEW j \in Jobs, NEW s \in Schedules, NEW d \in BOOLEAN,
           AddJob(j, s, d)
    PROVE  CatalogInv' /\ Promise
<1> DEFINE L == LoadStore(TRUE)
<1>1. StateOK /\ Call(j) /\ running \in BOOLEAN BY DEF IInv, StateOK, AddJob
<1>2. L.s \in Catalogs /\ L.s # NoStore BY <1>1, LoadKeeps, CronAssumption
<1>3. NewJob(s, d) \in Slot /\ NewJob(s, d) # Absent
  BY <1>1, NewJobType, CronAssumption DEF Slot
<1>4. CASE running
  <2>1. /\ store' = [L.s EXCEPT ![j] = NewJob(s, d)]
        /\ disk' = SaveStore(store', L.d) /\ alog' = L.l /\ ArmTimer(TRUE, store')
        /\ harmed' = harmed
    BY <1>2, <1>4 DEF AddJob
  <2>2. store' \in Catalogs
    <3> HIDE DEF L
    <3> QED BY <1>2, <1>3, <2>1, PutType
  <2>3. disk' = store' BY <2>1, <2>2, CronAssumption DEF SaveStore
  <2> QED BY <1>1, <1>3, <2>1, <2>3, SavingCall
<1>5. CASE ~running
  <2>1. /\ alog' = Append(alog, [id |-> j, job |-> NewJob(s, d)])
        /\ UNCHANGED <<disk, store, st, due, harmed>>
    BY <1>5 DEF AddJob, KeepTimer, timerVars
  <2> QED BY <1>1, <1>3, <2>1, LoggingCall
<1> QED BY <1>4, <1>5

LEMMA RegisterCatalog ==
    ASSUME IInv, CatalogInv, NEW j \in Jobs, NEW s \in Schedules, RegisterSystemJob(j, s)
    PROVE  CatalogInv' /\ Promise
<1> DEFINE L == LoadStore(running)
<1>1. StateOK /\ Call(j) /\ running \in BOOLEAN BY DEF IInv, StateOK, RegisterSystemJob
<1>2. L.s \in Catalogs /\ L.s # NoStore BY <1>1, LoadKeeps, CronAssumption
<1>3. NewJob(s, FALSE) \in Slot /\ NewJob(s, FALSE) # Absent
  BY <1>1, NewJobType, CronAssumption DEF Slot
<1>4. /\ store' = [L.s EXCEPT ![j] = NewJob(s, FALSE)]
      /\ disk' = SaveStore(store', L.d) /\ alog' = L.l /\ ArmTimer(running, store')
      /\ harmed' = harmed
  BY <1>2 DEF RegisterSystemJob
<1>5. store' \in Catalogs
  <2> HIDE DEF L
  <2> QED BY <1>2, <1>3, <1>4, PutType
<1>6. disk' = store' BY <1>4, <1>5, CronAssumption DEF SaveStore
<1> QED BY <1>1, <1>3, <1>4, <1>6, SavingCall

LEMMA CommitCatalog ==
    ASSUME IInv, CatalogInv, NEW j \in Jobs, NEW s \in Catalogs,
           \A k \in Jobs \ {j} : s[k] = LoadStore(running).s[k],
           s[j] = Absent => j \notin SysJobs,
           Commit(LoadStore(running), s, j), Call(j)
    PROVE  CatalogInv' /\ Promise
<1> DEFINE L == LoadStore(running)
<1>1. StateOK /\ running \in BOOLEAN BY DEF IInv, StateOK
<1>2. L.s \in Catalogs BY <1>1, LoadKeeps
<1>3. s[j] \in Slot BY DEF Catalogs
<1>4. s = [L.s EXCEPT ![j] = s[j]]
  <2>1. \A k \in Jobs \ {j} : s[k] = L.s[k] OBVIOUS
  <2> HIDE DEF L
  <2> QED BY <1>2, <2>1 DEF Catalogs
<1>5. store' = s BY DEF Commit
<1>6. CASE running
  <2>1. disk' = s /\ alog' = L.l /\ ArmTimer(TRUE, s) /\ harmed' = harmed
    BY <1>6 DEF Commit
  <2>2. store' = [L.s EXCEPT ![j] = s[j]] /\ disk' = store' /\ ArmTimer(TRUE, store')
    BY <1>4, <1>5, <2>1
  <2> QED BY <1>1, <1>3, <2>1, <2>2, SavingCall
<1>7. CASE ~running
  <2>1. /\ disk' = L.d /\ alog' = Append(L.l, [id |-> j, job |-> s[j]])
        /\ UNCHANGED <<st, due, harmed>>
    BY <1>7 DEF Commit, KeepTimer, timerVars
  <2>2. running = FALSE BY <1>1, <1>7
  <2>3. L.d = disk /\ L.l = alog BY <1>1, <2>2, LoadKeeps
  <2>4. disk' = disk /\ alog' = Append(alog, [id |-> j, job |-> s[j]]) BY <2>1, <2>3
  <2>5. \E y \in Slot : store' = [LoadStore(FALSE).s EXCEPT ![j] = y]
    BY <1>3, <1>4, <1>5, <2>2
  <2> QED BY <1>3, <2>1, <2>4, <2>5, LoggingCall
<1> QED BY <1>6, <1>7

LEMMA RemoveCatalog ==
    ASSUME IInv, CatalogInv, NEW j \in Jobs, RemoveJob(j)
    PROVE  CatalogInv' /\ Promise
<1> DEFINE L == LoadStore(running)
           s == [L.s EXCEPT ![j] = Absent]
<1>1. StateOK /\ running \in BOOLEAN BY DEF IInv, StateOK
<1>2. L.s \in Catalogs BY <1>1, LoadKeeps
<1>3. s \in Catalogs BY <1>2, PutType DEF Slot
<1>4. \A k \in Jobs \ {j} : s[k] = L.s[k] BY <1>2 DEF Catalogs
<1>5. j \notin SysJobs /\ Commit(L, s, j) /\ Call(j) BY DEF RemoveJob
<1> HIDE DEF s
<1> QED BY <1>3, <1>4, <1>5, CommitCatalog

LEMMA EnableCatalog ==
    ASSUME IInv, CatalogInv, NEW j \in Jobs, NEW e \in BOOLEAN, EnableJob(j, e)
    PROVE  CatalogInv' /\ Promise
<1> DEFINE L == LoadStore(running)
           next == IF e THEN ComputeNextRun(L.s[j].sched, now) ELSE NoRun
           s == [L.s EXCEPT ![j].enabled = e, ![j].next = next]
<1>1. StateOK /\ running \in BOOLEAN /\ now \in Nat BY DEF IInv, StateOK
<1>2. L.s \in Catalogs /\ L.s[j] # Absent BY <1>1, LoadKeeps DEF EnableJob
<1>3. L.s[j].sched \in Schedules /\ L.s[j] \in JobRec BY <1>2, EditType DEF JobRec
<1>4. next \in Nat \cup {NoRun} BY <1>1, <1>3, ComputeNextRunType
<1>5. s \in Catalogs BY <1>2, <1>4, EditType
<1>6. Commit(L, s, j) /\ Call(j) BY DEF EnableJob
<1> HIDE DEF L, next
<1>7. \A k \in Jobs \ {j} : s[k] = L.s[k] BY <1>2 DEF Catalogs
<1>8. s[j] # Absent
  <2>1. s[j] \in JobRec BY <1>2, <1>3, <1>4 DEF JobRec, Catalogs
  <2> QED BY <2>1, CronAssumption
<1> HIDE DEF s
<1> QED BY <1>5, <1>6, <1>7, <1>8, CommitCatalog DEF L

LEMMA UpdateCatalog ==
    ASSUME IInv, CatalogInv, NEW j \in Jobs, NEW c \in Schedules, NEW d \in BOOLEAN,
           UpdateJob(j, c, d)
    PROVE  CatalogInv' /\ Promise
<1> DEFINE L == LoadStore(running)
           next == IF L.s[j].enabled THEN ComputeNextRun(c, now) ELSE L.s[j].next
           s == [L.s EXCEPT ![j].sched = c, ![j].del = d, ![j].next = next]
<1>1. StateOK /\ running \in BOOLEAN /\ now \in Nat BY DEF IInv, StateOK
<1>2. L.s \in Catalogs /\ L.s[j] # Absent BY <1>1, LoadKeeps DEF UpdateJob
<1>3. L.s[j].next \in Nat \cup {NoRun} /\ L.s[j] \in JobRec BY <1>2, EditType DEF JobRec
<1>4. next \in Nat \cup {NoRun} BY <1>1, <1>3, ComputeNextRunType
<1>5. s \in Catalogs BY <1>2, <1>4, EditType
<1>6. Commit(L, s, j) /\ Call(j) /\ j \notin SysJobs BY DEF UpdateJob
<1> HIDE DEF L, next
<1>7. \A k \in Jobs \ {j} : s[k] = L.s[k] BY <1>2 DEF Catalogs
<1> HIDE DEF s
<1> QED BY <1>5, <1>6, <1>7, CommitCatalog DEF L

LEMMA ToolCatalog ==
    ASSUME IInv, CatalogInv, NEW j \in Jobs,
           ToolRemove(j) \/ \E s \in Schedules, d \in BOOLEAN : ToolAdd(j, s, d)
    PROVE  CatalogInv' /\ Promise
<1>1. StateOK BY DEF IInv
<1>2. CASE ToolRemove(j)
  <2>1. /\ alog' = Append(alog, [id |-> j, job |-> Absent]) /\ j \notin SysJobs /\ Call(j)
        /\ UNCHANGED <<disk, store, st, due, harmed>>
    BY <1>2 DEF ToolRemove, timerVars
  <2>2. Absent \in Slot BY DEF Slot
  <2> QED BY <2>1, <2>2, LoggingCall
<1>3. CASE \E s \in Schedules, d \in BOOLEAN : ToolAdd(j, s, d)
  <2>1. PICK s \in Schedules, d \in BOOLEAN : ToolAdd(j, s, d) BY <1>3
  <2>2. NewJob(s, d) \in Slot /\ NewJob(s, d) # Absent
    BY <1>1, NewJobType, CronAssumption DEF Slot
  <2>3. /\ alog' = Append(alog, [id |-> j, job |-> NewJob(s, d)]) /\ Call(j)
        /\ UNCHANGED <<disk, store, st, due, harmed>>
    BY <2>1 DEF ToolAdd, timerVars
  <2> QED BY <2>2, <2>3, LoggingCall
<1> QED BY <1>2, <1>3

LEMMA RunJobBeginCatalog ==
    ASSUME IInv, CatalogInv, NEW r \in Runners, NEW j \in Jobs, NEW force \in BOOLEAN,
           RunJobBegin(r, j, force)
    PROVE  CatalogInv' /\ Promise
<1> DEFINE L == LoadStore(TRUE)
           go == L.s # NoStore /\ L.s[j] # Absent /\ (force \/ L.s[j].enabled)
<1>1. StateOK BY DEF IInv
<1>2. /\ store' = L.s /\ disk' = L.d /\ alog' = L.l
      /\ Call(IF go THEN j ELSE NoJob) /\ UNCHANGED <<st, due, harmed>>
  BY DEF RunJobBegin, timerVars
<1>3. \A k \in Jobs : k \in ran /\ store'[k] = Absent => k \in ran'
  <2>1. CASE go
    <3>1. Call(j) /\ store'[j] # Absent BY <1>2, <2>1
    <3> QED BY <3>1, CallRan
  <2>2. CASE ~go
    <3>1. Call(NoJob) BY <1>2, <2>2
    <3> QED BY <3>1, NoJobRan
  <2> QED BY <2>1, <2>2
<1> HIDE DEF go
<1>4. CatalogInv' BY <1>2, <1>3, LoadedInv
<1>5. Promise BY <1>1, <1>2, LoadSteps
<1> QED BY <1>4, <1>5

\* A run_job that puts back a clone of another class than the job's harms the job;
\* any other leaves the classes of the store as they were and saves them.
LEMMA RunJobEndCatalog ==
    ASSUME IInv, CatalogInv, NEW r \in Runners, RunJobEnd(r)
    PROVE  CatalogInv' /\ Promise
<1> DEFINE j == rj[r].id
           c == rj[r].rec
<1>1. StateOK /\ SingleTimer /\ TickKeepsCache BY DEF IInv, TimerInv
<1>2. j \in Jobs /\ c \in JobRec /\ rj[r].was \in BOOLEAN BY <1>1 DEF RunJobEnd, StateOK
<1>3. /\ store' = IF store # NoStore /\ store[j] # Absent
                  THEN [store EXCEPT ![j] = Executed(c)] ELSE store
      /\ harmed' = IF store # NoStore /\ store[j] # Absent /\ Class(c) # Class(store[j])
                   THEN harmed \cup {j} ELSE harmed
      /\ disk' = SaveStore(store', disk) /\ UNCHANGED <<alog, ran>>
      /\ IF rj[r].was THEN ArmTimer(TRUE, store') ELSE KeepTimer
  BY DEF RunJobEnd
<1>4. Class(Executed(c)) = Class(c) /\ Executed(c) \in JobRec
  BY <1>1, <1>2, ClassExecuted, ExecutedType
<1>5. store \in Catalogs \cup {NoStore} BY <1>1 DEF StateOK
<1> HIDE DEF j, c
<1>6. CASE store = NoStore
  <2>1. UNCHANGED <<disk, alog, store, harmed, ran>> BY <1>3, <1>6 DEF SaveStore
  <2>2. Promise BY <2>1, StillSteps DEF fileVars
  <2>3. \A t \in Tasks : ~(InTick(t) /\ due[t] # NoDue) BY <1>1, <1>6 DEF TickKeepsCache
  <2>4. DueAgrees'
    <3>1. CASE rj[r].was
      <4>1. NoTick' BY <1>1, <1>3, <3>1, ArmNoTick
      <4> QED BY <4>1 DEF DueAgrees, NoTick, InTick
    <3>2. CASE ~rj[r].was
      <4>1. UNCHANGED <<st, due>> BY <1>3, <3>2 DEF KeepTimer, timerVars
      <4>2. \A t \in Tasks, k \in Jobs : due[t][k] # Absent => due[t] # NoDue BY DEF NoDue
      <4> QED BY <2>3, <4>1, <4>2 DEF DueAgrees, InTick
    <3> QED BY <3>1, <3>2
  <2>5. CacheAgrees' BY <1>6, <2>1 DEF CacheAgrees
  <2> QED BY <2>1, <2>2, <2>4, <2>5 DEF CatalogInv
<1>7. CASE store # NoStore
  <2>1. store \in Catalogs BY <1>5, <1>7
  <2>2. store' \in Catalogs BY <1>2, <1>3, <1>4, <2>1 DEF Catalogs, Slot
  <2>3. store' # NoStore /\ disk' = store' /\ disk' # Corrupt
    BY <1>3, <2>2, CronAssumption DEF SaveStore
  <2>4. harmed \subseteq harmed' BY <1>3
  <2>5. \A k \in Jobs \ harmed' : Class(store'[k]) = Class(store[k])
    <3> SUFFICES ASSUME NEW k \in Jobs, k \notin harmed'
                 PROVE  Class(store'[k]) = Class(store[k])
      OBVIOUS
    <3>1. CASE k = j /\ store[j] # Absent
      <4>1. store'[k] = Executed(c) BY <1>3, <1>7, <2>1, <3>1 DEF Catalogs
      <4>2. Class(c) = Class(store[j]) BY <1>3, <1>7, <3>1
      <4> QED BY <1>4, <3>1, <4>1, <4>2
    <3>2. CASE ~(k = j /\ store[j] # Absent)
      <4>1. store'[k] = store[k] BY <1>2, <1>3, <2>1, <3>2 DEF Catalogs
      <4> QED BY <4>1
    <3> QED BY <3>1, <3>2
  <2>6. Promise BY <1>1, <1>3, <1>7, <2>2, <2>3, <2>4, <2>5, MemorySteps
  <2>7. CacheAgrees' BY <2>3 DEF CacheAgrees, Follows
  <2>8. DueAgrees'
    <3>1. CASE rj[r].was
      <4>1. NoTick' BY <1>1, <1>3, <3>1, ArmNoTick
      <4> QED BY <4>1 DEF DueAgrees, NoTick, InTick
    <3>2. CASE ~rj[r].was
      <4>1. UNCHANGED <<st, due>> BY <1>3, <3>2 DEF KeepTimer, timerVars
      <4> QED BY <1>3, <2>4, <2>5, <4>1 DEF CatalogInv, DueAgrees, InTick
    <3> QED BY <3>1, <3>2
  <2> QED BY <2>3, <2>6, <2>7, <2>8 DEF CatalogInv
<1> QED BY <1>6, <1>7

\* Every crash loses the memory; one in the middle of a merge also the logged jobs.
LEMMA CrashCatalog ==
    ASSUME IInv, CatalogInv, Crash \/ CrashInMerge
    PROVE  CatalogInv' /\ Promise
<1>1. /\ st' = [t \in Tasks |-> "dead"] /\ store' = NoStore /\ disk' = disk
  BY DEF Crash, CrashInMerge, Dies, fileVars
<1>2. NoTick' BY <1>1 DEF NoTick
<1>3. disk' # Corrupt /\ disk # Corrupt BY <1>1 DEF CatalogInv
<1>4. CatalogInv' BY <1>1, <1>2, <1>3, SavedInv
<1>5. CASE Crash BY <1>4, <1>5, StillSteps DEF Crash
<1>6. CASE CrashInMerge
  <2> SUFFICES ASSUME NEW k \in Jobs, k \notin harmed' PROVE Shrinks(k)
    BY <1>4 DEF Promise
  <2>1. ~Logged(alog, k) /\ alog' = <<>> BY <1>6 DEF CrashInMerge, Logged
  <2>2. Replay(disk, alog)[k] = disk[k] /\ Replay(disk', alog')[k] = disk[k]
    BY <1>1, <2>1, NothingLogged, ReplayUnlogged
  <2> QED BY <1>3, <2>2, DurableIs DEF Shrinks
<1> QED BY <1>5, <1>6

LEMMA WakeCatalog ==
    ASSUME IInv, CatalogInv, NEW t \in Tasks,
           Wake(t) \/ \E j \in Jobs : StartJob(t, j)
    PROVE  CatalogInv' /\ Promise
<1>1. /\ UNCHANGED <<disk, alog, store, due, harmed, ran>>
      /\ \/ st[t] = "sleep" /\ st' = [st EXCEPT ![t] = IF running THEN "enter" ELSE "dead"]
         \/ st[t] = "tick" /\ st' = [st EXCEPT ![t] = "exec"]
      /\ st \in [Tasks -> {"dead", "sleep", "enter", "tick", "exec"}]
  BY DEF Wake, StartJob, IInv, StateOK, pastVars
<1>2. \A u \in Tasks : InTick(u)' => InTick(u) BY <1>1 DEF InTick
<1> QED BY <1>1, <1>2, StillInv, StillSteps DEF fileVars

LEMMA EnterTickCatalog ==
    ASSUME IInv, CatalogInv, NEW t \in Tasks, EnterTick(t)
    PROVE  CatalogInv' /\ Promise
<1> DEFINE L == LoadStore(running)
<1>1. StateOK /\ running \in BOOLEAN /\ SingleTimer BY DEF IInv, StateOK, TimerInv
<1>2. /\ L.s \in Catalogs /\ L.d \in Catalogs
      /\ \A k \in Jobs \ harmed : Logged(L.l, k) \/ Follows(k, L.s[k], L.d[k])
  BY <1>1, LoadKeeps
<1>3. /\ st[t] = "enter" /\ store' = L.s /\ disk' = L.d /\ alog' = L.l
      /\ due' = [due EXCEPT ![t] = [k \in Jobs |-> IF L.s # NoStore /\ IsDue(L.s[k])
                                                   THEN L.s[k] ELSE Absent]]
      /\ st' = [st EXCEPT ![t] = "tick"]
      /\ UNCHANGED <<ran, harmed>>
  BY DEF EnterTick, pastVars
<1>4. disk' # Corrupt /\ Promise BY <1>1, <1>3, LoadSteps
<1> HIDE DEF L
<1>5. CacheAgrees' BY <1>2, <1>3 DEF CacheAgrees, Follows
<1>6. DueAgrees'
  <2> SUFFICES ASSUME NEW u \in Tasks, NEW k \in Jobs \ harmed, InTick(u)', due'[u][k] # Absent
               PROVE  Class(due'[u][k]) = Class(store'[k])
    BY <1>3 DEF DueAgrees
  <2>1. u = t BY <1>1, <1>3 DEF InTick, SingleTimer, Live, StateOK
  <2>2. due'[t][k] = L.s[k] BY <1>1, <1>3, <2>1 DEF StateOK
  <2> QED BY <1>3, <2>1, <2>2
<1> QED BY <1>4, <1>5, <1>6 DEF CatalogInv

\* The executed clone that is written back is the job of the store, and of jobs.json;
\* or it was a one-shot there, and goes because it has run.
LEMMA WriteBackCatalog ==
    ASSUME IInv, CatalogInv, NEW t \in Tasks, WriteBack(t)
    PROVE  CatalogInv' /\ Promise
<1> DEFINE j == cur[t]
           c == due[t][j]
<1>1. StateOK /\ SingleTimer /\ InTick(t) /\ j \in Jobs /\ c \in JobRec /\ c # Absent
  <2>1. StateOK /\ SingleTimer /\ ExecCurrent /\ st[t] = "exec" BY DEF IInv, TimerInv, WriteBack
  <2>2. j \in Jobs /\ c # Absent BY <2>1 DEF ExecCurrent
  <2>3. c \in Slot BY <2>1, <2>2 DEF StateOK, Catalogs
  <2> QED BY <2>1, <2>2, <2>3 DEF Slot, InTick
<1>2. /\ store' = IF store = NoStore THEN store
                  ELSE IF IsOneShot(c) /\ c.del
                  THEN [store EXCEPT ![j] = Absent]
                  ELSE IF store[j] # Absent
                  THEN [store EXCEPT ![j] = Executed(c)]
                  ELSE store
      /\ due' = [due EXCEPT ![t][j] = Absent]
      /\ st' = [st EXCEPT ![t] = "tick"]
      /\ ran' = IF Class(c) = "oneshot" /\ DurableClass[j] = "oneshot"
                THEN ran \cup {j} ELSE ran
      /\ UNCHANGED <<disk, alog, harmed>>
  BY DEF WriteBack
<1>3. due[t] # NoDue /\ store # NoStore
  <2>1. due[t] # NoDue BY <1>1 DEF NoDue
  <2> QED BY <1>1, <2>1 DEF IInv, TimerInv, TickKeepsCache
<1>4. Class(Executed(c)) = Class(c) /\ Class(c) # "none"
  BY <1>1, ClassExecuted DEF Class
<1>5. /\ st \in [Tasks -> {"dead", "sleep", "enter", "tick", "exec"}]
      /\ due \in [Tasks -> Catalogs] /\ store \in Catalogs /\ disk # Corrupt
  BY <1>1, <1>3 DEF StateOK, CatalogInv
<1>6. j \in harmed \/ Logged(alog, j) \/ (Class(store[j]) = Class(c) /\ Class(disk[j]) = Class(c))
  <2> SUFFICES ASSUME j \notin harmed, ~Logged(alog, j)
               PROVE  Class(store[j]) = Class(c) /\ Class(disk[j]) = Class(c)
    OBVIOUS
  <2>1. Class(c) = Class(store[j]) BY <1>1 DEF CatalogInv, DueAgrees
  <2>2. store[j] # Absent BY <1>4, <2>1 DEF Class
  <2>3. Follows(j, store[j], disk[j]) BY <1>1, <1>3 DEF CatalogInv, CacheAgrees
  <2> QED BY <2>1, <2>2, <2>3 DEF Follows
<1>7. Class(c) = "oneshot" <=> IsOneShot(c) /\ c.del BY <1>1 DEF Class
<1>8. ~Logged(alog, j) => DurableClass[j] = Class(disk[j])
  BY <1>1, <1>5, ReplayUnlogged DEF DurableClass, Durable
<1>9. st[t] = "exec" /\ \A u \in Tasks : InTick(u) => u = t
  BY <1>1 DEF WriteBack, InTick, SingleTimer, Live
<1> HIDE DEF j, c
<1>10. \A k \in Jobs \ {j} : store'[k] = store[k] BY <1>1, <1>2, <1>5 DEF Catalogs
<1>11. ran \subseteq ran' BY <1>2
<1>12. CacheAgrees'
  <2> SUFFICES ASSUME NEW k \in Jobs \ harmed, ~Logged(alog, k)
               PROVE  Class(store'[k]) = Class(disk[k]) \/ (k \in ran' /\ store'[k] = Absent)
    BY <1>2 DEF CacheAgrees, Follows
  <2>1. CASE k # j
    BY <1>3, <1>10, <1>11, <2>1 DEF CatalogInv, CacheAgrees, Follows
  <2>2. CASE k = j /\ Class(c) = "oneshot"
    <3>1. store'[j] = Absent BY <1>1, <1>2, <1>3, <1>5, <1>7, <2>2 DEF Catalogs
    <3>2. j \in ran' BY <1>2, <1>6, <1>8, <2>2
    <3> QED BY <2>2, <3>1, <3>2
  <2>3. CASE k = j /\ Class(c) # "oneshot"
    <3>1. Class(store[j]) = Class(c) /\ Class(disk[j]) = Class(c) BY <1>6, <2>3
    <3>2. store[j] # Absent BY <1>4, <3>1 DEF Class
    <3>3. store'[j] = Executed(c) BY <1>1, <1>2, <1>3, <1>5, <1>7, <2>3, <3>2 DEF Catalogs
    <3> QED BY <1>4, <2>3, <3>1, <3>3
  <2> QED BY <2>1, <2>2, <2>3
<1>13. DueAgrees'
  <2> SUFFICES ASSUME NEW u \in Tasks, NEW k \in Jobs \ harmed, InTick(u)', due'[u][k] # Absent,
                      ~Logged(alog, k)
               PROVE  Class(due'[u][k]) = Class(store'[k])
    BY <1>2 DEF DueAgrees
  <2>1. InTick(u) BY <1>2, <1>5, <1>9 DEF InTick
  <2>2. u = t BY <1>9, <2>1
  <2>3. due'[t][j] = Absent /\ \A i \in Jobs \ {j} : due'[t][i] = due[t][i]
    BY <1>1, <1>2, <1>5 DEF Catalogs
  <2>4. k # j /\ due'[u][k] = due[u][k] BY <2>2, <2>3
  <2> QED BY <1>10, <2>1, <2>4 DEF CatalogInv, DueAgrees
<1>14. Promise BY <1>2, StillSteps DEF fileVars
<1> QED BY <1>2, <1>5, <1>12, <1>13, <1>14 DEF CatalogInv

LEMMA FinishTickCatalog ==
    ASSUME IInv, CatalogInv, NEW t \in Tasks, FinishTick(t)
    PROVE  CatalogInv' /\ Promise
<1>1. /\ StateOK /\ SingleTimer /\ running \in BOOLEAN
      /\ store \in Catalogs \cup {NoStore}
  BY DEF IInv, TimerInv, StateOK
<1>2. /\ disk' = SaveStore(store, disk) /\ ArmTimer(running, store)
      /\ UNCHANGED <<alog, store, harmed>>
  BY DEF FinishTick, pastVars
<1>3. NoTick' BY <1>1, <1>2, ArmNoTick
<1>4. disk' # Corrupt BY <1>1, <1>2, CronAssumption DEF SaveStore, CatalogInv
<1>5. store' # NoStore => disk' = store' BY <1>2 DEF SaveStore
<1>6. CatalogInv' BY <1>3, <1>4, <1>5, SavedInv
<1>7. Promise
  <2>1. CASE store = NoStore
    <3>1. UNCHANGED fileVars BY <1>2, <2>1 DEF SaveStore, fileVars
    <3> QED BY <3>1, StillSteps
  <2>2. CASE store # NoStore
    <3>1. disk' = store /\ store \in Catalogs BY <1>1, <1>2, <2>2 DEF SaveStore
    <3> QED BY <1>1, <1>2, <2>2, <3>1, MemorySteps
  <2> QED BY <2>1, <2>2
<1> QED BY <1>6, <1>7

-----------------------------------------------------------------------------
(* All steps together *)

\* What every step does to the counters and the history, whoever takes it
Traced ==
    /\ harmed \subseteq harmed'
    /\ \/ \E j \in Jobs \cup {NoJob} : Call(j)
       \/ /\ UNCHANGED call
          /\ \/ ran' = ran
             \/ \E j \in Jobs : DurableClass[j] = "oneshot" /\ ran' = ran \cup {j}

LEMMA NextTraced == ASSUME IInv, HistoryOK, [Next]_vars PROVE Traced
<1>1. ASSUME NEW j \in Jobs \cup {NoJob}, Call(j), harmed \subseteq harmed' PROVE Traced
  BY <1>1 DEF Traced
<1>2. ASSUME UNCHANGED <<call, ran>>, harmed \subseteq harmed' PROVE Traced
  BY <1>2 DEF Traced
<1>3. CASE Start BY <1>1, <1>3 DEF Start
<1>4. CASE Stop BY <1>1, <1>4 DEF Stop
<1>5. CASE Query BY <1>1, <1>5 DEF Query
<1>6. ASSUME NEW j \in Jobs, JobCall(j) PROVE Traced
  <2>1. CASE RemoveJob(j) BY <1>1, <2>1 DEF RemoveJob, Commit
  <2>2. CASE ToolRemove(j) BY <1>1, <2>2 DEF ToolRemove
  <2>3. ASSUME NEW e \in BOOLEAN, EnableJob(j, e) PROVE Traced
    BY <1>1, <2>3 DEF EnableJob, Commit
  <2>4. ASSUME NEW s \in Schedules, RegisterSystemJob(j, s) PROVE Traced
    BY <1>1, <2>4 DEF RegisterSystemJob
  <2>5. ASSUME NEW s \in Schedules, NEW d \in BOOLEAN, AddJob(j, s, d) PROVE Traced
    BY <1>1, <2>5 DEF AddJob
  <2>6. ASSUME NEW s \in Schedules, NEW d \in BOOLEAN, UpdateJob(j, s, d) PROVE Traced
    BY <1>1, <2>6 DEF UpdateJob, Commit
  <2>7. ASSUME NEW s \in Schedules, NEW d \in BOOLEAN, ToolAdd(j, s, d) PROVE Traced
    BY <1>1, <2>7 DEF ToolAdd
  <2>8. ASSUME NEW r \in Runners, NEW f \in BOOLEAN, RunJobBegin(r, j, f) PROVE Traced
    <3>1. PICK k \in {j, NoJob} : Call(k) BY <2>8 DEF RunJobBegin
    <3> QED BY <1>1, <2>8, <3>1 DEF RunJobBegin
  <2> QED BY <1>6, <2>1, <2>2, <2>3, <2>4, <2>5, <2>6, <2>7, <2>8 DEF JobCall
<1>7. ASSUME NEW r \in Runners, RunJobEnd(r) PROVE Traced BY <1>2, <1>7 DEF RunJobEnd
<1>8. ASSUME NEW t \in Tasks, TimerStep(t) PROVE Traced
  <2>1. CASE Wake(t) BY <1>2, <2>1 DEF Wake, pastVars
  <2>2. CASE EnterTick(t) BY <1>2, <2>2 DEF EnterTick, pastVars
  <2>3. ASSUME NEW j \in Jobs, StartJob(t, j) PROVE Traced BY <1>2, <2>3 DEF StartJob, pastVars
  <2>4. CASE WriteBack(t)
    <3>1. cur[t] \in Jobs BY <2>4 DEF WriteBack, IInv, TimerInv, ExecCurrent
    <3>2. ran' = ran \/ (DurableClass[cur[t]] = "oneshot" /\ ran' = ran \cup {cur[t]})
      BY <2>4 DEF WriteBack
    <3>3. UNCHANGED <<call, harmed>> BY <2>4 DEF WriteBack
    <3> QED BY <3>1, <3>2, <3>3 DEF Traced
  <2>5. CASE FinishTick(t) BY <1>2, <2>5 DEF FinishTick, pastVars
  <2> QED BY <1>8, <2>1, <2>2, <2>3, <2>4, <2>5 DEF TimerStep
<1>9. CASE Crash \/ CrashInMerge \/ CrashInSave
  BY <1>1, <1>9 DEF Crash, CrashInMerge, CrashInSave, Dies, HistoryOK
<1>10. CASE ToolRename BY <1>1, <1>10 DEF ToolRename, HistoryOK
<1>11. CASE Clock \/ UNCHANGED vars BY <1>2, <1>11 DEF Clock, vars, pastVars
<1> QED BY <1>3, <1>4, <1>5, <1>6, <1>7, <1>8, <1>9, <1>10, <1>11 DEF Next

LEMMA NextPromise ==
    ASSUME IInv, HistoryOK, UnharmedInv, [Next]_vars
    PROVE  UnharmedInv' /\ Promise
<1>1. harmed \subseteq harmed' BY NextTraced DEF Traced
<1>2. CASE Jobs \subseteq harmed' BY <1>2 DEF UnharmedInv, Promise
<1>3. CASE ~(Jobs \subseteq harmed')
  <2> SUFFICES CatalogInv' /\ Promise BY DEF UnharmedInv
  <2>1. CatalogInv BY <1>1, <1>3 DEF UnharmedInv
  <2>2. CASE Start BY <2>1, <2>2, StartCatalog
  <2>3. CASE Stop BY <2>1, <2>3, StopCatalog
  <2>4. CASE Query BY <2>1, <2>4, QueryCatalog
  <2>5. ASSUME NEW j \in Jobs, JobCall(j) PROVE CatalogInv' /\ Promise
    BY <2>1, <2>5, RemoveCatalog, EnableCatalog, RegisterCatalog, AddJobCatalog,
       UpdateCatalog, ToolCatalog, RunJobBeginCatalog DEF JobCall
  <2>6. ASSUME NEW r \in Runners, RunJobEnd(r) PROVE CatalogInv' /\ Promise
    BY <2>1, <2>6, RunJobEndCatalog
  <2>7. ASSUME NEW t \in Tasks, TimerStep(t) PROVE CatalogInv' /\ Promise
    BY <2>1, <2>7, WakeCatalog, EnterTickCatalog, WriteBackCatalog, FinishTickCatalog
       DEF TimerStep
  <2>8. CASE Crash \/ CrashInMerge BY <2>1, <2>8, CrashCatalog
  <2>9. ~CrashInSave /\ ~ToolRename BY <1>3 DEF CrashInSave, ToolRename
  <2>10. CASE Clock \/ UNCHANGED vars
    <3>1. UNCHANGED <<disk, alog, store, due, harmed, ran, st>>
      BY <2>10 DEF Clock, timerVars, pastVars, vars
    <3>2. \A t \in Tasks : InTick(t)' => InTick(t) BY <3>1 DEF InTick
    <3> QED BY <2>1, <3>1, <3>2, StillInv, StillSteps DEF fileVars
  <2> QED BY <2>2, <2>3, <2>4, <2>5, <2>6, <2>7, <2>8, <2>9, <2>10 DEF Next
<1> QED BY <1>2, <1>3

LEMMA CatalogNext ==
    ASSUME StateOK, Traced, Promise
    PROVE  CC!Next
<1>1. DurableClass' \in [Jobs -> CC!Classes]
  <2>1. \A k \in Jobs : DurableClass'[k] \in CC!Classes
    BY DEF DurableClass, Class, CC!Classes
  <2>2. DurableClass' = [k \in Jobs |-> DurableClass'[k]] BY DEF DurableClass
  <2> QED BY <2>1, <2>2
<1>2. harmed \subseteq harmed' BY DEF Traced
<1>3. CC!Call \/ CC!Work
  <2>1. ASSUME NEW j \in Jobs \cup {NoJob}, Call(j) PROVE CC!Call
    BY <2>1 DEF Call, CC!Call
  <2>2. ASSUME UNCHANGED call, ran' = ran PROVE CC!Work BY <2>2 DEF CC!Work
  <2>3. ASSUME UNCHANGED call, NEW j \in Jobs, DurableClass[j] = "oneshot",
               ran' = ran \cup {j}
        PROVE  CC!Work
    BY <2>3 DEF CC!Work
  <2> QED BY <2>1, <2>2, <2>3 DEF Traced
<1>4. ASSUME NEW k \in Jobs \ harmed'
      PROVE  DurableClass'[k] = DurableClass[k] \/ CC!Retired(k) \/ CC!Requested(k)
  BY DEF Promise, Shrinks, CC!Retired, CC!Requested
<1> QED BY <1>1, <1>2, <1>3, <1>4 DEF CC!Next

LEMMA InitCatalog == Init => HistoryOK /\ UnharmedInv /\ CC!Init
<1> SUFFICES ASSUME Init PROVE HistoryOK /\ UnharmedInv /\ CC!Init OBVIOUS
<1>1. /\ disk = EmptyCatalog /\ alog = <<>> /\ store = NoStore
      /\ call = [n |-> 0, job |-> NoJob]
      /\ \A t \in Tasks : st[t] = "dead"
      /\ tool = "idle" /\ ran = {} /\ harmed = {}
  BY DEF Init
<1>2. EmptyCatalog \in Catalogs BY DEF EmptyCatalog, Catalogs, Slot
<1>3. disk # Corrupt BY <1>1, <1>2, CronAssumption
<1>4. \A k \in Jobs : Replay(disk, alog)[k] = Absent
  BY <1>1, NothingLogged, ReplayUnlogged DEF EmptyCatalog
<1>5. DurableClass = [j \in Jobs |-> "none"]
  BY <1>3, <1>4 DEF DurableClass, Durable, Class
<1>6. CC!Init BY <1>1, <1>5 DEF CC!Init
<1>7. CatalogInv BY <1>1, <1>3 DEF CatalogInv, CacheAgrees, DueAgrees, InTick
<1> QED BY <1>1, <1>6, <1>7 DEF UnharmedInv, HistoryOK

\* The durable job list implements CronCatalog: whatever is loaded, merged, ticked,
\* run by hand, logged by the tool's service or lost in a crash, a restart finds every
\* job that no call named, except one-shots that have run, and never misses a protected
\* one, as long as the job is not harmed by a crash inside the merge or the write, by a
\* tool call that moves a half-written jobs.json aside, or by a run_job that puts back
\* an outdated clone of it.
THEOREM CronRefinesCatalog == Spec => CatalogRefined
<1>1. Init => HistoryOK /\ UnharmedInv /\ CC!Init BY InitCatalog
<1>2. IInv /\ HistoryOK /\ UnharmedInv /\ [Next]_vars =>
        HistoryOK' /\ UnharmedInv' /\ CC!Next
  <2> SUFFICES ASSUME IInv, HistoryOK, UnharmedInv, [Next]_vars
               PROVE  HistoryOK' /\ UnharmedInv' /\ CC!Next
    OBVIOUS
  <2>1. HistoryOK' BY NextHistory
  <2>2. UnharmedInv' /\ Promise BY NextPromise
  <2>3. CC!Next BY <2>2, NextTraced, CatalogNext DEF IInv
  <2> QED BY <2>1, <2>2, <2>3
<1> QED BY <1>1, <1>2, CronInvariant, PTL DEF Spec, CatalogRefined, CC!Spec
=============================================================================

----------------------------- MODULE CronService -----------------------------
(***************************************************************************)
(* The cron service (src/cron/service/): jobs kept in one store file, a    *)
(* timer that runs what is due, a catch-up at startup, manual runs, and    *)
(* the user's changes.                                                     *)
(*                                                                         *)
(* `locked' (locked.ts) serialises the sections of all services of a       *)
(* process that share the file, so a section is one action here; jobs run  *)
(* outside the lock, and everything may happen between the section that    *)
(* reserves a job and the one that applies its result.  A configuration    *)
(* reload stops the service and starts another one on the same file while  *)
(* the runs of the first go on; a crash ends them all.                     *)
(*                                                                         *)
(* Left out: delivery and failure alerts, the task ledger, pages and       *)
(* sorting, schedules that cannot be computed or parsed, the time zone     *)
(* arithmetic of croner (a "cron" job is due at the multiples of a period),*)
(* the growth of the backoff, MIN_REFIRE_GAP_MS (two seconds, less than    *)
(* one unit of the clock), the marker's age (a marker older than two hours *)
(* is cleared), patches of a job's state, manual runs of a job whose spec  *)
(* is not supported, and a disabled scheduler.  The timer is clamped to a  *)
(* minute, so an armed timer may fire at any time.  Bound: a service has   *)
(* one manual run at a time, from the request to the result.               *)
(***************************************************************************)
EXTENDS Naturals, FiniteSets

CONSTANTS
  Jobs,          \* job ids, numbered in the order of the file
  ScheduleOf,    \* ScheduleOf[j]: kind, period or time, deleteAfterRun
  Results,       \* how an execution may end: "ok", "skipped", "error", "fatal"
  Patches,       \* the user's updates: "enable", "disable", "reschedule", "other"
  Modes,         \* the modes of a manual run: "due", "force"
  MaxImmediate,  \* maxMissedJobsPerRestart
  MaxConcurrent, \* cron.maxConcurrentRuns
  MaxAttempts,   \* retries of a one-shot job
  Backoff,       \* errorBackoffMs
  Stagger,       \* missedJobStaggerMs
  MaxTime,       \* bound: the clock
  MaxServices,   \* bound: services of one process
  MaxCrashes,    \* bound: crashes of the process
  MaxRequests    \* bound: additions, updates, removals and manual runs

ASSUME CronAssumption ==
  /\ Jobs \subseteq Nat /\ IsFiniteSet(Jobs)
  /\ \A j \in Jobs :
       /\ ScheduleOf[j].kind \in {"at", "every", "cron"}
       /\ ScheduleOf[j].time \in Nat \ {0}
       /\ ScheduleOf[j].deleteAfterRun \in BOOLEAN
  /\ Results \subseteq {"ok", "skipped", "error", "fatal"}
  /\ {MaxImmediate, MaxAttempts, Backoff, Stagger, MaxServices, MaxCrashes,
      MaxRequests} \subseteq Nat
  /\ {MaxConcurrent, MaxTime} \subseteq Nat \ {0}

VARIABLES
  now,      \* the clock; 0 stands for an undefined time
  disk,     \* the store file
  mem,      \* mem[s]: state.store of service s, NoStore before it is loaded
  timer,    \* timer[s]: state.timer is set
  start,    \* start[s]: where start() of s stands
  tick,     \* tick[s]: the tick in progress; `running' is phase # "idle"
  catchup,  \* catchup[s]: the catch-up in progress
  manual,   \* manual[s]: a manual run in progress
  current,  \* the service the gateway talks to, 0 for none
  crashes, requests,  \* counters for the bounds
  excused   \* history: jobs disabled, removed or taken over while they run

vars == <<now, disk, mem, timer, start, tick, catchup, manual, current, crashes, requests, excused>>

Services == 1 .. MaxServices

Unborn == [there |-> FALSE, enabled |-> FALSE, next |-> 0, running |-> FALSE,
           last |-> 0, status |-> "none", errors |-> 0]
Removed == [Unborn EXCEPT !.status = "removed"]
NoStore == [j \in {} |-> Unborn]

(* A batch of jobs: still to start, running since, and results. *)
NoBatch == [phase |-> "idle", todo |-> {}, active |-> {}, done |-> {}, same |-> FALSE]
NoCatchup == [todo |-> {}, active |-> {}, done |-> {}, deferred |-> {}, skip |-> {}]
NoManual == [phase |-> "idle", job |-> 0, mode |-> "none", at |-> 0, status |-> "none", end |-> 0]

-----------------------------------------------------------------------------
(* Schedules (jobs.ts). *)

Later(t, u) == IF t > u THEN t ELSE u
Sooner(t, u) == IF t < u THEN t ELSE u

(* computeJobNextRunAtMs.  A job that repeats every P is anchored at 0; a  *)
(* one-shot job is not scheduled again after it has ended well.            *)
NextRun(j, r, t) ==
  LET S == ScheduleOf[j]
      P == S.time
  IN IF ~ r.enabled THEN 0
     ELSE CASE S.kind = "every" ->
                 IF r.last # 0 /\ r.last + P > t THEN r.last + P
                 ELSE P * Later(1, (t + P - 1) \div P)
            [] S.kind = "cron" -> P * (t \div P + 1)
            [] S.kind = "at" -> IF r.status = "ok" /\ S.time <= r.last THEN 0 ELSE S.time

(* computeJobPreviousRunAtMs *)
PreviousRun(j, t) == ScheduleOf[j].time * (t \div ScheduleOf[j].time)

Due(r, t) == r.next # 0 /\ r.next <= t

(* recomputeNextRuns: what is missing or past due is computed afresh. *)
Recompute(store) == [j \in Jobs |->
  LET r == store[j] IN
  CASE ~ r.there -> r
    [] r.there /\ ~ r.enabled -> [r EXCEPT !.next = 0, !.running = FALSE]
    [] r.there /\ r.enabled /\ (r.next = 0 \/ Due(r, now)) -> [r EXCEPT !.next = NextRun(j, r, now)]
    [] OTHER -> r]

(* Fault: maintenance also moves the slots that are past due. *)
FaultMaintenance(store, expired) == Recompute(store)

(* recomputeNextRunsForMaintenance: only what is missing, and with         *)
(* recomputeExpired what has been executed.                                *)
Maintenance(store, expired) == [j \in Jobs |->
  LET r == store[j] IN
  CASE ~ r.there -> r
    [] r.there /\ ~ r.enabled -> [r EXCEPT !.next = 0, !.running = FALSE]
    [] /\ r.there /\ r.enabled
       /\ r.next = 0 \/ (expired /\ Due(r, now) /\ ~ r.running /\ r.last >= r.next) ->
         [r EXCEPT !.next = NextRun(j, r, now)]
    [] OTHER -> r]

(* Fault: the marker of a run in progress is not looked at. *)
FaultRunnable(r) == r.there /\ r.enabled /\ Due(r, now)

(* isRunnableJob, as a tick asks it. *)
Runnable(r) == r.there /\ r.enabled /\ ~ r.running /\ Due(r, now)

BackoffPending(r) == r.status = "error" /\ r.last # 0 /\ now < r.last + Backoff

(* isRunnableJob, as the catch-up asks it: a one-shot job that has ended   *)
(* runs again only for its retry, and a cron job also for a slot that was  *)
(* moved on without having been run.                                       *)
Missed(j, r) ==
  /\ r.there /\ r.enabled /\ ~ r.running
  /\ IF ScheduleOf[j].kind = "at" /\ r.status # "none"
     THEN r.status = "error" /\ Due(r, now) /\ r.next > r.last
     ELSE \/ Due(r, now)
          \/ /\ ScheduleOf[j].kind = "cron"
             /\ ~ (r.next > now /\ BackoffPending(r))
             /\ r.last # 0 /\ PreviousRun(j, now) > r.last

(* applyJobResult: a one-shot job is deleted, disabled or retried; a       *)
(* repeating one has its next slot computed, after an error not before the *)
(* backoff.  A forced run keeps the slots of an "every" job.               *)
Applied(j, r, o, keep) ==
  LET failed == o.status \in {"error", "fatal"}
      ran == [r EXCEPT !.running = FALSE, !.last = o.start,
                       !.status = IF failed THEN "error" ELSE o.status,
                       !.errors = IF failed THEN Sooner(@ + 1, MaxAttempts + 1) ELSE 0]
      natural == NextRun(j, IF keep /\ ScheduleOf[j].kind = "every"
                            THEN [ran EXCEPT !.last = r.last] ELSE ran, o.end)
  IN IF ScheduleOf[j].kind = "at"
     THEN CASE o.status = "ok" /\ ScheduleOf[j].deleteAfterRun -> Removed
            [] o.status = "error" /\ ran.errors <= MaxAttempts ->
                 [ran EXCEPT !.next = o.end + Backoff]
            [] OTHER -> [ran EXCEPT !.enabled = FALSE, !.next = 0]
     ELSE [ran EXCEPT !.errors = 0,
                      !.next = IF ~ r.enabled THEN 0
                               ELSE IF failed THEN Later(natural, o.end + Backoff)
                               ELSE natural]

(* applyOutcomeToStoredJob for the results of a batch. *)
ApplyAll(store, done) == [j \in Jobs |->
  IF store[j].there /\ \E o \in done : o.job = j
  THEN Applied(j, store[j], CHOOSE o \in done : o.job = j, FALSE)
  ELSE store[j]]

(* createJob, and the file the first service finds. *)
Created(j, t) ==
  LET r == [Unborn EXCEPT !.there = TRUE, !.enabled = TRUE] IN [r EXCEPT !.next = NextRun(j, r, t)]

Init ==
  /\ now = 1
  /\ \E J \in SUBSET Jobs : disk = [j \in Jobs |-> IF j \in J THEN Created(j, 1) ELSE Unborn]
  /\ mem = [s \in Services |-> NoStore]
  /\ timer = [s \in Services |-> FALSE]
  /\ start = [s \in Services |-> "none"]
  /\ tick = [s \in Services |-> NoBatch]
  /\ catchup = [s \in Services |-> NoCatchup]
  /\ manual = [s \in Services |-> NoManual]
  /\ current = 0
  /\ crashes = 0 /\ requests = 0
  /\ excused = {}

-----------------------------------------------------------------------------
(* The store and the timer. *)

(* ensureLoaded *)
Loaded(s) == IF mem[s] = NoStore THEN disk ELSE mem[s]

(* A locked section of s leaves store in memory and, if it persists, on    *)
(* the disk.                                                               *)
Section(s, store, persists) ==
  /\ mem' = [mem EXCEPT ![s] = store]
  /\ disk' = IF persists THEN store ELSE disk

(* Fault: no timer is set when something is due already. *)
FaultArm(store) == \E j \in Jobs : store[j].enabled /\ store[j].next > now

(* armTimer: set if an enabled job has a next run. *)
Arm(store) == \E j \in Jobs : store[j].enabled /\ store[j].next # 0

Arms(s, store) == timer' = [timer EXCEPT ![s] = Arm(store)]

-----------------------------------------------------------------------------
(* The timer tick (onTimer). *)

Fire(s) ==
  /\ timer[s] /\ tick[s].phase = "idle"
  /\ tick' = [tick EXCEPT ![s] = [NoBatch EXCEPT !.phase = "reserve"]]
  /\ UNCHANGED <<now, disk, mem, timer, start, catchup, manual, current, crashes, requests>>

(* The due jobs of the reloaded file are marked running. *)
Reserve(s) ==
  LET due == {j \in Jobs : Runnable(disk[j])}
      repaired == Maintenance(disk, TRUE)
  IN /\ tick[s].phase = "reserve"
     /\ IF due = {}
        THEN /\ Section(s, repaired, TRUE)
             /\ tick' = [tick EXCEPT ![s].phase = "end"]
        ELSE /\ Section(s, [j \in Jobs |-> [disk[j] EXCEPT !.running = @ \/ j \in due]], TRUE)
             /\ tick' = [tick EXCEPT ![s] = [NoBatch EXCEPT !.phase = "run", !.todo = due, !.same = TRUE]]
     /\ UNCHANGED <<now, timer, start, catchup, manual, current, crashes, requests>>

(* A worker takes a job and marks the object it holds, which is the one in *)
(* memory unless the store has been reloaded meanwhile.                    *)
RunDueJob(s, j) ==
  /\ tick[s].phase = "run" /\ j \in tick[s].todo
  /\ Cardinality(tick[s].active) < MaxConcurrent
  /\ tick' = [tick EXCEPT ![s] =
       [tick[s] EXCEPT !.todo = @ \ {j}, !.active = @ \cup {[job |-> j, start |-> now]}]]
  /\ mem' = IF tick[s].same /\ mem[s][j].there THEN [mem EXCEPT ![s][j].running = TRUE] ELSE mem
  /\ UNCHANGED <<now, disk, timer, start, catchup, manual, current, crashes, requests>>

(* Fault: the end of the run is not noted. *)
FaultResult(a, status) == [job |-> a.job, start |-> a.start, end |-> 0, status |-> status]

Result(a, status) == [job |-> a.job, start |-> a.start, end |-> now, status |-> status]

DueJobEnds(s, status) ==
  \E a \in tick[s].active :
    /\ tick' = [tick EXCEPT ![s] =
         [tick[s] EXCEPT !.active = @ \ {a}, !.done = @ \cup {Result(a, status)}]]
    /\ UNCHANGED <<now, disk, mem, timer, start, catchup, manual, current, crashes, requests>>

Finished(b) == b.todo = {} /\ b.active = {}

(* Fault: the results are applied to the store the service has in memory. *)
FaultApplyOutcomes(s) ==
  /\ tick[s].phase = "run" /\ Finished(tick[s])
  /\ Section(s, Maintenance(ApplyAll(mem[s], tick[s].done), FALSE), TRUE)
  /\ tick' = [tick EXCEPT ![s] = [NoBatch EXCEPT !.phase = "end"]]
  /\ UNCHANGED <<now, timer, start, catchup, manual, current, crashes, requests>>

ApplyOutcomes(s) ==
  /\ tick[s].phase = "run" /\ Finished(tick[s])
  /\ Section(s, Maintenance(ApplyAll(disk, tick[s].done), FALSE), TRUE)
  /\ tick' = [tick EXCEPT ![s] = [NoBatch EXCEPT !.phase = "end"]]
  /\ UNCHANGED <<now, timer, start, catchup, manual, current, crashes, requests>>

(* The finally block, after the session reaper: the timer is set, also if  *)
(* the service has been stopped.                                           *)
TickEnds(s) ==
  /\ tick[s].phase = "end"
  /\ tick' = [tick EXCEPT ![s] = NoBatch]
  /\ Arms(s, mem[s])
  /\ UNCHANGED <<now, disk, mem, start, catchup, manual, current, crashes, requests>>

-----------------------------------------------------------------------------
(* start() and the catch-up of missed jobs. *)

(* Fault: the markers are only counted. *)
FaultCleared(store) == store

Cleared(store) == [j \in Jobs |-> [store[j] EXCEPT !.running = FALSE]]

(* Markers of a former life are cleared; one-shot jobs that had one are    *)
(* not caught up.                                                          *)
StartLoads(s) ==
  LET store == Loaded(s)
      marked == {j \in Jobs : store[j].running}
  IN /\ start[s] = "load"
     /\ start' = [start EXCEPT ![s] = "plan"]
     /\ Section(s, Cleared(store), marked # {})
     /\ catchup' = [catchup EXCEPT ![s].skip = {j \in marked : ScheduleOf[j].kind = "at"}]
     /\ UNCHANGED <<now, timer, tick, manual, current, crashes, requests>>

(* planStartupCatchup: of the missed jobs the first few are run now, the   *)
(* others later.                                                           *)
PlanCatchup(s) ==
  LET store == Loaded(s)
      missed == {j \in Jobs \ catchup[s].skip : Missed(j, store[j])}
      Before(k, j) == store[k].next < store[j].next \/ (store[k].next = store[j].next /\ k < j)
      immediate == {j \in missed : Cardinality({k \in missed : Before(k, j)}) < MaxImmediate}
      place == [j \in missed \ immediate |->
                  1 + Cardinality({k \in missed \ immediate : Before(k, j)})]
  IN /\ start[s] = "plan"
     /\ Section(s, [j \in Jobs |-> [store[j] EXCEPT !.running = @ \/ j \in immediate]], missed # {})
     /\ catchup' = [catchup EXCEPT ![s] =
          [catchup[s] EXCEPT !.todo = immediate,
                             !.deferred = {<<j, place[j]>> : j \in missed \ immediate}]]
     /\ start' = [start EXCEPT ![s] = IF missed = {} THEN "finish" ELSE "run"]
     /\ UNCHANGED <<now, timer, tick, manual, current, crashes, requests>>

RunCandidate(s, j) ==
  /\ start[s] = "run" /\ j \in catchup[s].todo /\ catchup[s].active = {}
  /\ catchup' = [catchup EXCEPT ![s] =
       [catchup[s] EXCEPT !.todo = @ \ {j}, !.active = {[job |-> j, start |-> now]}]]
  /\ UNCHANGED <<now, disk, mem, timer, start, tick, manual, current, crashes, requests>>

CandidateEnds(s, status) ==
  \E a \in catchup[s].active :
    /\ catchup' = [catchup EXCEPT ![s] =
         [catchup[s] EXCEPT !.active = {}, !.done = @ \cup {Result(a, status)}]]
    /\ UNCHANGED <<now, disk, mem, timer, start, tick, manual, current, crashes, requests>>

(* applyStartupCatchupOutcomes: the deferred jobs that are still enabled   *)
(* get their turns one after the other.                                    *)
ApplyCatchup(s) ==
  LET applied == ApplyAll(mem[s], catchup[s].done)
      Deferred(j) == applied[j].enabled /\ \E d \in catchup[s].deferred : d[1] = j
      Place(j) == (CHOOSE d \in catchup[s].deferred : d[1] = j)[2]
      Turn(j) == Cardinality({k \in Jobs : Deferred(k) /\ Place(k) <= Place(j)})
      deferred == [j \in Jobs |->
        IF Deferred(j) THEN [applied[j] EXCEPT !.next = now + Stagger * Turn(j)] ELSE applied[j]]
  IN /\ start[s] = "run" /\ Finished(catchup[s])
     /\ Section(s, Maintenance(deferred, FALSE), TRUE)
     /\ catchup' = [catchup EXCEPT ![s] = [NoCatchup EXCEPT !.skip = catchup[s].skip]]
     /\ start' = [start EXCEPT ![s] = "finish"]
     /\ UNCHANGED <<now, timer, tick, manual, current, crashes, requests>>

(* The last section of start: next runs are recomputed and the timer is    *)
(* set, whether or not stop was called in the meantime.                    *)
StartFinishes(s) ==
  LET store == Recompute(mem[s])
  IN /\ start[s] = "finish"
     /\ start' = [start EXCEPT ![s] = "up"]
     /\ Section(s, store, store # mem[s])
     /\ Arms(s, store)
     /\ UNCHANGED <<now, tick, catchup, manual, current, crashes, requests>>

-----------------------------------------------------------------------------
(* The user's operations, on the service in use; start comes first. *)

Open(s) == s = current /\ mem[s] # NoStore

Requested ==
  /\ requests < MaxRequests
  /\ requests' = requests + 1

Quiet == UNCHANGED <<now, start, tick, catchup, current, crashes>>

(* add recomputes all jobs. *)
Add(s, j) ==
  LET store == Recompute([mem[s] EXCEPT ![j] = Created(j, now)])
  IN /\ Open(s) /\ mem[s][j] = Unborn /\ disk[j] = Unborn
     /\ Section(s, store, TRUE)
     /\ Arms(s, store)
     /\ Requested /\ Quiet /\ UNCHANGED manual

(* update: a patch of the schedule or of enabled computes the next run     *)
(* afresh, or clears it and the marker.                                    *)
Patched(j, r, p) ==
  LET e == [r EXCEPT !.enabled = (p = "enable") \/ (@ /\ p # "disable")]
  IN CASE p = "other" ->
            IF e.enabled /\ e.next = 0 THEN [e EXCEPT !.next = NextRun(j, e, now)] ELSE e
       [] p # "other" /\ e.enabled -> [e EXCEPT !.next = NextRun(j, e, now)]
       [] OTHER -> [e EXCEPT !.next = 0, !.running = FALSE]

Update(s, j, p) ==
  LET store == [mem[s] EXCEPT ![j] = Patched(j, @, p)]
  IN /\ Open(s) /\ mem[s][j].there
     /\ Section(s, store, TRUE)
     /\ Arms(s, store)
     /\ Requested /\ Quiet /\ UNCHANGED manual

Remove(s, j) ==
  LET store == [mem[s] EXCEPT ![j] = Removed]
  IN /\ Open(s) /\ mem[s][j].there
     /\ Section(s, store, TRUE)
     /\ Arms(s, store)
     /\ Requested /\ Quiet /\ UNCHANGED manual

(* status, list and listPage repair what they read. *)
List(s) ==
  LET store == Maintenance(mem[s], FALSE)
  IN /\ Open(s)
     /\ Section(s, store, store # mem[s])
     /\ Quiet /\ UNCHANGED <<timer, manual, requests>>

(* A manual run is looked at when it is asked for, again when its turn in  *)
(* the cron lane comes, and reserved in a section of its own.  The queued  *)
(* run keeps the service it was asked of, also when that is replaced.      *)

(* inspectManualRunPreflight: what it repairs is not persisted, and a      *)
(* store that is in memory is not read again.                              *)
Inspected(s) == Maintenance(mem[s], FALSE)

MayRun(r, mode) == r.there /\ ~ r.running /\ (mode = "force" \/ (r.enabled /\ Due(r, now)))

EnqueueRun(s, j, mode) ==
  /\ Open(s) /\ manual[s].phase = "idle" /\ mem[s][j].there
  /\ Section(s, Inspected(s), FALSE)
  /\ manual' = IF MayRun(Inspected(s)[j], mode)
               THEN [manual EXCEPT ![s] = [NoManual EXCEPT !.phase = "queued", !.job = j, !.mode = mode]]
               ELSE manual
  /\ Requested /\ Quiet /\ UNCHANGED timer

Preflight(s) ==
  LET m == manual[s]
  IN /\ m.phase = "queued"
     /\ Section(s, Inspected(s), FALSE)
     /\ manual' = [manual EXCEPT ![s] =
          IF MayRun(Inspected(s)[m.job], m.mode) THEN [m EXCEPT !.phase = "prepare", !.at = now]
          ELSE NoManual]
     /\ Quiet /\ UNCHANGED <<timer, requests>>

(* prepareManualRun *)
Prepare(s) ==
  LET j == manual[s].job IN
  /\ manual[s].phase = "prepare"
  /\ IF mem[s][j].there /\ ~ mem[s][j].running
     THEN /\ Section(s, [mem[s] EXCEPT ![j].running = TRUE], TRUE)
          /\ manual' = [manual EXCEPT ![s].phase = "run"]
     ELSE /\ manual' = [manual EXCEPT ![s] = NoManual]
          /\ UNCHANGED <<mem, disk>>
  /\ Quiet /\ UNCHANGED <<timer, requests>>

ManualRunEnds(s, status) ==
  /\ manual[s].phase = "run"
  /\ manual' = [manual EXCEPT ![s] =
       [manual[s] EXCEPT !.phase = "finish", !.status = status, !.end = now]]
  /\ Quiet /\ UNCHANGED <<disk, mem, timer, requests>>

(* mergeManualRunSnapshotAfterReload: the job's new state goes into the    *)
(* file as it is now.                                                      *)
Merged(s, j, r) == [disk EXCEPT ![j] = IF @.there \/ ~ r.there THEN r ELSE @]

(* finishPreparedManualRun *)
FinishManualRun(s) ==
  LET m == manual[s]
      o == [job |-> m.job, start |-> m.at, end |-> m.end, status |-> m.status]
      store == Maintenance(Merged(s, m.job, Applied(m.job, mem[s][m.job], o, m.mode = "force")), TRUE)
  IN /\ m.phase = "finish"
     /\ manual' = [manual EXCEPT ![s] = NoManual]
     /\ IF mem[s][m.job].there
        THEN /\ Section(s, store, TRUE)
             /\ Arms(s, store)
             /\ tick' = [tick EXCEPT ![s].same = FALSE]
        ELSE UNCHANGED <<mem, disk, timer, tick>>
     /\ UNCHANGED <<now, start, catchup, current, crashes, requests>>

-----------------------------------------------------------------------------
(* The process. *)

Advance ==
  /\ now < MaxTime
  /\ now' = now + 1
  /\ UNCHANGED <<disk, mem, timer, start, tick, catchup, manual, current, crashes, requests>>

(* The gateway starts a service, or stops the one it has and replaces it.  *)
StartService(s) ==
  /\ start[s] = "none"
  /\ s = IF current = 0 THEN 1 ELSE current + 1
  /\ start' = [start EXCEPT ![s] = "load"]
  /\ timer' = [k \in Services |-> timer[k] /\ k # current]
  /\ current' = s
  /\ UNCHANGED <<now, disk, mem, tick, catchup, manual, crashes, requests>>

Crash ==
  /\ current # 0 /\ crashes < MaxCrashes
  /\ crashes' = crashes + 1
  /\ mem' = [s \in Services |-> NoStore]
  /\ timer' = [s \in Services |-> FALSE]
  /\ start' = [s \in Services |-> "none"]
  /\ tick' = [s \in Services |-> NoBatch]
  /\ catchup' = [s \in Services |-> NoCatchup]
  /\ manual' = [s \in Services |-> NoManual]
  /\ current' = 0
  /\ UNCHANGED <<now, disk, requests>>

TickSteps(s) ==
  \/ Fire(s) \/ Reserve(s) \/ ApplyOutcomes(s) \/ TickEnds(s)
  \/ \E j \in Jobs : RunDueJob(s, j)
  \/ \E status \in Results : DueJobEnds(s, status)

StartSteps(s) ==
  \/ StartLoads(s) \/ PlanCatchup(s) \/ ApplyCatchup(s) \/ StartFinishes(s)
  \/ \E j \in Jobs : RunCandidate(s, j)
  \/ \E status \in Results : CandidateEnds(s, status)

ManualSteps(s) ==
  \/ Preflight(s) \/ Prepare(s) \/ FinishManualRun(s)
  \/ \E status \in Results : ManualRunEnds(s, status)

UserSteps(s) ==
  \/ List(s)
  \/ \E j \in Jobs :
       \/ Add(s, j) \/ Remove(s, j)
       \/ \E p \in Patches : Update(s, j, p)
       \/ \E mode \in Modes : EnqueueRun(s, j, mode)

Step ==
  \/ \E s \in Services :
       TickSteps(s) \/ StartSteps(s) \/ ManualSteps(s) \/ UserSteps(s) \/ StartService(s)
  \/ Advance \/ Crash

(* The runs of a job, from its reservation until its result is applied. *)
Holds(b, j) == j \in b.todo \/ \E a \in b.active \cup b.done : a.job = j

Runs(j) ==
  {<<"tick", s>> : s \in {s \in Services : Holds(tick[s], j)}}
  \cup {<<"catchup", s>> : s \in {s \in Services : Holds(catchup[s], j)}}
  \cup {<<"manual", s>> : s \in {s \in Services :
         manual[s].phase \in {"run", "finish"} /\ manual[s].job = j}}

Replaced == Cardinality({s \in Services : start[s] # "none"}) > 1

Remember ==
  excused' = {j \in Jobs : /\ Runs(j)' # {}
                           /\ j \in excused \/ ~ disk'[j].enabled \/ Replaced'}

Next == Step /\ Remember

Spec == Init /\ [][Next]_vars

(* Timers fire, sections get the lock, a queued run gets its turn in the   *)
(* cron lane, and executions end, by their timeout if not by themselves.   *)
(* No more is assumed than that of the service in use.                     *)
Fairness == \A s \in Services :
  /\ WF_vars(s = current /\ TickSteps(s) /\ Remember)
  /\ WF_vars(s = current /\ StartSteps(s) /\ Remember)
  /\ WF_vars(s = current /\ ManualSteps(s) /\ Remember)

FairSpec == Spec /\ Fairness

-----------------------------------------------------------------------------
(* Properties. *)

JobRecords == [there : BOOLEAN, enabled : BOOLEAN, next : Nat, running : BOOLEAN,
               last : 0 .. MaxTime, status : {"none", "removed", "ok", "skipped", "error"},
               errors : 0 .. MaxAttempts + 1]
Stores == [Jobs -> JobRecords]
Started == [job : Jobs, start : 1 .. MaxTime]
Ended == [job : Jobs, start : 1 .. MaxTime, end : 1 .. MaxTime, status : Results]

TypeOK ==
  /\ now \in 1 .. MaxTime
  /\ disk \in Stores
  /\ mem \in [Services -> Stores \cup {NoStore}]
  /\ timer \in [Services -> BOOLEAN]
  /\ start \in [Services -> {"none", "load", "plan", "run", "finish", "up"}]
  /\ tick \in [Services -> [phase : {"idle", "reserve", "run", "end"}, todo : SUBSET Jobs,
                            active : SUBSET Started, done : SUBSET Ended, same : BOOLEAN]]
  /\ catchup \in [Services -> [todo : SUBSET Jobs, active : SUBSET Started, done : SUBSET Ended,
                               deferred : SUBSET (Jobs \X Nat), skip : SUBSET Jobs]]
  /\ manual \in [Services -> [phase : {"idle", "queued", "prepare", "run", "finish"}, job : Jobs \cup {0},
                              mode : Modes \cup {"none"}, at : 0 .. MaxTime,
                              status : Results \cup {"none"}, end : 0 .. MaxTime]]
  /\ current \in Services \cup {0}
  /\ crashes \in 0 .. MaxCrashes /\ requests \in 0 .. MaxRequests
  /\ excused \subseteq Jobs

(* The tick, the catch-up and manual runs never execute a job at the same  *)
(* time, unless it is disabled or removed or the service is replaced       *)
(* during a run: each of these forgets the marker the others look at.      *)
OneRunAtATime == \A j \in Jobs : j \in excused \/ Cardinality(Runs(j)) <= 1

(* A marker in the file, which keeps everybody from running the job, is    *)
(* that of a run whose result will clear it, once a start has cleared what *)
(* a crash has left.                                                       *)
MarkersAreHeld ==
  current # 0 /\ ~ Replaced /\ start[current] # "load" =>
    \A j \in Jobs : disk[j].running => Runs(j) # {}

(* A slot of an enabled job that has come and has not been run. *)
Owed(j) ==
  /\ disk[j].enabled /\ Due(disk[j], now) /\ disk[j].last < disk[j].next
  /\ current # 0 /\ ~ Replaced

(* The runs of the job whose result is not yet applied. *)
ResultsOf(j) == {run \in Runs(j) :
  CASE run[1] = "tick" -> \E o \in tick[run[2]].done : o.job = j
    [] run[1] = "catchup" -> \E o \in catchup[run[2]].done : o.job = j
    [] OTHER -> manual[run[2]].phase = "finish"}

(* What may move a slot: a result of the job itself, the user's update, a  *)
(* deferral at startup, and the recomputation of all jobs at the end of    *)
(* start and in add.                                                       *)
MayMove(j) ==
  \/ ResultsOf(j)' # ResultsOf(j)
  \/ \E s \in Services :
       \/ \E p \in Patches : Update(s, j, p)
       \/ \E k \in Jobs : Add(s, k)
       \/ start[s] = "run" /\ start'[s] = "finish" /\ \E d \in catchup[s].deferred : d[1] = j
       \/ start[s] = "finish" /\ start'[s] = "up"

(* Listing, ticks, the results of other jobs and manual runs never move a  *)
(* slot that is owed.                                                      *)
SlotsAreKept == [][\A j \in Jobs :
  Owed(j) /\ disk'[j].enabled /\ disk'[j].next # disk[j].next => MayMove(j)]_vars

(* The job has been there and is not any more. *)
Gone(j) == ~ disk[j].there /\ disk[j] # Unborn

(* The job is still there in the memory of s. *)
Stale(s, j) == mem[s] # NoStore /\ mem[s][j].there

(* The sections of s that save its memory without reading the file first:  *)
(* those of start after the first, the reservation of a manual run, and    *)
(* the user's operations.                                                  *)
SavesMemory(s) ==
  PlanCatchup(s) \/ ApplyCatchup(s) \/ StartFinishes(s) \/ Prepare(s) \/ UserSteps(s)

(* A job that is gone comes back to the file only in one way: on a reload, *)
(* a service that still has it in memory saves that memory, in the rest of *)
(* its start, in the reservation of a manual run or for the user.  No tick *)
(* and no result of a run, of whatever service, brings it back, nor any    *)
(* step of a service that knows of the removal.                            *)
OnlyStaleMemoryRevives == [][\A j \in Jobs :
  Gone(j) /\ disk'[j].there =>
    Replaced /\ \E s \in Services : Stale(s, j) /\ SavesMemory(s)]_vars

(* The scheduler never falls asleep: a slot that has come is run, or moved *)
(* by what may move it.                                                    *)
DueJobsAreServed == \A j \in Jobs : Owed(j) ~> ~ Owed(j)
=============================================================================

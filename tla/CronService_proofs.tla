-------------------------- MODULE CronService_proofs --------------------------
(***************************************************************************)
(* Proofs about the cron service, for all jobs, schedules, results, bounds *)
(* and numbers of services: the types, that a job does not run twice at a  *)
(* time, that a marker is that of a run, what may move an owed slot, and   *)
(* what may bring a removed job back.                                      *)
(*                                                                         *)
(* A job is reserved in the store, executed outside the lock and applied   *)
(* to a store that others have changed in the meantime.  What ties the     *)
(* three together is Kept: as long as no service has been replaced, a      *)
(* marker, on the disk or in memory, belongs to a run, a run that is not   *)
(* excused has both its markers, and memory agrees with the disk.          *)
(* Each action is shown to turn a job's records and runs as Turns allows,  *)
(* and ServiceStep draws from this that the invariant is kept.             *)
(***************************************************************************)
EXTENDS CronService, FiniteSetTheorems, TLAPS

LEMMA Product == \A a, b \in Nat : a * b \in Nat
OBVIOUS

LEMMA Quotient == \A a \in Nat : \A b \in Nat \ {0} : a \div b \in Nat
OBVIOUS

(* Whatever the schedule, a next run is a time. *)
LEMMA NextRunType ==
  ASSUME NEW j \in Jobs, NEW r \in JobRecords, NEW t \in Nat
  PROVE  NextRun(j, r, t) \in Nat
<1> DEFINE P == ScheduleOf[j].time
<1>1. P \in Nat \ {0} /\ ScheduleOf[j].kind \in {"at", "every", "cron"}
  BY CronAssumption
<1>2. r.last \in Nat
  BY DEF JobRecords
<1> HIDE DEF P
<1>3. t + P - 1 \in Nat
  BY <1>1
<1>4. (t + P - 1) \div P \in Nat /\ t \div P \in Nat
  BY <1>1, <1>3, Quotient
<1>5. Later(1, (t + P - 1) \div P) \in Nat /\ t \div P + 1 \in Nat
  BY <1>4 DEF Later
<1>6. P * Later(1, (t + P - 1) \div P) \in Nat /\ P * (t \div P + 1) \in Nat
  BY <1>1, <1>5, Product
<1> USE DEF P
<1>7. CASE ~ r.enabled
  BY <1>7 DEF NextRun
<1>8. CASE r.enabled /\ ScheduleOf[j].kind = "every"
  BY <1>1, <1>2, <1>6, <1>8 DEF NextRun
<1>9. CASE r.enabled /\ ScheduleOf[j].kind = "cron"
  BY <1>1, <1>6, <1>9 DEF NextRun
<1>10. CASE r.enabled /\ ScheduleOf[j].kind = "at"
  BY <1>1, <1>10 DEF NextRun
<1> QED
  BY <1>1, <1>7, <1>8, <1>9, <1>10

-----------------------------------------------------------------------------
(* What the operators on records and stores do. *)

(* A record of a job that is not there is blank enough. *)
TidyRecords == {r \in JobRecords : ~ r.there => ~ r.enabled /\ ~ r.running}
TidyStores == [Jobs -> TidyRecords]

(* A record is repaired: its slot may be another, its marker only goes if  *)
(* it is disabled.                                                         *)
Repaired(o, n) ==
  /\ n.there = o.there /\ n.enabled = o.enabled
  /\ n.running => o.running
  /\ o.enabled => n.running = o.running

LEMMA Blank ==
  /\ Unborn \in TidyRecords /\ Removed \in TidyRecords
  /\ Unborn.running = FALSE /\ Removed.running = FALSE
  /\ Unborn.enabled = FALSE /\ Removed.enabled = FALSE
  /\ Unborn.there = FALSE /\ Removed.there = FALSE
  /\ Unborn.next = 0 /\ Removed.next = 0
<1>1. MaxTime \in Nat /\ MaxAttempts \in Nat
  BY CronAssumption
<1>2. 0 \in 0 .. MaxTime /\ 0 \in 0 .. MaxAttempts + 1
  BY <1>1
<1> HIDE <1>1
<1> QED
  BY <1>2 DEF Unborn, Removed, TidyRecords, JobRecords

LEMMA Slotted ==
  ASSUME NEW r \in TidyRecords, NEW t \in Nat
  PROVE  /\ [r EXCEPT !.next = t] \in TidyRecords
         /\ Repaired(r, [r EXCEPT !.next = t])
         /\ [r EXCEPT !.next = t].next = t
BY DEF TidyRecords, JobRecords, Repaired

LEMMA Disabled ==
  ASSUME NEW r \in TidyRecords, ~ r.enabled
  PROVE  /\ [r EXCEPT !.next = 0, !.running = FALSE] \in TidyRecords
         /\ Repaired(r, [r EXCEPT !.next = 0, !.running = FALSE])
BY DEF TidyRecords, JobRecords, Repaired

LEMMA Marking ==
  ASSUME NEW r \in TidyRecords, NEW b \in BOOLEAN, b => r.there
  PROVE  /\ [r EXCEPT !.running = b] \in TidyRecords
         /\ [r EXCEPT !.running = b].there = r.there
         /\ [r EXCEPT !.running = b].enabled = r.enabled
         /\ [r EXCEPT !.running = b].next = r.next
         /\ [r EXCEPT !.running = b].running = b
BY DEF TidyRecords, JobRecords

(* recomputeNextRuns *)
LEMMA RecomputeKeeps ==
  ASSUME NEW store \in TidyStores, now \in Nat
  PROVE  /\ Recompute(store) \in TidyStores
         /\ \A j \in Jobs : Repaired(store[j], Recompute(store)[j])
<1>1. ASSUME NEW j \in Jobs
      PROVE  Recompute(store)[j] \in TidyRecords /\ Repaired(store[j], Recompute(store)[j])
  <2>1. store[j] \in TidyRecords /\ store[j] \in JobRecords
    BY DEF TidyStores, TidyRecords
  <2>2. NextRun(j, store[j], now) \in Nat
    BY <2>1, NextRunType
  <2> DEFINE r == store[j]
             n == Recompute(store)[j]
  <2>3. n = CASE ~ r.there -> r
             [] r.there /\ ~ r.enabled -> [r EXCEPT !.next = 0, !.running = FALSE]
             [] r.there /\ r.enabled /\ (r.next = 0 \/ Due(r, now)) ->
                  [r EXCEPT !.next = NextRun(j, r, now)]
             [] OTHER -> r
    BY DEF Recompute
  <2>4. r = store[j]
    OBVIOUS
  <2> HIDE DEF r, n
  <2>5. CASE r.there /\ ~ r.enabled
    BY <2>1, <2>3, <2>4, <2>5, Disabled DEF n, r
  <2>6. CASE r.there /\ r.enabled /\ (r.next = 0 \/ Due(r, now))
    <3>1. n = [r EXCEPT !.next = NextRun(j, r, now)]
      BY <2>3, <2>6
    <3> QED
      BY <2>1, <2>2, <2>4, <3>1, Slotted DEF n
  <2>7. CASE ~ r.there \/ ~ (r.enabled => r.next = 0 \/ Due(r, now))
    <3>1. n = r
      BY <2>3, <2>7
    <3> QED
      BY <2>1, <2>4, <3>1 DEF n, Repaired
  <2>8. r.there \in BOOLEAN /\ r.enabled \in BOOLEAN
    BY <2>1, <2>4 DEF JobRecords
  <2> QED
    BY <2>5, <2>6, <2>7, <2>8
<1>2. Recompute(store) = [j \in Jobs |-> Recompute(store)[j]]
  BY DEF Recompute
<1> QED
  BY <1>1, <1>2 DEF TidyStores

(* recomputeNextRunsForMaintenance: a slot that is owed stays. *)
LEMMA MaintenanceKeeps ==
  ASSUME NEW store \in TidyStores, now \in Nat, NEW expired \in BOOLEAN
  PROVE  /\ Maintenance(store, expired) \in TidyStores
         /\ \A j \in Jobs :
              LET r == store[j]
                  n == Maintenance(store, expired)[j]
              IN /\ Repaired(r, n)
                 /\ r.enabled /\ r.next # 0 /\ (expired => ~ r.last >= r.next) => n.next = r.next
<1>1. ASSUME NEW j \in Jobs
      PROVE  LET r == store[j]
                 n == Maintenance(store, expired)[j]
             IN /\ n \in TidyRecords /\ Repaired(r, n)
                /\ r.enabled /\ r.next # 0 /\ (expired => ~ r.last >= r.next) => n.next = r.next
  <2> DEFINE r == store[j]
             n == Maintenance(store, expired)[j]
             late == r.next = 0 \/ (expired /\ Due(r, now) /\ ~ r.running /\ r.last >= r.next)
  <2>1. r \in TidyRecords /\ r \in JobRecords
    BY DEF TidyStores, TidyRecords
  <2>2. NextRun(j, r, now) \in Nat
    BY <2>1, NextRunType
  <2>3. n = CASE ~ r.there -> r
             [] r.there /\ ~ r.enabled -> [r EXCEPT !.next = 0, !.running = FALSE]
             [] r.there /\ r.enabled /\ late -> [r EXCEPT !.next = NextRun(j, r, now)]
             [] OTHER -> r
    BY DEF Maintenance
  <2>4. late => r.next = 0 \/ (expired /\ r.last >= r.next)
    OBVIOUS
  <2> HIDE DEF r, n, late
  <2>5. CASE r.there /\ ~ r.enabled
    <3>1. n = [r EXCEPT !.next = 0, !.running = FALSE]
      BY <2>3, <2>5
    <3>2. n \in TidyRecords /\ Repaired(r, n)
      BY <2>1, <2>5, <3>1, Disabled
    <3> QED
      BY <2>5, <3>2 DEF r, n
  <2>6. CASE r.there /\ r.enabled /\ late
    <3>1. n = [r EXCEPT !.next = NextRun(j, r, now)]
      BY <2>3, <2>6
    <3>2. n \in TidyRecords /\ Repaired(r, n)
      BY <2>1, <2>2, <3>1, Slotted
    <3> QED
      BY <2>4, <2>6, <3>2 DEF r, n
  <2>7. CASE ~ r.there \/ ~ (r.enabled => late)
    <3>1. n = r
      BY <2>3, <2>7
    <3>2. n \in TidyRecords /\ Repaired(r, n)
      BY <2>1, <3>1 DEF Repaired
    <3> QED
      BY <3>1, <3>2 DEF r, n
  <2>8. r.there \in BOOLEAN /\ r.enabled \in BOOLEAN
    BY <2>1 DEF JobRecords
  <2> QED
    BY <2>5, <2>6, <2>7, <2>8
<1>2. Maintenance(store, expired) = [j \in Jobs |-> Maintenance(store, expired)[j]]
  BY DEF Maintenance
<1> QED
  BY <1>1, <1>2 DEF TidyStores

LEMMA MissedIs ==
  \A j \in Jobs, r \in TidyRecords : Missed(j, r) => r.there /\ r.enabled /\ ~ r.running
BY DEF Missed

LEMMA CreatedType ==
  ASSUME NEW j \in Jobs, NEW t \in Nat
  PROVE  Created(j, t) \in TidyRecords /\ Created(j, t).running = FALSE
<1> DEFINE r == [Unborn EXCEPT !.there = TRUE, !.enabled = TRUE]
<1>1. r \in TidyRecords /\ r \in JobRecords /\ r.running = FALSE
  BY Blank DEF TidyRecords, JobRecords
<1>2. Created(j, t) = [r EXCEPT !.next = NextRun(j, r, t)]
  BY DEF Created
<1> HIDE DEF r
<1>3. NextRun(j, r, t) \in Nat
  BY <1>1, NextRunType
<1>4. Repaired(r, [r EXCEPT !.next = NextRun(j, r, t)])
  BY <1>1, <1>3, Slotted
<1> QED
  BY <1>1, <1>2, <1>3, <1>4, Slotted DEF Repaired, TidyRecords, JobRecords

(* applyJobResult clears the marker. *)
Outcomes == [job : Jobs, start : 0 .. MaxTime, end : Nat, status : Results \cup {"none"}]

LEMMA AppliedEnds ==
  ASSUME NEW j \in Jobs, NEW r \in TidyRecords, NEW o \in Outcomes, r.there, NEW keep \in BOOLEAN
  PROVE  Applied(j, r, o, keep) \in TidyRecords /\ ~ Applied(j, r, o, keep).running
<1> DEFINE failed == o.status \in {"error", "fatal"}
           errs == IF failed THEN Sooner(r.errors + 1, MaxAttempts + 1) ELSE 0
           stat == IF failed THEN "error" ELSE o.status
           ran == [r EXCEPT !.running = FALSE, !.last = o.start, !.status = stat, !.errors = errs]
           base == IF keep /\ ScheduleOf[j].kind = "every" THEN [ran EXCEPT !.last = r.last] ELSE ran
           natural == NextRun(j, base, o.end)
<1>1. /\ MaxAttempts \in Nat /\ Backoff \in Nat /\ Results \subseteq {"ok", "skipped", "error", "fatal"}
      /\ ScheduleOf[j].kind \in {"at", "every", "cron"}
  BY CronAssumption
<1>2. /\ r \in JobRecords /\ r.errors \in 0 .. MaxAttempts + 1 /\ r.last \in 0 .. MaxTime
      /\ o.start \in 0 .. MaxTime /\ o.end \in Nat /\ o.status \in Results \cup {"none"}
  BY DEF TidyRecords, JobRecords, Outcomes
<1>3. errs \in 0 .. MaxAttempts + 1
  BY <1>1, <1>2 DEF Sooner
<1>4. stat \in {"none", "removed", "ok", "skipped", "error"}
  BY <1>1, <1>2
<1> HIDE DEF errs, stat
<1>5. /\ ran \in JobRecords /\ ran.running = FALSE /\ ran.there = r.there
      /\ ran.enabled = r.enabled /\ ran.errors = errs
  BY <1>2, <1>3, <1>4 DEF JobRecords
<1>6. [ran EXCEPT !.last = r.last] \in JobRecords
  BY <1>2, <1>5 DEF JobRecords
<1> HIDE DEF ran
<1>7. natural \in Nat
  BY <1>2, <1>5, <1>6, NextRunType
<1> DEFINE next1 == o.end + Backoff
           next2 == IF ~ r.enabled THEN 0
                    ELSE IF failed THEN Later(natural, o.end + Backoff) ELSE natural
<1>8. next1 \in Nat
  BY <1>1, <1>2
<1>9. next2 \in Nat
  BY <1>7, <1>8 DEF Later
<1>10. Applied(j, r, o, keep) \in
         {Removed, [ran EXCEPT !.next = next1], [ran EXCEPT !.enabled = FALSE, !.next = 0],
          [ran EXCEPT !.errors = 0, !.next = next2]}
  BY <1>1 DEF Applied, ran, errs, stat
<1> HIDE DEF next1, next2
<1>11. 0 \in 0 .. MaxAttempts + 1
  BY <1>1
<1>12. /\ [ran EXCEPT !.next = next1] \in TidyRecords
       /\ [ran EXCEPT !.next = next1].running = FALSE
  BY <1>5, <1>8 DEF JobRecords, TidyRecords
<1>13. /\ [ran EXCEPT !.enabled = FALSE, !.next = 0] \in TidyRecords
       /\ [ran EXCEPT !.enabled = FALSE, !.next = 0].running = FALSE
  BY <1>5 DEF JobRecords, TidyRecords
<1>14. /\ [ran EXCEPT !.errors = 0, !.next = next2] \in TidyRecords
       /\ [ran EXCEPT !.errors = 0, !.next = next2].running = FALSE
  BY <1>5, <1>9, <1>11 DEF JobRecords, TidyRecords
<1> QED
  BY <1>10, <1>12, <1>13, <1>14, Blank

(* The results of a batch go to the jobs they are of. *)
LEMMA ApplyAllEnds ==
  ASSUME NEW store \in TidyStores, NEW done \in SUBSET Ended
  PROVE  /\ ApplyAll(store, done) \in TidyStores
         /\ \A j \in Jobs :
              IF \E o \in done : o.job = j
              THEN ~ ApplyAll(store, done)[j].running
              ELSE ApplyAll(store, done)[j] = store[j]
<1>1. ASSUME NEW j \in Jobs
      PROVE  /\ ApplyAll(store, done)[j] \in TidyRecords
             /\ IF \E o \in done : o.job = j
                THEN ~ ApplyAll(store, done)[j].running
                ELSE ApplyAll(store, done)[j] = store[j]
  <2>1. store[j] \in TidyRecords /\ (~ store[j].there => ~ store[j].running)
    BY DEF TidyStores, TidyRecords
  <2>2. CASE store[j].there /\ \E o \in done : o.job = j
    <3> DEFINE o == CHOOSE o \in done : o.job = j
    <3>1. o \in done
      BY <2>2
    <3>2. ApplyAll(store, done)[j] = Applied(j, store[j], o, FALSE)
      BY <2>2 DEF ApplyAll
    <3> HIDE DEF o
    <3>3. o \in Ended
      BY <3>1
    <3>4. 0 .. MaxTime \in SUBSET Nat /\ 1 .. MaxTime \in SUBSET Nat /\ 1 .. MaxTime \subseteq 0 .. MaxTime
      BY CronAssumption
    <3>5. o \in Outcomes
      BY <3>3, <3>4 DEF Ended, Outcomes
    <3> QED
      BY <2>1, <2>2, <3>2, <3>5, AppliedEnds
  <2>3. CASE ~ (store[j].there /\ \E o \in done : o.job = j)
    <3>1. ApplyAll(store, done)[j] = store[j]
      BY <2>3 DEF ApplyAll
    <3> QED
      BY <2>1, <2>3, <3>1
  <2> QED
    BY <2>2, <2>3
<1>2. ApplyAll(store, done) = [j \in Jobs |-> ApplyAll(store, done)[j]]
  BY DEF ApplyAll
<1> QED
  BY <1>1, <1>2 DEF TidyStores

LEMMA PatchedType ==
  ASSUME NEW j \in Jobs, NEW r \in TidyRecords, r.there, NEW p \in Patches, now \in Nat
  PROVE  /\ Patched(j, r, p) \in TidyRecords /\ Patched(j, r, p).there = r.there
         /\ Patched(j, r, p).running => r.running
         /\ Patched(j, r, p).enabled => Patched(j, r, p).running = r.running
<1> DEFINE e == [r EXCEPT !.enabled = (p = "enable") \/ (@ /\ p # "disable")]
<1>1. e \in TidyRecords /\ e \in JobRecords /\ e.there = r.there /\ e.running = r.running
  BY DEF TidyRecords, JobRecords
<1>2. NextRun(j, e, now) \in Nat
  BY <1>1, NextRunType
<1>3. Patched(j, r, p) =
        CASE p = "other" -> IF e.enabled /\ e.next = 0 THEN [e EXCEPT !.next = NextRun(j, e, now)] ELSE e
          [] p # "other" /\ e.enabled -> [e EXCEPT !.next = NextRun(j, e, now)]
          [] OTHER -> [e EXCEPT !.next = 0, !.running = FALSE]
  BY DEF Patched
<1> HIDE DEF e
<1>4. e.enabled \in BOOLEAN
  BY <1>1 DEF JobRecords
<1>5. CASE e.enabled /\ (p # "other" \/ e.next = 0)
  <2>1. Patched(j, r, p) = [e EXCEPT !.next = NextRun(j, e, now)]
    BY <1>3, <1>5
  <2>2. Patched(j, r, p) \in TidyRecords /\ Repaired(e, Patched(j, r, p))
    BY <1>1, <1>2, <2>1, Slotted
  <2> QED
    BY <1>1, <1>5, <2>2 DEF Repaired
<1>6. CASE p = "other" /\ ~ (e.enabled /\ e.next = 0)
  <2>1. Patched(j, r, p) = e
    BY <1>3, <1>6
  <2> QED
    BY <1>1, <2>1
<1>7. CASE p # "other" /\ ~ e.enabled
  <2>1. Patched(j, r, p) = [e EXCEPT !.next = 0, !.running = FALSE]
    BY <1>3, <1>7
  <2>2. Patched(j, r, p) \in TidyRecords /\ Repaired(e, Patched(j, r, p))
    BY <1>1, <1>7, <2>1, Disabled
  <2> QED
    BY <1>1, <1>7, <2>2 DEF Repaired
<1> QED
  BY <1>4, <1>5, <1>6, <1>7
-----------------------------------------------------------------------------
(* The invariant. *)

StartPhases == {"none", "load", "plan", "run", "finish", "up"}
TickRecords == [phase : {"idle", "reserve", "run", "end"}, todo : SUBSET Jobs,
                active : SUBSET Started, done : SUBSET Ended, same : BOOLEAN]
CatchupRecords == [todo : SUBSET Jobs, active : SUBSET Started, done : SUBSET Ended,
                   deferred : SUBSET (Jobs \X Nat), skip : SUBSET Jobs]
ManualRecords == [phase : {"idle", "queued", "prepare", "run", "finish"}, job : Jobs \cup {0},
                  mode : Modes \cup {"none"}, at : 0 .. MaxTime,
                  status : Results \cup {"none"}, end : 0 .. MaxTime]

Empty(b) == b.todo = {} /\ b.active = {} /\ b.done = {}

(* A service before and after it has loaded the store; its batches hold    *)
(* jobs only while they run.                                               *)
Shaped(st, me, ti, tk, ca, ma) ==
  /\ st \in StartPhases /\ ti \in BOOLEAN
  /\ tk \in TickRecords /\ ca \in CatchupRecords /\ ma \in ManualRecords
  /\ st \in {"none", "load"} => me = NoStore /\ ~ ti /\ tk.phase = "idle" /\ ma.phase = "idle"
  /\ st \notin {"none", "load"} => me \in TidyStores
  /\ tk.phase # "run" => Empty(tk)
  /\ st # "run" => Empty(ca)
  /\ \A a, b \in ca.active : a = b
  /\ ma.phase # "idle" => ma.job \in Jobs

Fits(s) == Shaped(start[s], mem[s], timer[s], tick[s], catchup[s], manual[s])

Lives ==
  /\ current = 0 => \A s \in Services : start[s] = "none"
  /\ current # 0 => start[current] # "none"

(* No service has been replaced. *)
One == \A s, t \in Services : start[s] # "none" /\ start[t] # "none" => s = t

Ready(s) == start[s] \notin {"none", "load"}

Marked(r) == r.there /\ r.enabled /\ r.running

(* What holds of a job j that has the record d on the disk and m in        *)
(* memory and the runs R, where X are the jobs excused.                    *)
Kept(j, d, m, R, X) ==
  /\ d.running \/ m.running => R # {}
  /\ j \notin X /\ R # {} => Marked(d) /\ Marked(m)
  /\ m.there = d.there /\ m.enabled = d.enabled
  /\ d.enabled /\ d.next # 0 => m.next = d.next

Markers ==
  One => \A s \in Services : Ready(s) =>
    \A j \in Jobs : Kept(j, disk[j], mem[s][j], Runs(j), excused)

Alone == \A j \in Jobs \ excused : \A p, q \in Runs(j) : p = q

Covered == ~ One => \A j \in Jobs : Runs(j) # {} => j \in excused

Inv ==
  /\ TypeOK /\ disk \in TidyStores
  /\ \A s \in Services : Fits(s)
  /\ Lives /\ Markers /\ Alone /\ Covered
-----------------------------------------------------------------------------
(* Runs. *)

(* Runs(j), of explicit batches and manual runs. *)
Reserves(m, j) == m.phase \in {"run", "finish"} /\ m.job = j

RunsIn(t, c, m, j) ==
  {<<"tick", s>> : s \in {s \in Services : Holds(t[s], j)}}
  \cup {<<"catchup", s>> : s \in {s \in Services : Holds(c[s], j)}}
  \cup {<<"manual", s>> : s \in {s \in Services : Reserves(m[s], j)}}

LEMMA RunsAre ==
  ASSUME NEW j
  PROVE  /\ Runs(j) = RunsIn(tick, catchup, manual, j)
         /\ Runs(j)' = RunsIn(tick', catchup', manual', j)
BY DEF Runs, RunsIn, Reserves, Holds

LEMMA InRuns ==
  ASSUME NEW t, NEW c, NEW m, NEW j, NEW s \in Services
  PROVE  /\ <<"tick", s>> \in RunsIn(t, c, m, j) <=> Holds(t[s], j)
         /\ <<"catchup", s>> \in RunsIn(t, c, m, j) <=> Holds(c[s], j)
         /\ <<"manual", s>> \in RunsIn(t, c, m, j) <=> Reserves(m[s], j)
BY DEF RunsIn

(* The same in every service, the same runs. *)
LEMMA SameRuns ==
  ASSUME NEW t, NEW c, NEW m, NEW t2, NEW c2, NEW m2, NEW j,
         \A s \in Services : /\ Holds(t[s], j) <=> Holds(t2[s], j)
                             /\ Holds(c[s], j) <=> Holds(c2[s], j)
                             /\ Reserves(m[s], j) <=> Reserves(m2[s], j)
  PROVE  RunsIn(t2, c2, m2, j) = RunsIn(t, c, m, j)
<1>1. /\ {s \in Services : Holds(t[s], j)} = {s \in Services : Holds(t2[s], j)}
      /\ {s \in Services : Holds(c[s], j)} = {s \in Services : Holds(c2[s], j)}
      /\ {s \in Services : Reserves(m[s], j)} = {s \in Services : Reserves(m2[s], j)}
  OBVIOUS
<1> QED
  BY <1>1 DEF RunsIn

(* One service takes a job, or lets it go. *)
LEMMA TickRuns ==
  ASSUME NEW t, NEW c, NEW m, NEW t2, NEW j, NEW s \in Services,
         \A k \in Services : k # s => t2[k] = t[k]
  PROVE  /\ (Holds(t[s], j) <=> Holds(t2[s], j)) => RunsIn(t2, c, m, j) = RunsIn(t, c, m, j)
         /\ Holds(t2[s], j) => RunsIn(t2, c, m, j) = RunsIn(t, c, m, j) \cup {<<"tick", s>>}
         /\ ~ Holds(t2[s], j) => RunsIn(t2, c, m, j) = RunsIn(t, c, m, j) \ {<<"tick", s>>}
<1> DEFINE S == {k \in Services : Holds(t[k], j)}
           S2 == {k \in Services : Holds(t2[k], j)}
           Rest == {<<"catchup", k>> : k \in {k \in Services : Holds(c[k], j)}}
                   \cup {<<"manual", k>> : k \in {k \in Services : Reserves(m[k], j)}}
<1>1. /\ RunsIn(t, c, m, j) = {<<"tick", k>> : k \in S} \cup Rest
      /\ RunsIn(t2, c, m, j) = {<<"tick", k>> : k \in S2} \cup Rest
  BY DEF RunsIn
<1>2. /\ Holds(t2[s], j) => S2 = S \cup {s}
      /\ ~ Holds(t2[s], j) => S2 = S \ {s}
      /\ (Holds(t[s], j) <=> Holds(t2[s], j)) => S2 = S
  OBVIOUS
<1>3. <<"tick", s>> \notin Rest
  OBVIOUS
<1> HIDE DEF S, S2, Rest
<1> QED
  BY <1>1, <1>2, <1>3

LEMMA CatchupRuns ==
  ASSUME NEW t, NEW c, NEW m, NEW c2, NEW j, NEW s \in Services,
         \A k \in Services : k # s => c2[k] = c[k]
  PROVE  /\ (Holds(c[s], j) <=> Holds(c2[s], j)) => RunsIn(t, c2, m, j) = RunsIn(t, c, m, j)
         /\ Holds(c2[s], j) => RunsIn(t, c2, m, j) = RunsIn(t, c, m, j) \cup {<<"catchup", s>>}
         /\ ~ Holds(c2[s], j) => RunsIn(t, c2, m, j) = RunsIn(t, c, m, j) \ {<<"catchup", s>>}
<1> DEFINE S == {k \in Services : Holds(c[k], j)}
           S2 == {k \in Services : Holds(c2[k], j)}
           Rest == {<<"tick", k>> : k \in {k \in Services : Holds(t[k], j)}}
                   \cup {<<"manual", k>> : k \in {k \in Services : Reserves(m[k], j)}}
<1>1. /\ RunsIn(t, c, m, j) = {<<"catchup", k>> : k \in S} \cup Rest
      /\ RunsIn(t, c2, m, j) = {<<"catchup", k>> : k \in S2} \cup Rest
  BY DEF RunsIn
<1>2. /\ Holds(c2[s], j) => S2 = S \cup {s}
      /\ ~ Holds(c2[s], j) => S2 = S \ {s}
      /\ (Holds(c[s], j) <=> Holds(c2[s], j)) => S2 = S
  OBVIOUS
<1>3. <<"catchup", s>> \notin Rest
  OBVIOUS
<1> HIDE DEF S, S2, Rest
<1> QED
  BY <1>1, <1>2, <1>3

LEMMA ManualRuns ==
  ASSUME NEW t, NEW c, NEW m, NEW m2, NEW j, NEW s \in Services,
         \A k \in Services : k # s => m2[k] = m[k]
  PROVE  /\ (Reserves(m[s], j) <=> Reserves(m2[s], j)) => RunsIn(t, c, m2, j) = RunsIn(t, c, m, j)
         /\ Reserves(m2[s], j) => RunsIn(t, c, m2, j) = RunsIn(t, c, m, j) \cup {<<"manual", s>>}
         /\ ~ Reserves(m2[s], j) => RunsIn(t, c, m2, j) = RunsIn(t, c, m, j) \ {<<"manual", s>>}
<1> DEFINE S == {k \in Services : Reserves(m[k], j)}
           S2 == {k \in Services : Reserves(m2[k], j)}
           Rest == {<<"tick", k>> : k \in {k \in Services : Holds(t[k], j)}}
                   \cup {<<"catchup", k>> : k \in {k \in Services : Holds(c[k], j)}}
<1>1. /\ RunsIn(t, c, m, j) = {<<"manual", k>> : k \in S} \cup Rest
      /\ RunsIn(t, c, m2, j) = {<<"manual", k>> : k \in S2} \cup Rest
  BY DEF RunsIn
<1>2. /\ Reserves(m2[s], j) => S2 = S \cup {s}
      /\ ~ Reserves(m2[s], j) => S2 = S \ {s}
      /\ (Reserves(m[s], j) <=> Reserves(m2[s], j)) => S2 = S
  OBVIOUS
<1>3. <<"manual", s>> \notin Rest
  OBVIOUS
<1> HIDE DEF S, S2, Rest
<1> QED
  BY <1>1, <1>2, <1>3

(* A result that is applied changes the results of its job. *)
LEMMA ResultGone ==
  ASSUME NEW j, NEW p \in ResultsOf(j), p \notin Runs(j)'
  PROVE  ResultsOf(j)' # ResultsOf(j)
<1>1. p \notin ResultsOf(j)'
  BY DEF ResultsOf
<1> QED
  BY <1>1

(* Replaced is the negation of One. *)
LEMMA OneOrReplaced ==
  (Replaced <=> ~ One) /\ (Replaced' <=> ~ One')
<1> DEFINE Up(f) == {s \in Services : f[s] # "none"}
           Single(f) == \A s, t \in Services : f[s] # "none" /\ f[t] # "none" => s = t
<1>1. ASSUME NEW f
      PROVE  Cardinality(Up(f)) > 1 <=> ~ Single(f)
  <2>1. MaxServices \in Int /\ 1 \in Int
    BY CronAssumption
  <2>2. IsFiniteSet(Services)
    BY <2>1, FS_Interval DEF Services
  <2>3. IsFiniteSet(Up(f)) /\ Cardinality(Up(f)) \in Nat
    BY <2>2, FS_Subset, FS_CardinalityType
  <2>4. CASE Single(f)
    <3>1. Up(f) = {} \/ \E s \in Services : Up(f) = {s}
      BY <2>4
    <3>2. Cardinality(Up(f)) \in {0, 1}
      BY <3>1, FS_EmptySet, FS_Singleton
    <3> QED
      BY <2>4, <3>2
  <2>5. CASE ~ Single(f)
    <3>1. PICK s, t \in Up(f) : s # t
      BY <2>5
    <3> HIDE DEF Up
    <3>2. Cardinality(Up(f)) # 0 /\ Cardinality(Up(f)) # 1
      BY <2>3, <3>1, FS_EmptySet, FS_Singleton
    <3> QED
      BY <2>3, <2>5, <3>2
  <2> QED
    BY <2>4, <2>5
<1>2. /\ Replaced = (Cardinality(Up(start)) > 1) /\ Replaced' = (Cardinality(Up(start')) > 1)
      /\ One = Single(start) /\ One' = Single(start')
  BY DEF Replaced, One
<1> HIDE DEF Up, Single
<1> QED
  BY <1>1, <1>2
-----------------------------------------------------------------------------
(* Steps of a service. *)

Keeps(o, n, R) ==
  /\ n.running => o.running \/ R # {}
  /\ Marked(o) /\ n.enabled => Marked(n)

(* What a step may do to the two records and the runs of a job.            *)
Turns(d, m, R, d2, m2, R2) ==
  /\ m2.there = d2.there /\ m2.enabled = d2.enabled
  /\ d2.enabled /\ d2.next # 0 => m2.next = d2.next
  /\ \/ /\ R2 = R
        /\ Keeps(d, d2, R) \/ Keeps(m, d2, R)
        /\ Keeps(d, m2, R) \/ Keeps(m, m2, R)
     \/ /\ \E p : R2 = R \cup {p}
        /\ ~ d.running \/ ~ m.running
        /\ d2.there /\ d2.running /\ m2.running
     \/ /\ \E p \in R : R2 = R \ {p}
        /\ ~ d2.running /\ ~ m2.running

LEMMA StillKept ==
  ASSUME NEW j, NEW d \in JobRecords, NEW m \in JobRecords, NEW R, NEW X,
         NEW d2 \in JobRecords, NEW m2 \in JobRecords, NEW R2, NEW X2,
         Kept(j, d, m, R, X), j \notin X => \A p, q \in R : p = q,
         Turns(d, m, R, d2, m2, R2),
         j \in X2 <=> (R2 # {} /\ (j \in X \/ ~ d2.enabled))
  PROVE  Kept(j, d2, m2, R2, X2) /\ (j \notin X2 => \A p, q \in R2 : p = q)
<1> USE DEF Kept, Marked, JobRecords
<1>1. CASE /\ R2 = R
           /\ Keeps(d, d2, R) \/ Keeps(m, d2, R)
           /\ Keeps(d, m2, R) \/ Keeps(m, m2, R)
  <2>1. d2.running \/ m2.running => R2 # {}
    BY <1>1 DEF Keeps
  <2>2. ASSUME j \notin X2, R2 # {}
        PROVE  Marked(d2) /\ Marked(m2)
    <3>1. j \notin X /\ d2.enabled /\ m2.enabled /\ R # {}
      BY <1>1, <2>2 DEF Turns
    <3>2. Marked(d) /\ Marked(m)
      BY <3>1
    <3> QED
      BY <1>1, <3>1, <3>2 DEF Keeps
  <2>3. j \notin X2 => \A p, q \in R2 : p = q
    BY <1>1
  <2> QED
    BY <2>1, <2>2, <2>3 DEF Turns
<1>2. CASE /\ \E p : R2 = R \cup {p}
           /\ ~ d.running \/ ~ m.running
           /\ d2.there /\ d2.running /\ m2.running
  <2>1. PICK p : R2 = R \cup {p}
    BY <1>2
  <2>2. R2 # {}
    BY <2>1
  <2>3. ASSUME j \notin X2
        PROVE  R = {} /\ d2.enabled
    BY <1>2, <2>2, <2>3
  <2> QED
    BY <1>2, <2>1, <2>2, <2>3 DEF Turns
<1>3. CASE /\ \E p \in R : R2 = R \ {p}
           /\ ~ d2.running /\ ~ m2.running
  <2>1. PICK p \in R : R2 = R \ {p}
    BY <1>3
  <2>2. j \notin X => R2 = {}
    BY <2>1
  <2> QED
    BY <1>3, <2>1, <2>2 DEF Turns
<1> QED
  BY <1>1, <1>2, <1>3 DEF Turns

(* The step is one of service s. *)
Apart(s) ==
  /\ start' = [start EXCEPT ![s] = start'[s]]
  /\ mem' = [mem EXCEPT ![s] = mem'[s]]
  /\ timer' = [timer EXCEPT ![s] = timer'[s]]
  /\ tick' = [tick EXCEPT ![s] = tick'[s]]
  /\ catchup' = [catchup EXCEPT ![s] = catchup'[s]]
  /\ manual' = [manual EXCEPT ![s] = manual'[s]]

Works(s) ==
  /\ Apart(s) /\ Fits(s)' /\ disk' \in TidyStores
  /\ now' = now /\ current' = current /\ crashes' = crashes /\ requests' \in 0 .. MaxRequests
  /\ start[s] # "none" /\ Ready(s)'

JobTurns(s, j) == Turns(disk[j], mem[s][j], Runs(j), disk'[j], mem'[s][j], Runs(j)')

(* A slot that has not been run stays, unless something may move it.       *)
SlotStays(j) ==
  /\ disk[j].enabled /\ disk[j].next # 0 /\ ~ disk[j].last >= disk[j].next
  /\ disk'[j].enabled /\ disk'[j].next # disk[j].next
  => MayMove(j)

Goes(s) ==
  /\ Ready(s) /\ Works(s)
  /\ One => \A j \in Jobs : JobTurns(s, j) /\ SlotStays(j)

LEMMA ServiceStep ==
  ASSUME Inv, NEW s \in Services, Works(s), Remember,
         One /\ Ready(s) => \A j \in Jobs : JobTurns(s, j),
         One /\ ~ Ready(s) => \A j \in Jobs : Runs(j)' = {} /\ Kept(j, disk'[j], mem'[s][j], {}, {})
  PROVE  Inv'
<1>1. \A k \in Services : k # s => /\ start'[k] = start[k] /\ mem'[k] = mem[k] /\ timer'[k] = timer[k]
                                   /\ tick'[k] = tick[k] /\ catchup'[k] = catchup[k] /\ manual'[k] = manual[k]
  BY DEF Works, Apart, Inv, TypeOK
<1>2. \A k \in Services : Fits(k)'
  BY <1>1 DEF Works, Inv, Fits
<1>3. TidyStores \subseteq Stores
  BY DEF TidyStores, Stores, TidyRecords
<1>4. TypeOK'
  <2>1. start'[s] \in StartPhases /\ start' \in [Services -> StartPhases]
    BY DEF Works, Apart, Inv, TypeOK, StartPhases, Fits, Shaped
  <2>2. mem'[s] \in Stores \cup {NoStore} /\ mem' \in [Services -> Stores \cup {NoStore}]
    <3>1. mem'[s] \in Stores \cup {NoStore}
      BY <1>3 DEF Works, Fits, Shaped
    <3> QED
      BY <3>1 DEF Works, Apart, Inv, TypeOK
  <2>3. timer' \in [Services -> BOOLEAN]
    BY DEF Works, Apart, Inv, TypeOK, Fits, Shaped
  <2>4. tick' \in [Services -> TickRecords]
    BY DEF Works, Apart, Inv, TypeOK, Fits, Shaped, TickRecords
  <2>5. catchup' \in [Services -> CatchupRecords]
    BY DEF Works, Apart, Inv, TypeOK, Fits, Shaped, CatchupRecords
  <2>6. manual' \in [Services -> ManualRecords]
    BY DEF Works, Apart, Inv, TypeOK, Fits, Shaped, ManualRecords
  <2>7. excused' \subseteq Jobs
    BY DEF Remember
  <2>8. disk' \in Stores
    BY <1>3 DEF Works
  <2> QED
    BY <2>1, <2>2, <2>3, <2>4, <2>5, <2>6, <2>7, <2>8
    DEF Works, Inv, TypeOK, StartPhases, TickRecords, CatchupRecords, ManualRecords
<1>5. \A k \in Services : start'[k] = "none" <=> start[k] = "none"
  BY <1>1 DEF Works, Ready
<1>6. Lives'
  <2>1. current' = current /\ (current # 0 => current \in Services)
    BY DEF Works, Inv, TypeOK
  <2> QED
    BY <1>5, <2>1 DEF Inv, Lives
<1>7. One' <=> One
  BY <1>5 DEF One
<1>8. \A j \in Jobs : j \in excused' <=> (Runs(j)' # {} /\ (j \in excused \/ ~ disk'[j].enabled \/ ~ One'))
  BY OneOrReplaced DEF Remember
<1>9. ASSUME One, NEW j \in Jobs
      PROVE  /\ Kept(j, disk'[j], mem'[s][j], Runs(j)', excused')
             /\ j \notin excused' => \A p, q \in Runs(j)' : p = q
  <2>1. CASE Ready(s)
    <3>1. mem[s] \in TidyStores /\ mem'[s] \in TidyStores /\ disk \in TidyStores /\ disk' \in TidyStores
      BY <2>1 DEF Works, Inv, Fits, Shaped, Ready
    <3>2. /\ disk[j] \in JobRecords /\ mem[s][j] \in JobRecords
          /\ disk'[j] \in JobRecords /\ mem'[s][j] \in JobRecords
      BY <3>1 DEF TidyStores, TidyRecords
    <3>3. Kept(j, disk[j], mem[s][j], Runs(j), excused)
      BY <1>9, <2>1 DEF Inv, Markers
    <3>4. j \notin excused => \A p, q \in Runs(j) : p = q
      BY DEF Inv, Alone
    <3>5. Turns(disk[j], mem[s][j], Runs(j), disk'[j], mem'[s][j], Runs(j)')
      BY <1>9, <2>1 DEF JobTurns
    <3>6. (j \in excused') <=> (Runs(j)' # {} /\ ((j \in excused) \/ ~ disk'[j].enabled))
      BY <1>7, <1>8, <1>9
    <3>7. ASSUME NEW X, NEW X2, Kept(j, disk[j], mem[s][j], Runs(j), X),
                 j \notin X => \A p, q \in Runs(j) : p = q,
                 j \in X2 <=> (Runs(j)' # {} /\ (j \in X \/ ~ disk'[j].enabled))
          PROVE  /\ Kept(j, disk'[j], mem'[s][j], Runs(j)', X2)
                 /\ j \notin X2 => \A p, q \in Runs(j)' : p = q
      BY <3>2, <3>5, <3>7, StillKept
    <3> QED
      BY <3>3, <3>4, <3>6, <3>7
  <2>2. CASE ~ Ready(s)
    <3>1. Runs(j)' = {} /\ Kept(j, disk'[j], mem'[s][j], {}, {})
      BY <1>9, <2>2
    <3>2. j \notin excused'
      BY <1>8, <3>1
    <3> QED
      BY <3>1, <3>2 DEF Kept
  <2> QED
    BY <2>1, <2>2
<1>10. Markers'
  <2> SUFFICES ASSUME One', NEW t \in Services, Ready(t)', NEW j \in Jobs
               PROVE  Kept(j, disk[j], mem[t][j], Runs(j), excused)'
    BY DEF Markers
  <2>1. t = s
    BY <1>7 DEF Works, Ready, One
  <2> QED
    BY <1>7, <1>9, <2>1
<1>11. Alone' /\ Covered'
  BY <1>7, <1>8, <1>9 DEF Alone, Covered
<1> QED
  BY <1>2, <1>4, <1>6, <1>10, <1>11 DEF Inv, Works

(* What the invariant says of a service that has loaded the store. *)
LEMMA Known ==
  ASSUME Inv, NEW s \in Services
  PROVE  /\ now \in 1 .. MaxTime /\ now \in Nat /\ now \in 0 .. MaxTime
         /\ disk \in TidyStores /\ \A j \in Jobs : disk[j] \in TidyRecords
         /\ start \in [Services -> StartPhases] /\ mem \in [Services -> Stores \cup {NoStore}]
         /\ timer \in [Services -> BOOLEAN] /\ tick \in [Services -> TickRecords]
         /\ catchup \in [Services -> CatchupRecords] /\ manual \in [Services -> ManualRecords]
         /\ requests \in 0 .. MaxRequests
         /\ Fits(s)
         /\ Ready(s) => mem[s] \in TidyStores /\ \A j \in Jobs : mem[s][j] \in TidyRecords
         /\ timer[s] \/ mem[s] # NoStore \/ tick[s].phase # "idle" \/ manual[s].phase # "idle" => Ready(s)
         /\ Ready(s) /\ One => \A j \in Jobs : Kept(j, disk[j], mem[s][j], Runs(j), excused)
         /\ start' = start => start' = [start EXCEPT ![s] = start'[s]]
         /\ mem' = mem => mem' = [mem EXCEPT ![s] = mem'[s]]
         /\ timer' = timer => timer' = [timer EXCEPT ![s] = timer'[s]]
         /\ tick' = tick => tick' = [tick EXCEPT ![s] = tick'[s]]
         /\ catchup' = catchup => catchup' = [catchup EXCEPT ![s] = catchup'[s]]
         /\ manual' = manual => manual' = [manual EXCEPT ![s] = manual'[s]]
<1>1. TypeOK /\ disk \in TidyStores /\ Fits(s)
  BY DEF Inv
<1>2. /\ start \in [Services -> StartPhases] /\ mem \in [Services -> Stores \cup {NoStore}]
      /\ timer \in [Services -> BOOLEAN] /\ tick \in [Services -> TickRecords]
      /\ catchup \in [Services -> CatchupRecords] /\ manual \in [Services -> ManualRecords]
      /\ requests \in 0 .. MaxRequests
  BY <1>1 DEF TypeOK, StartPhases, TickRecords, CatchupRecords, ManualRecords
<1>3. now \in 1 .. MaxTime /\ now \in Nat /\ now \in 0 .. MaxTime
  BY <1>1, CronAssumption DEF TypeOK
<1>4. \A j \in Jobs : disk[j] \in TidyRecords
  BY <1>1 DEF TidyStores
<1>5. Ready(s) => mem[s] \in TidyStores /\ \A j \in Jobs : mem[s][j] \in TidyRecords
  BY <1>1 DEF Fits, Shaped, Ready, TidyStores
<1>6. timer[s] \/ mem[s] # NoStore \/ tick[s].phase # "idle" \/ manual[s].phase # "idle" => Ready(s)
  BY <1>1 DEF Fits, Shaped, Ready
<1>7. Ready(s) /\ One => \A j \in Jobs : Kept(j, disk[j], mem[s][j], Runs(j), excused)
  BY DEF Inv, Markers
<1>8. /\ start = [start EXCEPT ![s] = start[s]] /\ mem = [mem EXCEPT ![s] = mem[s]]
      /\ timer = [timer EXCEPT ![s] = timer[s]] /\ tick = [tick EXCEPT ![s] = tick[s]]
      /\ catchup = [catchup EXCEPT ![s] = catchup[s]] /\ manual = [manual EXCEPT ![s] = manual[s]]
  BY <1>2
<1> QED
  BY <1>1, <1>2, <1>3, <1>4, <1>5, <1>6, <1>7, <1>8

(* Nothing but the runs in progress changes, and no run's job. *)
LEMMA StoreUntouched ==
  ASSUME Inv, NEW s \in Services, One, Ready(s), UNCHANGED <<disk, mem>>, NEW j \in Jobs, Runs(j)' = Runs(j)
  PROVE  JobTurns(s, j) /\ SlotStays(j)
<1>1. Kept(j, disk[j], mem[s][j], Runs(j), excused)
  BY Known
<1> QED
  BY <1>1 DEF JobTurns, Turns, Keeps, Kept, SlotStays

(* Runs of a step that touches the batch, the catch-up or the manual run   *)
(* of one service.                                                         *)
LEMMA TickTurns ==
  ASSUME NEW j, NEW s \in Services, UNCHANGED <<catchup, manual>>,
         \A k \in Services : k # s => tick'[k] = tick[k]
  PROVE  /\ (Holds(tick[s], j) <=> Holds(tick'[s], j)) => Runs(j)' = Runs(j)
         /\ Holds(tick'[s], j) => Runs(j)' = Runs(j) \cup {<<"tick", s>>}
         /\ ~ Holds(tick'[s], j) => Runs(j)' = Runs(j) \ {<<"tick", s>>}
         /\ <<"tick", s>> \in Runs(j) <=> Holds(tick[s], j)
<1>1. Runs(j) = RunsIn(tick, catchup, manual, j) /\ Runs(j)' = RunsIn(tick', catchup, manual, j)
  BY RunsAre
<1>2. ASSUME NEW t2, \A k \in Services : k # s => t2[k] = tick[k]
      PROVE  /\ (Holds(tick[s], j) <=> Holds(t2[s], j)) => RunsIn(t2, catchup, manual, j) = RunsIn(tick, catchup, manual, j)
             /\ Holds(t2[s], j) => RunsIn(t2, catchup, manual, j) = RunsIn(tick, catchup, manual, j) \cup {<<"tick", s>>}
             /\ ~ Holds(t2[s], j) => RunsIn(t2, catchup, manual, j) = RunsIn(tick, catchup, manual, j) \ {<<"tick", s>>}
  BY <1>2, TickRuns
<1> QED
  BY <1>1, <1>2, InRuns

LEMMA CatchupTurns ==
  ASSUME NEW j, NEW s \in Services, UNCHANGED <<tick, manual>>,
         \A k \in Services : k # s => catchup'[k] = catchup[k]
  PROVE  /\ (Holds(catchup[s], j) <=> Holds(catchup'[s], j)) => Runs(j)' = Runs(j)
         /\ Holds(catchup'[s], j) => Runs(j)' = Runs(j) \cup {<<"catchup", s>>}
         /\ ~ Holds(catchup'[s], j) => Runs(j)' = Runs(j) \ {<<"catchup", s>>}
         /\ <<"catchup", s>> \in Runs(j) <=> Holds(catchup[s], j)
<1>1. Runs(j) = RunsIn(tick, catchup, manual, j) /\ Runs(j)' = RunsIn(tick, catchup', manual, j)
  BY RunsAre
<1>2. ASSUME NEW c2, \A k \in Services : k # s => c2[k] = catchup[k]
      PROVE  /\ (Holds(catchup[s], j) <=> Holds(c2[s], j)) => RunsIn(tick, c2, manual, j) = RunsIn(tick, catchup, manual, j)
             /\ Holds(c2[s], j) => RunsIn(tick, c2, manual, j) = RunsIn(tick, catchup, manual, j) \cup {<<"catchup", s>>}
             /\ ~ Holds(c2[s], j) => RunsIn(tick, c2, manual, j) = RunsIn(tick, catchup, manual, j) \ {<<"catchup", s>>}
  BY <1>2, CatchupRuns
<1> QED
  BY <1>1, <1>2, InRuns

LEMMA ManualTurns ==
  ASSUME NEW j, NEW s \in Services, UNCHANGED catchup,
         \A k \in Services : Holds(tick[k], j) <=> Holds(tick'[k], j),
         \A k \in Services : k # s => manual'[k] = manual[k]
  PROVE  /\ (Reserves(manual[s], j) <=> Reserves(manual'[s], j)) => Runs(j)' = Runs(j)
         /\ Reserves(manual'[s], j) => Runs(j)' = Runs(j) \cup {<<"manual", s>>}
         /\ ~ Reserves(manual'[s], j) => Runs(j)' = Runs(j) \ {<<"manual", s>>}
         /\ <<"manual", s>> \in Runs(j) <=> Reserves(manual[s], j)
<1>1. Runs(j) = RunsIn(tick, catchup, manual, j) /\ Runs(j)' = RunsIn(tick', catchup, manual', j)
  BY RunsAre
<1>2. ASSUME NEW t2, \A k \in Services : Holds(tick[k], j) <=> Holds(t2[k], j), NEW m2
      PROVE  RunsIn(t2, catchup, m2, j) = RunsIn(tick, catchup, m2, j)
  BY <1>2, SameRuns
<1>3. ASSUME NEW m2, \A k \in Services : k # s => m2[k] = manual[k]
      PROVE  /\ (Reserves(manual[s], j) <=> Reserves(m2[s], j)) => RunsIn(tick, catchup, m2, j) = RunsIn(tick, catchup, manual, j)
             /\ Reserves(m2[s], j) => RunsIn(tick, catchup, m2, j) = RunsIn(tick, catchup, manual, j) \cup {<<"manual", s>>}
             /\ ~ Reserves(m2[s], j) => RunsIn(tick, catchup, m2, j) = RunsIn(tick, catchup, manual, j) \ {<<"manual", s>>}
  BY <1>3, ManualRuns
<1>4. RunsIn(tick', catchup, manual', j) = RunsIn(tick, catchup, manual', j)
  BY <1>2
<1> QED
  BY <1>1, <1>3, <1>4, InRuns
-----------------------------------------------------------------------------
(* The tick. *)

LEMMA FireStep ==
  ASSUME Inv, NEW s \in Services, Fire(s)
  PROVE  Goes(s)
<1> DEFINE b == [NoBatch EXCEPT !.phase = "reserve"]
<1>1. Ready(s) /\ tick[s].phase = "idle" /\ UNCHANGED <<now, disk, mem, timer, start, catchup, manual, current, crashes, requests>>
  BY Known DEF Fire
<1>2. tick' = [tick EXCEPT ![s] = b]
  BY DEF Fire
<1>3. b \in TickRecords /\ b.phase = "reserve" /\ Empty(b)
  BY DEF NoBatch, TickRecords, Empty
<1> HIDE DEF b
<1>4. tick'[s] = b /\ \A k \in Services : k # s => tick'[k] = tick[k]
  BY <1>2, Known
<1>5. Apart(s) /\ start'[s] = start[s] /\ mem'[s] = mem[s] /\ timer'[s] = timer[s]
      /\ catchup'[s] = catchup[s] /\ manual'[s] = manual[s]
  BY <1>1, <1>2, <1>4, Known DEF Apart
<1>6. Fits(s)'
  BY <1>1, <1>3, <1>4, <1>5, Known DEF Fits, Shaped, Ready
<1>7. Works(s)
  BY <1>1, <1>5, <1>6, Known DEF Works, Ready
<1>8. ASSUME One, NEW j \in Jobs
      PROVE  JobTurns(s, j) /\ SlotStays(j)
  <2>1. Empty(tick[s])
    BY <1>1, Known DEF Fits, Shaped
  <2>2. ~ Holds(tick[s], j) /\ ~ Holds(b, j)
    BY <1>3, <2>1 DEF Holds, Empty
  <2>4. Runs(j)' = Runs(j)
    BY <1>1, <1>4, <2>2, TickTurns
  <2> QED
    BY <1>1, <1>8, <2>4, StoreUntouched
<1> QED
  BY <1>1, <1>7, <1>8 DEF Goes

LEMMA ReserveStep ==
  ASSUME Inv, NEW s \in Services, Reserve(s)
  PROVE  Goes(s)
<1> DEFINE due == {j \in Jobs : Runnable(disk[j])}
           repaired == Maintenance(disk, TRUE)
           reserved == [j \in Jobs |-> [disk[j] EXCEPT !.running = @ \/ j \in due]]
           store == IF due = {} THEN repaired ELSE reserved
           b == IF due = {} THEN [tick[s] EXCEPT !.phase = "end"]
                ELSE [NoBatch EXCEPT !.phase = "run", !.todo = due, !.same = TRUE]
<1>1. Ready(s) /\ tick[s].phase = "reserve" /\ UNCHANGED <<now, timer, start, catchup, manual, current, crashes, requests>>
  BY Known DEF Reserve
<1>2. mem' = [mem EXCEPT ![s] = store] /\ disk' = store /\ tick' = [tick EXCEPT ![s] = b]
  BY DEF Reserve, Section
<1>3. Empty(tick[s]) /\ tick[s] \in TickRecords
  BY <1>1, Known DEF Fits, Shaped
<1>4. /\ b \in TickRecords /\ (b.phase # "run" => Empty(b)) /\ b.phase # "idle"
      /\ \A j \in Jobs : Holds(b, j) <=> j \in due
  <2>1. CASE due = {}
    BY <1>1, <1>3, <2>1 DEF TickRecords, Empty, Holds
  <2>2. CASE due # {}
    <3>1. b = [NoBatch EXCEPT !.phase = "run", !.todo = due, !.same = TRUE]
      BY <2>2
    <3>2. due \in SUBSET Jobs
      OBVIOUS
    <3> HIDE DEF b, due
    <3> QED
      BY <3>1, <3>2 DEF NoBatch, TickRecords, Holds
  <2> QED
    BY <2>1, <2>2
<1>5. repaired \in TidyStores
      /\ \A j \in Jobs : Repaired(disk[j], repaired[j])
                         /\ (disk[j].enabled /\ disk[j].next # 0 /\ ~ disk[j].last >= disk[j].next
                             => repaired[j].next = disk[j].next)
  BY Known, MaintenanceKeeps
<1>6. \A j \in Jobs : reserved[j] \in TidyRecords
        /\ reserved[j].there = disk[j].there /\ reserved[j].enabled = disk[j].enabled
        /\ reserved[j].next = disk[j].next
        /\ reserved[j].running = (disk[j].running \/ j \in due)
  <2> TAKE j \in Jobs
  <2> DEFINE m == disk[j].running \/ j \in due
  <2>1. disk[j] \in TidyRecords /\ m \in BOOLEAN
    BY Known
  <2>2. m => disk[j].there
    BY <2>1 DEF TidyRecords, Runnable
  <2>3. reserved[j] = [disk[j] EXCEPT !.running = m]
    OBVIOUS
  <2> HIDE DEF m, reserved
  <2>4. reserved[j].running = m
    BY <2>1, <2>2, <2>3, Marking
  <2> QED
    BY <2>1, <2>2, <2>3, <2>4, Marking DEF m
<1>7. store \in TidyStores
  BY <1>5, <1>6 DEF TidyStores
<1>8. \A j \in Jobs : j \in due => disk[j].there /\ disk[j].enabled /\ ~ disk[j].running
  BY DEF Runnable
<1>9. store = IF due = {} THEN repaired ELSE reserved
  OBVIOUS
<1> HIDE DEF b, store, repaired, reserved, due
<1>10. tick'[s] = b /\ mem'[s] = store /\ \A k \in Services : k # s => tick'[k] = tick[k]
  BY <1>2, Known
<1>11. Apart(s) /\ start'[s] = start[s] /\ timer'[s] = timer[s]
       /\ catchup'[s] = catchup[s] /\ manual'[s] = manual[s]
  BY <1>1, <1>2, <1>10, Known DEF Apart
<1>12. Fits(s)'
  BY <1>1, <1>4, <1>7, <1>10, <1>11, Known DEF Fits, Shaped, Ready
<1>13. Works(s)
  BY <1>1, <1>2, <1>7, <1>11, <1>12, Known DEF Works, Ready
<1>14. ASSUME One, NEW j \in Jobs
       PROVE  JobTurns(s, j) /\ SlotStays(j)
  <2>1. disk'[j] = store[j] /\ mem'[s][j] = store[j]
    BY <1>2, <1>10
  <2>2. ~ Holds(tick[s], j)
    BY <1>3 DEF Holds, Empty
  <2>4. CASE j \in due
    <3>1. Runs(j)' = Runs(j) \cup {<<"tick", s>>}
      BY <1>1, <1>4, <1>10, <2>4, TickTurns
    <3>2. store = reserved
      BY <1>9, <2>4
    <3>3. /\ store[j].there = disk[j].there /\ disk[j].there
          /\ store[j].running = TRUE /\ store[j].next = disk[j].next
      BY <1>6, <1>8, <2>4, <3>2
    <3> QED
      BY <1>8, <2>1, <2>4, <3>1, <3>3 DEF JobTurns, Turns, SlotStays
  <2>5. CASE j \notin due
    <3>1. Runs(j)' = Runs(j)
      BY <1>1, <1>4, <1>10, <2>2, <2>5, TickTurns
    <3>2. disk[j] \in JobRecords /\ (disk[j].enabled => disk[j].there)
      BY Known DEF TidyRecords
    <3>3. CASE due = {}
      <4>1. store = repaired
        BY <1>9, <3>3
      <4> QED
        BY <1>5, <2>1, <3>1, <3>2, <4>1 DEF JobTurns, Turns, SlotStays, Keeps, Marked, Repaired
    <3>4. CASE due # {}
      <4>1. store = reserved
        BY <1>9, <3>4
      <4>2. store[j].running = disk[j].running /\ store[j].there = disk[j].there
            /\ store[j].enabled = disk[j].enabled /\ store[j].next = disk[j].next
        BY <1>6, <2>5, <3>2, <4>1 DEF JobRecords
      <4> QED
        BY <2>1, <3>1, <4>2 DEF JobTurns, Turns, SlotStays, Keeps, Marked
    <3> QED
      BY <3>3, <3>4
  <2> QED
    BY <2>4, <2>5
<1> QED
  BY <1>1, <1>13, <1>14 DEF Goes

LEMMA RunDueJobStep ==
  ASSUME Inv, NEW s \in Services, NEW i \in Jobs, RunDueJob(s, i)
  PROVE  Goes(s)
<1> DEFINE a == [job |-> i, start |-> now]
           b == [tick[s] EXCEPT !.todo = @ \ {i}, !.active = @ \cup {a}]
           r == [mem[s][i] EXCEPT !.running = TRUE]
           marks == tick[s].same /\ mem[s][i].there
           store == IF marks THEN [mem[s] EXCEPT ![i] = r] ELSE mem[s]
<1>1. Ready(s) /\ tick[s].phase = "run" /\ i \in tick[s].todo
      /\ UNCHANGED <<now, disk, timer, start, catchup, manual, current, crashes, requests>>
  BY Known DEF RunDueJob
<1>2. mem[s] \in TidyStores /\ mem[s][i] \in TidyRecords
  BY <1>1, Known
<1>3. mem' = [mem EXCEPT ![s] = store] /\ mem'[s] = store
  <2>1. mem \in [Services -> Stores \cup {NoStore}]
    BY Known
  <2>2. CASE marks
    <3>1. mem' = [mem EXCEPT ![s] = [mem[s] EXCEPT ![i] = r]]
      BY <2>2 DEF RunDueJob
    <3> QED
      BY <2>1, <2>2, <3>1
  <2>3. CASE ~ marks
    <3>1. mem' = mem
      BY <2>3 DEF RunDueJob
    <3> QED
      BY <2>1, <2>3, <3>1
  <2> QED
    BY <2>2, <2>3
<1>4. tick' = [tick EXCEPT ![s] = b]
  BY DEF RunDueJob
<1>5. a \in Started /\ a.job = i
  BY Known DEF Started
<1>6. /\ b \in TickRecords /\ b.phase = "run"
      /\ \A j \in Jobs : Holds(b, j) <=> Holds(tick[s], j)
  <2>1. tick[s] \in TickRecords
    BY Known
  <2> HIDE DEF a
  <2>2. b \in TickRecords /\ b.phase = "run"
    BY <1>1, <1>5, <2>1 DEF TickRecords
  <2>3. b.todo = tick[s].todo \ {i} /\ b.active = tick[s].active \cup {a} /\ b.done = tick[s].done
    BY <2>1 DEF TickRecords
  <2> HIDE DEF b
  <2>4. ASSUME NEW j \in Jobs
        PROVE  Holds(b, j) <=> Holds(tick[s], j)
    BY <1>1, <1>5, <2>3 DEF Holds
  <2> QED
    BY <2>2, <2>4
<1>7. marks => r \in TidyRecords /\ r.there = mem[s][i].there /\ r.enabled = mem[s][i].enabled
               /\ r.next = mem[s][i].next /\ r.running = TRUE
  BY <1>2, Marking
<1>8. store \in TidyStores
  BY <1>2, <1>7 DEF TidyStores
<1>9. \A j \in Jobs : store[j] = IF marks /\ j = i THEN r ELSE mem[s][j]
  BY <1>2 DEF TidyStores
<1> HIDE DEF a, b, r, store, marks
<1>10. tick'[s] = b /\ \A k \in Services : k # s => tick'[k] = tick[k]
  BY <1>4, Known
<1>11. Apart(s) /\ start'[s] = start[s] /\ timer'[s] = timer[s]
       /\ catchup'[s] = catchup[s] /\ manual'[s] = manual[s]
  BY <1>1, <1>3, <1>4, <1>10, Known DEF Apart
<1>12. Fits(s)'
  BY <1>1, <1>3, <1>6, <1>8, <1>10, <1>11, Known DEF Fits, Shaped, Ready
<1>13. Works(s)
  BY <1>1, <1>11, <1>12, Known DEF Works, Ready
<1>14. ASSUME One, NEW j \in Jobs
       PROVE  JobTurns(s, j) /\ SlotStays(j)
  <2>2. Runs(j)' = Runs(j)
    BY <1>1, <1>6, <1>10, TickTurns
  <2>3. Kept(j, disk[j], mem[s][j], Runs(j), excused)
    BY <1>1, <1>14, Known
  <2>4. disk'[j] = disk[j] /\ mem'[s][j] = store[j]
    BY <1>1, <1>3
  <2>5. CASE marks /\ j = i
    <3>1. Holds(tick[s], j)
      BY <1>1, <2>5 DEF Holds
    <3>2. Runs(j) # {}
      BY <1>1, <1>10, <3>1, TickTurns
    <3> QED
      BY <1>7, <1>9, <2>2, <2>3, <2>4, <2>5, <3>2 DEF JobTurns, Turns, SlotStays, Keeps, Kept, Marked
  <2>6. CASE ~ (marks /\ j = i)
    <3>1. store[j] = mem[s][j]
      BY <1>9, <2>6
    <3> QED
      BY <2>2, <2>3, <2>4, <3>1 DEF JobTurns, Turns, SlotStays, Keeps, Kept
  <2> QED
    BY <2>5, <2>6
<1> QED
  BY <1>1, <1>13, <1>14 DEF Goes

LEMMA DueJobEndsStep ==
  ASSUME Inv, NEW s \in Services, NEW status \in Results, DueJobEnds(s, status)
  PROVE  Goes(s)
<1>1. PICK a \in tick[s].active :
        tick' = [tick EXCEPT ![s] = [tick[s] EXCEPT !.active = @ \ {a}, !.done = @ \cup {Result(a, status)}]]
  BY DEF DueJobEnds
<1> DEFINE o == Result(a, status)
           b == [tick[s] EXCEPT !.active = @ \ {a}, !.done = @ \cup {o}]
<1>2. UNCHANGED <<now, disk, mem, timer, start, catchup, manual, current, crashes, requests>>
  BY DEF DueJobEnds
<1>3. tick[s] \in TickRecords /\ a \in Started
  BY <1>1, Known DEF TickRecords
<1>4. tick[s].phase = "run" /\ Ready(s)
  BY <1>1, Known DEF Fits, Shaped, Empty
<1>5. o \in Ended /\ o.job = a.job
  BY <1>3, Known DEF Result, Started, Ended
<1> HIDE DEF o
<1>6. b \in TickRecords /\ b.phase = "run"
  BY <1>3, <1>4, <1>5 DEF TickRecords
<1>7. b.todo = tick[s].todo /\ b.active = tick[s].active \ {a} /\ b.done = tick[s].done \cup {o}
  BY <1>3 DEF TickRecords
<1>8. tick' = [tick EXCEPT ![s] = b]
  BY <1>1 DEF o
<1> HIDE DEF b
<1>9. \A j \in Jobs : Holds(b, j) <=> Holds(tick[s], j)
  BY <1>1, <1>5, <1>7 DEF Holds
<1>10. tick'[s] = b /\ \A k \in Services : k # s => tick'[k] = tick[k]
  BY <1>8, Known
<1>11. Apart(s) /\ start'[s] = start[s] /\ mem'[s] = mem[s] /\ timer'[s] = timer[s]
       /\ catchup'[s] = catchup[s] /\ manual'[s] = manual[s]
  BY <1>2, <1>8, <1>10, Known DEF Apart
<1>12. Fits(s)'
  BY <1>4, <1>6, <1>10, <1>11, Known DEF Fits, Shaped, Ready
<1>13. Works(s)
  BY <1>2, <1>4, <1>11, <1>12, Known DEF Works, Ready
<1>14. ASSUME One, NEW j \in Jobs
       PROVE  JobTurns(s, j) /\ SlotStays(j)
  <2>1. Runs(j)' = Runs(j)
    BY <1>2, <1>9, <1>10, TickTurns
  <2> QED
    BY <1>2, <1>4, <1>14, <2>1, StoreUntouched
<1> QED
  BY <1>4, <1>13, <1>14 DEF Goes

LEMMA ApplyOutcomesStep ==
  ASSUME Inv, NEW s \in Services, ApplyOutcomes(s)
  PROVE  Goes(s)
<1> DEFINE done == tick[s].done
           applied == ApplyAll(disk, done)
           store == Maintenance(applied, FALSE)
           b == [NoBatch EXCEPT !.phase = "end"]
<1>1. /\ Ready(s) /\ tick[s].phase = "run" /\ tick[s].todo = {} /\ tick[s].active = {}
      /\ UNCHANGED <<now, timer, start, catchup, manual, current, crashes, requests>>
  BY Known DEF ApplyOutcomes, Finished
<1>2. mem' = [mem EXCEPT ![s] = store] /\ disk' = store /\ tick' = [tick EXCEPT ![s] = b]
  BY DEF ApplyOutcomes, Section
<1>3. done \in SUBSET Ended
  BY Known DEF TickRecords
<1>4. b \in TickRecords /\ b.phase = "end" /\ Empty(b)
  BY DEF NoBatch, TickRecords, Empty
<1>5. disk \in TidyStores /\ now \in Nat
  BY Known
<1>6. applied \in TidyStores
      /\ \A j \in Jobs : IF \E o \in done : o.job = j
                         THEN ~ applied[j].running ELSE applied[j] = disk[j]
  BY <1>3, <1>5, ApplyAllEnds
<1> HIDE DEF applied
<1>7. store \in TidyStores
      /\ \A j \in Jobs : Repaired(applied[j], store[j])
                         /\ (applied[j].enabled /\ applied[j].next # 0 => store[j].next = applied[j].next)
  BY <1>5, <1>6, MaintenanceKeeps
<1> HIDE DEF b, store
<1>8. tick'[s] = b /\ mem'[s] = store /\ \A k \in Services : k # s => tick'[k] = tick[k]
  BY <1>2, Known
<1>9. Apart(s) /\ start'[s] = start[s] /\ timer'[s] = timer[s]
      /\ catchup'[s] = catchup[s] /\ manual'[s] = manual[s]
  BY <1>1, <1>2, <1>8, Known DEF Apart
<1>10. Fits(s)'
  BY <1>1, <1>4, <1>7, <1>8, <1>9, Known DEF Fits, Shaped, Ready
<1>11. Works(s)
  BY <1>1, <1>2, <1>7, <1>9, <1>10, Known DEF Works, Ready
<1>12. ASSUME One, NEW j \in Jobs
       PROVE  JobTurns(s, j) /\ SlotStays(j)
  <2>1. disk'[j] = store[j] /\ mem'[s][j] = store[j]
    BY <1>2, <1>8
  <2>2. Holds(tick[s], j) <=> \E o \in done : o.job = j
    BY <1>1 DEF Holds
  <2>3. ~ Holds(tick'[s], j)
    BY <1>4, <1>8 DEF Holds, Empty
  <2>4. CASE Holds(tick[s], j)
    <3>1. <<"tick", s>> \in Runs(j) /\ Runs(j)' = Runs(j) \ {<<"tick", s>>}
      BY <1>1, <1>8, <2>3, <2>4, TickTurns
    <3>2. ~ store[j].running
      BY <1>6, <1>7, <2>2, <2>4 DEF Repaired
    <3>3. <<"tick", s>> \in ResultsOf(j)
      BY <2>2, <2>4, <3>1 DEF ResultsOf
    <3>4. MayMove(j)
      BY <3>1, <3>3, ResultGone DEF MayMove
    <3> QED
      BY <2>1, <3>1, <3>2, <3>4 DEF JobTurns, Turns, SlotStays
  <2>5. CASE ~ Holds(tick[s], j)
    <3>1. Runs(j)' = Runs(j)
      BY <1>1, <1>8, <2>3, <2>5, TickTurns
    <3>2. applied[j] = disk[j]
      BY <1>6, <2>2, <2>5
    <3> QED
      BY <1>7, <2>1, <3>1, <3>2 DEF JobTurns, Turns, SlotStays, Keeps, Marked, Repaired
  <2> QED
    BY <2>4, <2>5
<1> QED
  BY <1>1, <1>11, <1>12 DEF Goes

LEMMA TickEndsStep ==
  ASSUME Inv, NEW s \in Services, TickEnds(s)
  PROVE  Goes(s)
<1>1. /\ Ready(s) /\ tick[s].phase = "end"
      /\ UNCHANGED <<now, disk, mem, start, catchup, manual, current, crashes, requests>>
  BY Known DEF TickEnds
<1>2. tick' = [tick EXCEPT ![s] = NoBatch] /\ timer' = [timer EXCEPT ![s] = Arm(mem[s])]
  BY DEF TickEnds, Arms
<1>3. NoBatch \in TickRecords /\ NoBatch.phase = "idle" /\ Empty(NoBatch) /\ Arm(mem[s]) \in BOOLEAN
  BY DEF NoBatch, TickRecords, Empty, Arm
<1>4. /\ tick'[s] = NoBatch /\ timer'[s] = Arm(mem[s])
      /\ \A k \in Services : k # s => tick'[k] = tick[k]
  BY <1>2, Known
<1>5. Apart(s) /\ start'[s] = start[s] /\ mem'[s] = mem[s]
      /\ catchup'[s] = catchup[s] /\ manual'[s] = manual[s]
  BY <1>1, <1>2, <1>4, Known DEF Apart
<1>6. Fits(s)'
  BY <1>1, <1>3, <1>4, <1>5, Known DEF Fits, Shaped, Ready
<1>7. Works(s)
  BY <1>1, <1>5, <1>6, Known DEF Works, Ready
<1>8. ASSUME One, NEW j \in Jobs
      PROVE  JobTurns(s, j) /\ SlotStays(j)
  <2>1. ~ Holds(tick[s], j) /\ ~ Holds(tick'[s], j)
    BY <1>1, <1>3, <1>4, Known DEF Holds, Empty, Fits, Shaped
  <2>2. Runs(j)' = Runs(j)
    BY <1>1, <1>4, <2>1, TickTurns
  <2> QED
    BY <1>1, <1>8, <2>2, StoreUntouched
<1> QED
  BY <1>1, <1>7, <1>8 DEF Goes
-----------------------------------------------------------------------------
(* start() and the catch-up. *)

(* A service that has not loaded the store runs nothing. *)
LEMMA Asleep ==
  ASSUME Inv, NEW s \in Services, ~ Ready(s), NEW j
  PROVE  ~ Holds(tick[s], j) /\ ~ Holds(catchup[s], j) /\ ~ Reserves(manual[s], j)
<1>1. Empty(tick[s]) /\ Empty(catchup[s]) /\ manual[s].phase = "idle"
  BY Known DEF Ready, Fits, Shaped
<1> QED
  BY <1>1 DEF Empty, Holds, Reserves

LEMMA StartLoadsStep ==
  ASSUME Inv, NEW s \in Services, StartLoads(s)
  PROVE  /\ Works(s) /\ ~ Ready(s)
         /\ \A j \in Jobs : SlotStays(j)
         /\ One => \A j \in Jobs : Runs(j)' = {} /\ Kept(j, disk'[j], mem'[s][j], {}, {})
<1> DEFINE store == Loaded(s)
           marked == {j \in Jobs : store[j].running}
           skip == {j \in marked : ScheduleOf[j].kind = "at"}
           cleared == Cleared(store)
           c == [catchup[s] EXCEPT !.skip = skip]
<1>1. start[s] = "load" /\ ~ Ready(s) /\ UNCHANGED <<now, timer, tick, manual, current, crashes, requests>>
  BY DEF StartLoads, Ready
<1>2. mem[s] = NoStore /\ Empty(catchup[s]) /\ catchup[s] \in CatchupRecords
  BY <1>1, Known DEF Fits, Shaped
<1>3. store = disk
  BY <1>2 DEF Loaded
<1>4. /\ start' = [start EXCEPT ![s] = "plan"] /\ mem' = [mem EXCEPT ![s] = cleared]
      /\ disk' = (IF marked # {} THEN cleared ELSE disk)
  BY DEF StartLoads, Section
<1>5. catchup' = [catchup EXCEPT ![s] = c]
  <2>1. catchup' = [catchup EXCEPT ![s].skip = skip]
    BY DEF StartLoads
  <2> QED
    BY <2>1, Known
<1>6. skip \in SUBSET Jobs
  OBVIOUS
<1>7. \A j \in Jobs : /\ cleared[j] \in TidyRecords /\ cleared[j].there = disk[j].there
                      /\ cleared[j].enabled = disk[j].enabled /\ cleared[j].next = disk[j].next
                      /\ cleared[j].running = FALSE
  <2> TAKE j \in Jobs
  <2>1. disk[j] \in TidyRecords /\ cleared[j] = [disk[j] EXCEPT !.running = FALSE]
    BY <1>3, Known DEF Cleared
  <2> HIDE DEF cleared
  <2> QED
    BY <2>1, Marking
<1>8. cleared \in TidyStores
  BY <1>7 DEF TidyStores, Cleared
<1>9. marked = {} => \A j \in Jobs : ~ disk[j].running
  BY <1>3
<1> HIDE DEF store, marked, skip, cleared
<1>10. c \in CatchupRecords /\ Empty(c)
       /\ \A j \in Jobs : ~ Holds(c, j)
  BY <1>2, <1>6 DEF CatchupRecords, Empty, Holds
<1> HIDE DEF c
<1>11. start'[s] = "plan" /\ mem'[s] = cleared /\ catchup'[s] = c
       /\ \A k \in Services : k # s => catchup'[k] = catchup[k]
  BY <1>4, <1>5, Known
<1>12. Apart(s) /\ timer'[s] = timer[s] /\ tick'[s] = tick[s] /\ manual'[s] = manual[s]
  BY <1>1, <1>4, <1>5, <1>11, Known DEF Apart
<1>13. Fits(s)'
  <2>1. \A x, y \in c.active : x = y
    BY <1>10 DEF Empty
  <2> QED
    BY <1>8, <1>10, <1>11, <1>12, <2>1, Known DEF Fits, Shaped, StartPhases
<1>14. disk' \in TidyStores
  BY <1>4, <1>8, Known
<1>15. Works(s)
  BY <1>1, <1>11, <1>12, <1>13, <1>14, Known DEF Works, Ready
<1>16. \A j \in Jobs : SlotStays(j)
  BY <1>4, <1>7 DEF SlotStays
<1>17. ASSUME One, NEW j \in Jobs
       PROVE  Runs(j)' = {} /\ Kept(j, disk'[j], mem'[s][j], {}, {})
  <2>1. \A k \in Services : ~ Ready(k)
    BY <1>1, <1>17 DEF Ready, One
  <2>2. \A k \in Services : ~ Holds(tick[k], j) /\ ~ Holds(catchup[k], j) /\ ~ Reserves(manual[k], j)
    BY <2>1, Asleep
  <2>3. \A k \in Services : ~ Holds(catchup'[k], j)
    BY <1>10, <1>11, <2>2
  <2>4. Runs(j)' = RunsIn(tick, catchup', manual, j)
    BY <1>1, RunsAre
  <2>5. Runs(j)' = {}
    BY <2>2, <2>3, <2>4 DEF RunsIn
  <2>6. CASE marked = {}
    BY <1>4, <1>7, <1>9, <1>11, <2>5, <2>6 DEF Kept
  <2>7. CASE marked # {}
    BY <1>4, <1>7, <1>11, <2>5, <2>7 DEF Kept
  <2> QED
    BY <2>6, <2>7
<1> QED
  BY <1>1, <1>15, <1>16, <1>17

LEMMA PlanCatchupStep ==
  ASSUME Inv, NEW s \in Services, PlanCatchup(s)
  PROVE  Goes(s)
<1>1. start[s] = "plan" /\ Ready(s) /\ UNCHANGED <<now, timer, tick, manual, current, crashes, requests>>
  BY DEF PlanCatchup, Ready
<1>2. mem[s] \in TidyStores /\ mem[s] \in Stores /\ \A j \in Jobs : mem[s][j] \in TidyRecords
  BY <1>1, Known DEF TidyStores, TidyRecords, Stores
<1>3. Loaded(s) = mem[s]
  <2>1. CASE mem[s] = NoStore
    <3>1. Jobs = {}
      BY <1>2, <2>1 DEF NoStore, Stores
    <3>2. disk \in TidyStores
      BY Known
    <3>3. disk = mem[s]
      BY <1>2, <3>1, <3>2 DEF TidyStores
    <3> QED
      BY <3>3 DEF Loaded
  <2>2. CASE mem[s] # NoStore
    BY <2>2 DEF Loaded
  <2> QED
    BY <2>1, <2>2
<1>4. PICK missed \in SUBSET Jobs, immediate \in SUBSET Jobs, deferred \in SUBSET (Jobs \X Nat) :
        /\ immediate \subseteq missed
        /\ \A j \in missed : Missed(j, mem[s][j])
        /\ Section(s, [j \in Jobs |-> [mem[s][j] EXCEPT !.running = @ \/ j \in immediate]], missed # {})
        /\ catchup' = [catchup EXCEPT ![s] =
             [catchup[s] EXCEPT !.todo = immediate, !.deferred = deferred]]
        /\ start' = [start EXCEPT ![s] = IF missed = {} THEN "finish" ELSE "run"]
  <2> DEFINE store == Loaded(s)
             missed == {j \in Jobs \ catchup[s].skip : Missed(j, store[j])}
             Before(k, j) == store[k].next < store[j].next \/ (store[k].next = store[j].next /\ k < j)
             immediate == {j \in missed : Cardinality({k \in missed : Before(k, j)}) < MaxImmediate}
             place == [j \in missed \ immediate |->
                        1 + Cardinality({k \in missed \ immediate : Before(k, j)})]
             deferred == {<<j, place[j]>> : j \in missed \ immediate}
  <2>1. /\ Section(s, [j \in Jobs |-> [store[j] EXCEPT !.running = @ \/ j \in immediate]], missed # {})
        /\ catchup' = [catchup EXCEPT ![s] =
             [catchup[s] EXCEPT !.todo = immediate, !.deferred = deferred]]
        /\ start' = [start EXCEPT ![s] = IF missed = {} THEN "finish" ELSE "run"]
    BY DEF PlanCatchup
  <2>2. missed \in SUBSET Jobs /\ immediate \in SUBSET Jobs /\ immediate \subseteq missed /\ \A j \in missed : Missed(j, store[j])
    OBVIOUS
  <2>3. \A j \in missed \ immediate : place[j] \in Nat
    <3> TAKE j \in missed \ immediate
    <3> DEFINE S == {k \in missed \ immediate : Before(k, j)}
    <3>1. S \subseteq Jobs /\ IsFiniteSet(Jobs)
      BY CronAssumption
    <3>2. Cardinality(S) \in Nat
      <4> HIDE DEF S
      <4> QED
        BY <3>1, FS_Subset, FS_CardinalityType
    <3>3. place[j] = 1 + Cardinality(S)
      OBVIOUS
    <3> HIDE DEF S, place
    <3> QED
      BY <3>2, <3>3
  <2>4. deferred \in SUBSET (Jobs \X Nat)
    <3> HIDE DEF place, immediate
    <3> QED
      BY <2>3
  <2> HIDE DEF missed, immediate, deferred
  <2>5. store = mem[s]
    BY <1>3
  <2> HIDE DEF store
  <2>6. /\ \A j \in missed : Missed(j, mem[s][j])
        /\ Section(s, [j \in Jobs |-> [mem[s][j] EXCEPT !.running = @ \/ j \in immediate]], missed # {})
        /\ catchup' = [catchup EXCEPT ![s] =
             [catchup[s] EXCEPT !.todo = immediate, !.deferred = deferred]]
        /\ start' = [start EXCEPT ![s] = IF missed = {} THEN "finish" ELSE "run"]
    BY <2>1, <2>2, <2>5
  <2> QED
    BY <2>2, <2>4, <2>6, Zenon
<1> DEFINE new == [j \in Jobs |-> [mem[s][j] EXCEPT !.running = @ \/ j \in immediate]]
           c == [catchup[s] EXCEPT !.todo = immediate, !.deferred = deferred]
           st == IF missed = {} THEN "finish" ELSE "run"
<1>5. /\ mem' = [mem EXCEPT ![s] = new] /\ disk' = (IF missed # {} THEN new ELSE disk)
      /\ catchup' = [catchup EXCEPT ![s] = c] /\ start' = [start EXCEPT ![s] = st]
  BY <1>4 DEF Section
<1>6. \A j \in immediate : j \in Jobs /\ mem[s][j].there /\ mem[s][j].enabled /\ ~ mem[s][j].running
  BY <1>2, <1>4, MissedIs
<1>7. \A j \in Jobs : /\ new[j] \in TidyRecords /\ new[j].there = mem[s][j].there
                      /\ new[j].enabled = mem[s][j].enabled /\ new[j].next = mem[s][j].next
                      /\ new[j].running = (mem[s][j].running \/ j \in immediate)
  <2> TAKE j \in Jobs
  <2> DEFINE r == mem[s][j]
             m == r.running \/ j \in immediate
  <2>1. r \in TidyRecords /\ m \in BOOLEAN /\ (m => r.there)
    BY <1>2, <1>6 DEF TidyRecords
  <2>2. new[j] = [r EXCEPT !.running = m]
    OBVIOUS
  <2> HIDE DEF m, r, new
  <2>3. new[j].running = m /\ new[j] \in TidyRecords /\ new[j].there = r.there
        /\ new[j].enabled = r.enabled /\ new[j].next = r.next
    BY <2>1, <2>2, Marking
  <2> QED
    BY <2>3 DEF m, r
<1>8. new \in TidyStores
  BY <1>7 DEF TidyStores
<1>9. Empty(catchup[s]) /\ catchup[s] \in CatchupRecords
  BY <1>1, Known DEF Fits, Shaped
<1>10. /\ c \in CatchupRecords /\ c.active = {} /\ (st # "run" => Empty(c))
       /\ \A j \in Jobs : Holds(c, j) <=> j \in immediate
  <2>1. c \in CatchupRecords /\ c.active = {} /\ c.done = {} /\ c.todo = immediate
    BY <1>4, <1>9 DEF CatchupRecords, Empty
  <2>2. st # "run" => immediate = {}
    BY <1>4
  <2> HIDE DEF c
  <2> QED
    BY <2>1, <2>2 DEF Empty, Holds
<1>11. st \in {"finish", "run"}
  OBVIOUS
<1> HIDE DEF c, new, st
<1>12. start'[s] = st /\ mem'[s] = new /\ catchup'[s] = c
       /\ \A k \in Services : k # s => catchup'[k] = catchup[k]
  BY <1>5, Known
<1>13. Apart(s) /\ timer'[s] = timer[s] /\ tick'[s] = tick[s] /\ manual'[s] = manual[s]
  BY <1>1, <1>5, <1>12, Known DEF Apart
<1>14. Fits(s)'
  BY <1>8, <1>10, <1>11, <1>12, <1>13, Known DEF Fits, Shaped, StartPhases
<1>15. disk' \in TidyStores
  BY <1>5, <1>8, Known
<1>16. Works(s)
  BY <1>1, <1>11, <1>12, <1>13, <1>14, <1>15, Known DEF Works, Ready
<1>17. ASSUME One, NEW j \in Jobs
       PROVE  JobTurns(s, j) /\ SlotStays(j)
  <2>1. Kept(j, disk[j], mem[s][j], Runs(j), excused)
    BY <1>1, <1>17, Known
  <2>2. mem'[s][j] = new[j] /\ disk'[j] = (IF missed # {} THEN new[j] ELSE disk[j])
    BY <1>5, <1>12
  <2>3. ~ Holds(catchup[s], j)
    BY <1>9 DEF Holds, Empty
  <2>4. SlotStays(j)
    BY <1>7, <2>1, <2>2 DEF SlotStays, Kept
  <2>5. CASE j \in immediate
    <3>1. Runs(j)' = Runs(j) \cup {<<"catchup", s>>}
      BY <1>1, <1>10, <1>12, <2>5, CatchupTurns
    <3>2. missed # {} /\ mem[s][j].there /\ ~ mem[s][j].running /\ new[j].running = TRUE
      BY <1>4, <1>6, <1>7, <2>5
    <3>3. disk'[j] = new[j] /\ new[j].there = TRUE
      BY <1>2, <1>7, <2>2, <3>2 DEF TidyRecords, JobRecords
    <3> QED
      BY <2>2, <2>4, <3>1, <3>2, <3>3 DEF JobTurns, Turns
  <2>6. CASE j \notin immediate
    <3>1. Runs(j)' = Runs(j)
      BY <1>1, <1>10, <1>12, <2>3, <2>6, CatchupTurns
    <3>2. new[j].running = mem[s][j].running
      BY <1>2, <1>7, <2>6 DEF TidyRecords, JobRecords
    <3>3. Keeps(mem[s][j], new[j], Runs(j)) /\ Keeps(disk[j], disk[j], Runs(j))
      BY <1>7, <3>2 DEF Keeps, Marked
    <3> QED
      BY <1>7, <2>1, <2>2, <2>4, <3>1, <3>3 DEF JobTurns, Turns, Kept
  <2> QED
    BY <2>5, <2>6
<1> QED
  BY <1>1, <1>16, <1>17 DEF Goes

LEMMA RunCandidateStep ==
  ASSUME Inv, NEW s \in Services, NEW i \in Jobs, RunCandidate(s, i)
  PROVE  Goes(s)
<1> DEFINE a == [job |-> i, start |-> now]
           c == [catchup[s] EXCEPT !.todo = @ \ {i}, !.active = {a}]
<1>1. /\ start[s] = "run" /\ Ready(s) /\ i \in catchup[s].todo /\ catchup[s].active = {}
      /\ UNCHANGED <<now, disk, mem, timer, start, tick, manual, current, crashes, requests>>
  BY DEF RunCandidate, Ready
<1>2. catchup' = [catchup EXCEPT ![s] = c]
  BY DEF RunCandidate
<1>3. catchup[s] \in CatchupRecords /\ a \in Started /\ a.job = i
  BY Known DEF Started
<1> HIDE DEF a
<1>4. /\ c \in CatchupRecords /\ c.todo = catchup[s].todo \ {i} /\ c.active = {a}
      /\ c.done = catchup[s].done
  BY <1>3 DEF CatchupRecords
<1> HIDE DEF c
<1>5. \A j \in Jobs : Holds(c, j) <=> Holds(catchup[s], j)
  BY <1>1, <1>3, <1>4 DEF Holds
<1>6. catchup'[s] = c /\ \A k \in Services : k # s => catchup'[k] = catchup[k]
  BY <1>2, Known
<1>7. Apart(s) /\ start'[s] = start[s] /\ mem'[s] = mem[s] /\ timer'[s] = timer[s]
      /\ tick'[s] = tick[s] /\ manual'[s] = manual[s]
  BY <1>1, <1>2, <1>6, Known DEF Apart
<1>8. Fits(s)'
  <2>1. \A x, y \in c.active : x = y
    BY <1>4
  <2> QED
    BY <1>1, <1>4, <1>6, <1>7, <2>1, Known DEF Fits, Shaped
<1>9. Works(s)
  BY <1>1, <1>7, <1>8, Known DEF Works, Ready
<1>10. ASSUME One, NEW j \in Jobs
       PROVE  JobTurns(s, j) /\ SlotStays(j)
  <2>1. Runs(j)' = Runs(j)
    BY <1>1, <1>5, <1>6, CatchupTurns
  <2> QED
    BY <1>1, <1>10, <2>1, StoreUntouched
<1> QED
  BY <1>1, <1>9, <1>10 DEF Goes

LEMMA CandidateEndsStep ==
  ASSUME Inv, NEW s \in Services, NEW status \in Results, CandidateEnds(s, status)
  PROVE  Goes(s)
<1>1. PICK a \in catchup[s].active :
        catchup' = [catchup EXCEPT ![s] =
          [catchup[s] EXCEPT !.active = {}, !.done = @ \cup {Result(a, status)}]]
  BY DEF CandidateEnds
<1> DEFINE o == Result(a, status)
           c == [catchup[s] EXCEPT !.active = {}, !.done = @ \cup {o}]
<1>2. UNCHANGED <<now, disk, mem, timer, start, tick, manual, current, crashes, requests>>
  BY DEF CandidateEnds
<1>3. catchup[s] \in CatchupRecords /\ a \in Started
  BY <1>1, Known DEF CatchupRecords
<1>4. start[s] = "run" /\ Ready(s) /\ catchup[s].active = {a}
  BY <1>1, Known DEF Fits, Shaped, Empty, Ready
<1>5. o \in Ended /\ o.job = a.job
  BY <1>3, Known DEF Result, Started, Ended
<1>6. catchup' = [catchup EXCEPT ![s] = c]
  BY <1>1
<1> HIDE DEF o
<1>7. /\ c \in CatchupRecords /\ c.todo = catchup[s].todo /\ c.active = {}
      /\ c.done = catchup[s].done \cup {o}
  BY <1>3, <1>5 DEF CatchupRecords
<1> HIDE DEF c
<1>8. \A j \in Jobs : Holds(c, j) <=> Holds(catchup[s], j)
  BY <1>4, <1>5, <1>7 DEF Holds
<1>9. catchup'[s] = c /\ \A k \in Services : k # s => catchup'[k] = catchup[k]
  BY <1>6, Known
<1>10. Apart(s) /\ start'[s] = start[s] /\ mem'[s] = mem[s] /\ timer'[s] = timer[s]
       /\ tick'[s] = tick[s] /\ manual'[s] = manual[s]
  BY <1>2, <1>6, <1>9, Known DEF Apart
<1>11. Fits(s)'
  <2>1. \A x, y \in c.active : x = y
    BY <1>7
  <2> QED
    BY <1>4, <1>7, <1>9, <1>10, <2>1, Known DEF Fits, Shaped
<1>12. Works(s)
  BY <1>2, <1>4, <1>10, <1>11, Known DEF Works, Ready
<1>13. ASSUME One, NEW j \in Jobs
       PROVE  JobTurns(s, j) /\ SlotStays(j)
  <2>1. Runs(j)' = Runs(j)
    BY <1>2, <1>8, <1>9, CatchupTurns
  <2> QED
    BY <1>2, <1>4, <1>13, <2>1, StoreUntouched
<1> QED
  BY <1>4, <1>12, <1>13 DEF Goes

LEMMA ApplyCatchupStep ==
  ASSUME Inv, NEW s \in Services, ApplyCatchup(s)
  PROVE  Goes(s)
<1> DEFINE done == catchup[s].done
           applied == ApplyAll(mem[s], done)
           Deferred(j) == applied[j].enabled /\ \E d \in catchup[s].deferred : d[1] = j
           Place(j) == (CHOOSE d \in catchup[s].deferred : d[1] = j)[2]
           Turn(j) == Cardinality({k \in Jobs : Deferred(k) /\ Place(k) <= Place(j)})
           deferred == [j \in Jobs |->
             IF Deferred(j) THEN [applied[j] EXCEPT !.next = now + Stagger * Turn(j)] ELSE applied[j]]
           store == Maintenance(deferred, FALSE)
           c == [NoCatchup EXCEPT !.skip = catchup[s].skip]
<1>1. /\ start[s] = "run" /\ Ready(s) /\ catchup[s].todo = {} /\ catchup[s].active = {}
      /\ UNCHANGED <<now, timer, tick, manual, current, crashes, requests>>
  BY DEF ApplyCatchup, Ready, Finished
<1>2. /\ mem' = [mem EXCEPT ![s] = store] /\ disk' = store
      /\ catchup' = [catchup EXCEPT ![s] = c] /\ start' = [start EXCEPT ![s] = "finish"]
  BY DEF ApplyCatchup, Section
<1>3. /\ mem[s] \in TidyStores /\ now \in Nat /\ catchup[s] \in CatchupRecords
      /\ done \in SUBSET Ended
  BY <1>1, Known DEF CatchupRecords
<1>4. applied \in TidyStores
      /\ \A j \in Jobs : IF \E o \in done : o.job = j
                         THEN ~ applied[j].running ELSE applied[j] = mem[s][j]
  BY <1>3, ApplyAllEnds
<1>5. ASSUME NEW j \in Jobs
      PROVE  /\ deferred[j] \in TidyRecords /\ Repaired(applied[j], deferred[j])
             /\ ~ Deferred(j) => deferred[j] = applied[j]
  <2>1. applied[j] \in TidyRecords
    BY <1>4 DEF TidyStores
  <2>2. CASE Deferred(j)
    <3>1. deferred[j] = [applied[j] EXCEPT !.next = now + Stagger * Turn(j)]
      BY <2>2
    <3>2. Turn(j) \in Nat /\ Stagger \in Nat
      <4> DEFINE before == {k \in Jobs : Deferred(k) /\ Place(k) <= Place(j)}
      <4>1. before \in SUBSET Jobs
        OBVIOUS
      <4> HIDE DEF before
      <4>2. Cardinality(before) \in Nat /\ Stagger \in Nat
        BY <4>1, FS_Subset, FS_CardinalityType, CronAssumption
      <4> QED
        BY <4>2 DEF before
    <3> HIDE DEF Turn, applied, deferred
    <3>3. now + Stagger * Turn(j) \in Nat
      BY <1>3, <3>2, Product
    <3> QED
      BY <2>1, <2>2, <3>1, <3>3, Slotted
  <2>3. CASE ~ Deferred(j)
    <3>1. deferred[j] = applied[j]
      BY <2>3
    <3> HIDE DEF applied, deferred
    <3> QED
      BY <2>1, <3>1 DEF Repaired
  <2> QED
    BY <2>2, <2>3
<1>6. deferred \in TidyStores
  BY <1>5 DEF TidyStores
<1> HIDE DEF applied, Turn, deferred
<1>7. store \in TidyStores
      /\ \A j \in Jobs : Repaired(deferred[j], store[j])
                         /\ (deferred[j].enabled /\ deferred[j].next # 0 => store[j].next = deferred[j].next)
  BY <1>3, <1>6, MaintenanceKeeps
<1>8. c \in CatchupRecords /\ Empty(c) /\ c.active = {}
  BY <1>3 DEF NoCatchup, CatchupRecords, Empty
<1> HIDE DEF store, c
<1>9. start'[s] = "finish" /\ mem'[s] = store /\ catchup'[s] = c
      /\ \A k \in Services : k # s => catchup'[k] = catchup[k]
  BY <1>2, Known
<1>10. Apart(s) /\ timer'[s] = timer[s] /\ tick'[s] = tick[s] /\ manual'[s] = manual[s]
  BY <1>1, <1>2, <1>9, Known DEF Apart
<1>11. Fits(s)'
  BY <1>7, <1>8, <1>9, <1>10, Known DEF Fits, Shaped, StartPhases
<1>12. Works(s)
  BY <1>1, <1>2, <1>7, <1>9, <1>10, <1>11, Known DEF Works, Ready
<1>13. ASSUME One, NEW j \in Jobs
       PROVE  JobTurns(s, j) /\ SlotStays(j)
  <2>1. disk'[j] = store[j] /\ mem'[s][j] = store[j]
    BY <1>2, <1>9
  <2>2. Holds(catchup[s], j) <=> \E o \in done : o.job = j
    BY <1>1 DEF Holds
  <2>3. ~ Holds(catchup'[s], j)
    BY <1>8, <1>9 DEF Holds, Empty
  <2>4. Deferred(j) => MayMove(j)
    BY <1>1, <1>9 DEF MayMove
  <2>5. CASE Holds(catchup[s], j)
    <3>1. <<"catchup", s>> \in Runs(j) /\ Runs(j)' = Runs(j) \ {<<"catchup", s>>}
      BY <1>1, <1>9, <2>3, <2>5, CatchupTurns
    <3>2. ~ store[j].running
      BY <1>4, <1>5, <1>7, <2>2, <2>5 DEF Repaired
    <3>3. <<"catchup", s>> \in ResultsOf(j)
      BY <2>2, <2>5, <3>1 DEF ResultsOf
    <3>4. MayMove(j)
      BY <3>1, <3>3, ResultGone DEF MayMove
    <3> QED
      BY <2>1, <3>1, <3>2, <3>4 DEF JobTurns, Turns, SlotStays
  <2>6. CASE ~ Holds(catchup[s], j)
    <3>1. Runs(j)' = Runs(j)
      BY <1>1, <1>9, <2>3, <2>6, CatchupTurns
    <3>2. applied[j] = mem[s][j]
      BY <1>4, <2>2, <2>6
    <3>3. Kept(j, disk[j], mem[s][j], Runs(j), excused)
      BY <1>1, <1>13, Known
    <3>4. JobTurns(s, j)
      BY <1>5, <1>7, <2>1, <3>1, <3>2 DEF JobTurns, Turns, Keeps, Marked, Repaired
    <3>5. SlotStays(j)
      BY <1>5, <1>7, <2>1, <2>4, <3>2, <3>3 DEF SlotStays, Kept
    <3> QED
      BY <3>4, <3>5
  <2> QED
    BY <2>5, <2>6
<1> QED
  BY <1>1, <1>12, <1>13 DEF Goes

LEMMA StartFinishesStep ==
  ASSUME Inv, NEW s \in Services, StartFinishes(s)
  PROVE  Goes(s)
<1> DEFINE store == Recompute(mem[s])
<1>1. start[s] = "finish" /\ Ready(s) /\ UNCHANGED <<now, tick, catchup, manual, current, crashes, requests>>
  BY DEF StartFinishes, Ready
<1>2. /\ mem' = [mem EXCEPT ![s] = store] /\ disk' = (IF store # mem[s] THEN store ELSE disk)
      /\ timer' = [timer EXCEPT ![s] = Arm(store)] /\ start' = [start EXCEPT ![s] = "up"]
  BY DEF StartFinishes, Section, Arms
<1>3. store \in TidyStores /\ \A j \in Jobs : Repaired(mem[s][j], store[j])
  BY <1>1, Known, RecomputeKeeps
<1>4. Arm(store) \in BOOLEAN
  BY DEF Arm
<1> HIDE DEF store
<1>5. start'[s] = "up" /\ mem'[s] = store /\ timer'[s] = Arm(store)
  BY <1>2, Known
<1>6. Apart(s) /\ tick'[s] = tick[s] /\ catchup'[s] = catchup[s] /\ manual'[s] = manual[s]
  BY <1>1, <1>2, <1>5, Known DEF Apart
<1>7. Fits(s)'
  BY <1>1, <1>3, <1>4, <1>5, <1>6, Known DEF Fits, Shaped, StartPhases
<1>8. disk' \in TidyStores
  BY <1>2, <1>3, Known
<1>9. Works(s)
  BY <1>1, <1>5, <1>6, <1>7, <1>8, Known DEF Works, Ready
<1>10. ASSUME One, NEW j \in Jobs
       PROVE  JobTurns(s, j) /\ SlotStays(j)
  <2>1. Kept(j, disk[j], mem[s][j], Runs(j), excused)
    BY <1>1, <1>10, Known
  <2>2. MayMove(j)
    BY <1>1, <1>5 DEF MayMove
  <2>3. Runs(j)' = Runs(j)
    BY <1>1 DEF Runs, Holds
  <2>4. Keeps(mem[s][j], store[j], Runs(j))
    BY <1>3 DEF Keeps, Marked, Repaired
  <2>5. CASE store = mem[s]
    <3>1. disk'[j] = disk[j] /\ mem'[s][j] = mem[s][j]
      BY <1>2, <1>5, <2>5
    <3> QED
      BY <2>1, <2>2, <2>3, <3>1 DEF JobTurns, Turns, Kept, Keeps, SlotStays
  <2>6. CASE store # mem[s]
    <3>1. disk'[j] = store[j] /\ mem'[s][j] = store[j]
      BY <1>2, <1>5, <2>6
    <3> QED
      BY <2>2, <2>3, <2>4, <3>1 DEF JobTurns, Turns, SlotStays
  <2> QED
    BY <2>5, <2>6
<1> QED
  BY <1>1, <1>9, <1>10 DEF Goes
-----------------------------------------------------------------------------
(* The user's operations and manual runs. *)

(* A section of the service that is up, with no batch involved. *)
LEMMA SectionWorks ==
  ASSUME Inv, NEW s \in Services, Ready(s), UNCHANGED <<now, start, catchup, current, crashes>>, Apart(s),
         tick'[s] \in TickRecords, tick'[s].phase = tick[s].phase, Empty(tick[s]) => Empty(tick'[s]),
         manual'[s] \in ManualRecords, manual'[s].phase # "idle" => manual'[s].job \in Jobs,
         mem'[s] \in TidyStores, disk' \in TidyStores, timer'[s] \in BOOLEAN, requests' \in 0 .. MaxRequests
  PROVE  Works(s)
<1>1. Shaped(start[s], mem[s], timer[s], tick[s], catchup[s], manual[s])
  BY Known DEF Fits
<1>2. start'[s] = start[s] /\ catchup'[s] = catchup[s]
  OBVIOUS
<1>3. tick'[s].phase # "run" => Empty(tick'[s])
  BY <1>1 DEF Shaped
<1>4. Fits(s)'
  BY <1>1, <1>2, <1>3 DEF Fits, Shaped, Ready
<1> QED
  BY <1>4, Known DEF Works, Ready

(* The same, with no manual run involved either. *)
LEMMA UserWorks ==
  ASSUME Inv, NEW s \in Services, Ready(s), Quiet, UNCHANGED manual,
         NEW store \in TidyStores, mem' = [mem EXCEPT ![s] = store], disk' \in TidyStores,
         NEW t \in BOOLEAN, timer' = [timer EXCEPT ![s] = t], requests' \in 0 .. MaxRequests
  PROVE  Works(s) /\ mem'[s] = store /\ \A j \in Jobs : Runs(j)' = Runs(j)
<1>1. UNCHANGED <<now, start, tick, catchup, current, crashes, manual>>
  BY DEF Quiet
<1>2. mem'[s] = store /\ timer'[s] = t
  BY Known
<1>3. Apart(s)
  BY <1>1, <1>2, Known DEF Apart
<1>4. /\ tick'[s] = tick[s] /\ tick[s] \in TickRecords /\ manual'[s] = manual[s] /\ manual[s] \in ManualRecords
      /\ manual[s].phase # "idle" => manual[s].job \in Jobs
  BY <1>1, Known DEF Fits, Shaped
<1>5. Works(s)
  BY <1>1, <1>2, <1>3, <1>4, SectionWorks
<1>6. \A j \in Jobs : Runs(j)' = Runs(j)
  BY <1>1 DEF Runs, Holds
<1> QED
  BY <1>2, <1>5, <1>6

LEMMA RequestedCounts ==
  ASSUME Inv, Requested
  PROVE  requests' \in 0 .. MaxRequests
<1>1. MaxRequests \in Nat /\ requests \in 0 .. MaxRequests
  BY CronAssumption DEF Inv, TypeOK
<1> QED
  BY <1>1 DEF Requested

LEMMA OpenReady ==
  ASSUME Inv, NEW s \in Services, Open(s)
  PROVE  /\ Ready(s) /\ mem[s] \in TidyStores /\ now \in Nat
         /\ \A j \in Jobs : mem[s][j] \in TidyRecords
  BY Known DEF Open

LEMMA AddStep ==
  ASSUME Inv, NEW s \in Services, NEW i \in Jobs, Add(s, i)
  PROVE  Goes(s)
<1> DEFINE put == [mem[s] EXCEPT ![i] = Created(i, now)]
           store == Recompute(put)
<1>1. /\ Ready(s) /\ mem[s] \in TidyStores /\ now \in Nat /\ mem[s][i] = Unborn /\ Quiet /\ UNCHANGED manual
      /\ requests' \in 0 .. MaxRequests
  BY OpenReady, RequestedCounts DEF Add
<1>2. mem' = [mem EXCEPT ![s] = store] /\ disk' = store /\ timer' = [timer EXCEPT ![s] = Arm(store)]
  BY DEF Add, Section, Arms
<1>3. Created(i, now) \in TidyRecords /\ Created(i, now).running = FALSE
  BY <1>1, CreatedType
<1>4. /\ put \in TidyStores
      /\ \A j \in Jobs : put[j] = IF j = i THEN Created(i, now) ELSE mem[s][j]
  BY <1>1, <1>3 DEF TidyStores
<1> HIDE DEF put
<1>5. store \in TidyStores /\ \A j \in Jobs : Repaired(put[j], store[j])
  BY <1>1, <1>4, RecomputeKeeps
<1>6. Arm(store) \in BOOLEAN
  BY DEF Arm
<1> HIDE DEF store
<1>7. Works(s) /\ mem'[s] = store /\ \A j \in Jobs : Runs(j)' = Runs(j)
  BY <1>1, <1>2, <1>5, <1>6, UserWorks
<1>8. ASSUME NEW j \in Jobs
      PROVE  JobTurns(s, j) /\ SlotStays(j)
  <2>1. MayMove(j)
    BY DEF MayMove
  <2>2. Keeps(mem[s][j], store[j], Runs(j))
    <3>1. CASE j = i
      BY <1>1, <1>3, <1>4, <1>5, <3>1, Blank DEF Keeps, Marked, Repaired
    <3>2. CASE j # i
      BY <1>4, <1>5, <3>2 DEF Keeps, Marked, Repaired
    <3> QED
      BY <3>1, <3>2
  <2> QED
    BY <1>2, <1>7, <2>1, <2>2 DEF JobTurns, Turns, SlotStays
<1> QED
  BY <1>1, <1>7, <1>8 DEF Goes

LEMMA UpdateStep ==
  ASSUME Inv, NEW s \in Services, NEW i \in Jobs, NEW p \in Patches, Update(s, i, p)
  PROVE  Goes(s)
<1> DEFINE n == Patched(i, mem[s][i], p)
           store == [mem[s] EXCEPT ![i] = n]
<1>1. /\ Ready(s) /\ mem[s] \in TidyStores /\ now \in Nat /\ mem[s][i].there /\ Quiet /\ UNCHANGED manual
      /\ mem[s][i] \in TidyRecords /\ requests' \in 0 .. MaxRequests
  BY OpenReady, RequestedCounts DEF Update
<1>2. mem' = [mem EXCEPT ![s] = store] /\ disk' = store /\ timer' = [timer EXCEPT ![s] = Arm(store)]
  BY DEF Update, Section, Arms
<1>3. /\ n \in TidyRecords /\ n.there = mem[s][i].there
      /\ n.running => mem[s][i].running
      /\ n.enabled => n.running = mem[s][i].running
  <2> DEFINE r == mem[s][i]
  <2>1. r \in TidyRecords /\ r.there
    BY <1>1
  <2> HIDE DEF r
  <2>2. /\ Patched(i, r, p) \in TidyRecords /\ Patched(i, r, p).there = r.there
        /\ Patched(i, r, p).running => r.running
        /\ Patched(i, r, p).enabled => Patched(i, r, p).running = r.running
    BY <1>1, <2>1, PatchedType
  <2> QED
    BY <2>2 DEF r
<1> HIDE DEF n
<1>4. /\ store \in TidyStores
      /\ \A j \in Jobs : store[j] = IF j = i THEN n ELSE mem[s][j]
  BY <1>1, <1>3 DEF TidyStores
<1>5. Arm(store) \in BOOLEAN
  BY DEF Arm
<1> HIDE DEF store
<1>6. Works(s) /\ mem'[s] = store /\ \A j \in Jobs : Runs(j)' = Runs(j)
  BY <1>1, <1>2, <1>4, <1>5, UserWorks
<1>7. ASSUME One, NEW j \in Jobs
      PROVE  JobTurns(s, j) /\ SlotStays(j)
  <2>1. Kept(j, disk[j], mem[s][j], Runs(j), excused)
    BY <1>1, <1>7, Known
  <2>2. j = i => MayMove(j)
    BY DEF MayMove
  <2>3. Keeps(mem[s][j], store[j], Runs(j))
    <3>1. CASE j = i
      BY <1>3, <1>4, <3>1 DEF Keeps, Marked
    <3>2. CASE j # i
      BY <1>4, <3>2 DEF Keeps, Marked
    <3> QED
      BY <3>1, <3>2
  <2>4. SlotStays(j)
    BY <1>2, <1>4, <2>1, <2>2 DEF SlotStays, Kept
  <2> QED
    BY <1>2, <1>6, <2>3, <2>4 DEF JobTurns, Turns
<1> QED
  BY <1>1, <1>6, <1>7 DEF Goes

LEMMA RemoveStep ==
  ASSUME Inv, NEW s \in Services, NEW i \in Jobs, Remove(s, i)
  PROVE  Goes(s)
<1> DEFINE store == [mem[s] EXCEPT ![i] = Removed]
<1>1. /\ Ready(s) /\ mem[s] \in TidyStores /\ Quiet /\ UNCHANGED manual
      /\ requests' \in 0 .. MaxRequests
  BY OpenReady, RequestedCounts DEF Remove
<1>2. mem' = [mem EXCEPT ![s] = store] /\ disk' = store /\ timer' = [timer EXCEPT ![s] = Arm(store)]
  BY DEF Remove, Section, Arms
<1>3. /\ store \in TidyStores
      /\ \A j \in Jobs : store[j] = IF j = i THEN Removed ELSE mem[s][j]
  BY <1>1, Blank DEF TidyStores
<1>4. Arm(store) \in BOOLEAN
  BY DEF Arm
<1> HIDE DEF store
<1>5. Works(s) /\ mem'[s] = store /\ \A j \in Jobs : Runs(j)' = Runs(j)
  BY <1>1, <1>2, <1>3, <1>4, UserWorks
<1>6. ASSUME One, NEW j \in Jobs
      PROVE  JobTurns(s, j) /\ SlotStays(j)
  <2>1. Kept(j, disk[j], mem[s][j], Runs(j), excused)
    BY <1>1, <1>6, Known
  <2>2. Keeps(mem[s][j], store[j], Runs(j))
    BY <1>3, Blank DEF Keeps, Marked
  <2>3. SlotStays(j)
    BY <1>2, <1>3, <2>1, Blank DEF SlotStays, Kept
  <2> QED
    BY <1>2, <1>5, <2>2, <2>3 DEF JobTurns, Turns
<1> QED
  BY <1>1, <1>5, <1>6 DEF Goes

LEMMA ListStep ==
  ASSUME Inv, NEW s \in Services, List(s)
  PROVE  Goes(s)
<1> DEFINE store == Maintenance(mem[s], FALSE)
<1>1. /\ Ready(s) /\ mem[s] \in TidyStores /\ now \in Nat /\ Quiet
      /\ UNCHANGED <<timer, manual, requests>>
  BY OpenReady DEF List
<1>2. mem' = [mem EXCEPT ![s] = store] /\ disk' = (IF store # mem[s] THEN store ELSE disk)
  BY DEF List, Section
<1>3. store \in TidyStores
      /\ \A j \in Jobs : Repaired(mem[s][j], store[j])
                         /\ (mem[s][j].enabled /\ mem[s][j].next # 0 => store[j].next = mem[s][j].next)
  BY <1>1, MaintenanceKeeps
<1> HIDE DEF store
<1>4. /\ disk' \in TidyStores /\ timer[s] \in BOOLEAN /\ timer' = [timer EXCEPT ![s] = timer[s]]
      /\ requests' \in 0 .. MaxRequests
  BY <1>1, <1>2, <1>3, Known
<1>5. Works(s) /\ mem'[s] = store /\ \A j \in Jobs : Runs(j)' = Runs(j)
  BY <1>1, <1>2, <1>3, <1>4, UserWorks
<1>6. ASSUME One, NEW j \in Jobs
      PROVE  JobTurns(s, j) /\ SlotStays(j)
  <2>1. Kept(j, disk[j], mem[s][j], Runs(j), excused)
    BY <1>1, <1>6, Known
  <2>2. Keeps(mem[s][j], store[j], Runs(j))
    BY <1>3 DEF Keeps, Marked, Repaired
  <2>3. CASE store = mem[s]
    BY <1>2, <1>5, <2>1, <2>3 DEF JobTurns, Turns, Kept, Keeps, SlotStays
  <2>4. CASE store # mem[s]
    BY <1>2, <1>3, <1>5, <2>1, <2>2, <2>4 DEF JobTurns, Turns, SlotStays, Kept
  <2> QED
    BY <2>3, <2>4
<1> QED
  BY <1>1, <1>5, <1>6 DEF Goes

LEMMA EnqueueRunStep ==
  ASSUME Inv, NEW s \in Services, NEW i \in Jobs, NEW mode \in Modes, EnqueueRun(s, i, mode)
  PROVE  Goes(s)
<1> DEFINE store == Maintenance(mem[s], FALSE)
           m == [NoManual EXCEPT !.phase = "queued", !.job = i, !.mode = mode]
<1>1. /\ Ready(s) /\ mem[s] \in TidyStores /\ now \in Nat /\ Quiet /\ UNCHANGED timer
      /\ manual[s].phase = "idle" /\ requests' \in 0 .. MaxRequests
      /\ UNCHANGED <<now, start, tick, catchup, current, crashes>>
  BY OpenReady, RequestedCounts DEF EnqueueRun, Quiet
<1>2. mem' = [mem EXCEPT ![s] = store] /\ disk' = disk
  BY DEF EnqueueRun, Section, Inspected
<1>3. manual' = [manual EXCEPT ![s] = m] \/ manual' = manual
  BY DEF EnqueueRun
<1>4. store \in TidyStores
      /\ \A j \in Jobs : Repaired(mem[s][j], store[j])
                         /\ (mem[s][j].enabled /\ mem[s][j].next # 0 => store[j].next = mem[s][j].next)
  BY <1>1, MaintenanceKeeps
<1>5. m \in ManualRecords /\ m.phase = "queued" /\ m.job = i
  <2>1. NoManual \in ManualRecords
    BY CronAssumption DEF NoManual, ManualRecords
  <2> QED
    BY <2>1, Known DEF ManualRecords
<1> HIDE DEF store, m
<1>6. /\ manual' = [manual EXCEPT ![s] = manual'[s]]
      /\ manual'[s] \in ManualRecords /\ manual'[s].phase \in {"idle", "queued"}
      /\ manual'[s].phase # "idle" => manual'[s].job \in Jobs
      /\ \A k \in Services : k # s => manual'[k] = manual[k]
  BY <1>1, <1>3, <1>5, Known
<1>7. mem'[s] = store /\ timer'[s] = timer[s] /\ tick'[s] = tick[s]
  BY <1>1, <1>2, Known
<1>8. Apart(s)
  BY <1>1, <1>2, <1>6, <1>7, Known DEF Apart
<1>9. disk' \in TidyStores /\ timer[s] \in BOOLEAN /\ tick[s] \in TickRecords
  BY <1>2, Known
<1>10. Works(s)
  BY <1>1, <1>4, <1>6, <1>7, <1>8, <1>9, SectionWorks
<1>11. ASSUME One, NEW j \in Jobs
       PROVE  JobTurns(s, j) /\ SlotStays(j)
  <2>1. Kept(j, disk[j], mem[s][j], Runs(j), excused)
    BY <1>1, <1>11, Known
  <2>2. ~ Reserves(manual[s], j) /\ ~ Reserves(manual'[s], j)
    BY <1>1, <1>6 DEF Reserves
  <2>3. Runs(j)' = Runs(j)
    BY <1>1, <1>6, <2>2, ManualTurns
  <2>4. Keeps(mem[s][j], store[j], Runs(j)) /\ Keeps(disk[j], disk[j], Runs(j))
    BY <1>4 DEF Keeps, Marked, Repaired
  <2> QED
    BY <1>2, <1>4, <1>7, <2>1, <2>3, <2>4 DEF JobTurns, Turns, Kept, Repaired, SlotStays
<1> QED
  BY <1>1, <1>10, <1>11 DEF Goes

LEMMA PreflightStep ==
  ASSUME Inv, NEW s \in Services, Preflight(s)
  PROVE  Goes(s)
<1> DEFINE store == Maintenance(mem[s], FALSE)
           m == [manual[s] EXCEPT !.phase = "prepare", !.at = now]
<1>0. Shaped(start[s], mem[s], timer[s], tick[s], catchup[s], manual[s]) /\ manual[s].phase = "queued"
  BY Known DEF Fits, Preflight
<1>1. /\ Ready(s) /\ mem[s] \in TidyStores /\ now \in Nat /\ Quiet /\ UNCHANGED timer
      /\ manual[s] \in ManualRecords /\ manual[s].job \in Jobs /\ requests' \in 0 .. MaxRequests
      /\ UNCHANGED <<now, start, tick, catchup, current, crashes>>
  BY <1>0, Known DEF Preflight, Quiet, Shaped, Ready
<1>2. mem' = [mem EXCEPT ![s] = store] /\ disk' = disk
  BY DEF Preflight, Section, Inspected
<1>3. manual' = [manual EXCEPT ![s] = m] \/ manual' = [manual EXCEPT ![s] = NoManual]
  BY DEF Preflight
<1>4. store \in TidyStores
      /\ \A j \in Jobs : Repaired(mem[s][j], store[j])
                         /\ (mem[s][j].enabled /\ mem[s][j].next # 0 => store[j].next = mem[s][j].next)
  BY <1>1, MaintenanceKeeps
<1>5. /\ m \in ManualRecords /\ m.phase = "prepare" /\ m.job \in Jobs
      /\ NoManual \in ManualRecords /\ NoManual.phase = "idle"
  <2>1. NoManual \in ManualRecords /\ NoManual.phase = "idle"
    BY CronAssumption DEF NoManual, ManualRecords
  <2>2. now \in 0 .. MaxTime
    BY CronAssumption DEF Inv, TypeOK
  <2> QED
    BY <1>1, <2>1, <2>2 DEF ManualRecords
<1> HIDE DEF store, m
<1>6. /\ manual' = [manual EXCEPT ![s] = manual'[s]]
      /\ manual'[s] \in ManualRecords /\ manual'[s].phase \in {"idle", "prepare"}
      /\ manual'[s].phase # "idle" => manual'[s].job \in Jobs
      /\ \A k \in Services : k # s => manual'[k] = manual[k]
  BY <1>1, <1>3, <1>5, Known
<1>7. mem'[s] = store /\ timer'[s] = timer[s] /\ tick'[s] = tick[s]
  BY <1>1, <1>2, Known
<1>8. Apart(s)
  BY <1>1, <1>2, <1>6, <1>7, Known DEF Apart
<1>9. disk' \in TidyStores /\ timer[s] \in BOOLEAN /\ tick[s] \in TickRecords
  BY <1>2, Known
<1>10. Works(s)
  BY <1>1, <1>4, <1>6, <1>7, <1>8, <1>9, SectionWorks
<1>11. ASSUME One, NEW j \in Jobs
       PROVE  JobTurns(s, j) /\ SlotStays(j)
  <2>1. Kept(j, disk[j], mem[s][j], Runs(j), excused)
    BY <1>1, <1>11, Known
  <2>2. ~ Reserves(manual[s], j) /\ ~ Reserves(manual'[s], j)
    BY <1>0, <1>6 DEF Reserves
  <2>3. Runs(j)' = Runs(j)
    BY <1>1, <1>6, <2>2, ManualTurns
  <2>4. Keeps(mem[s][j], store[j], Runs(j)) /\ Keeps(disk[j], disk[j], Runs(j))
    BY <1>4 DEF Keeps, Marked, Repaired
  <2> QED
    BY <1>2, <1>4, <1>7, <2>1, <2>3, <2>4 DEF JobTurns, Turns, Kept, Repaired, SlotStays
<1> QED
  BY <1>1, <1>10, <1>11 DEF Goes

LEMMA PrepareStep ==
  ASSUME Inv, NEW s \in Services, Prepare(s)
  PROVE  Goes(s)
<1> DEFINE i == manual[s].job
           r == [mem[s][i] EXCEPT !.running = TRUE]
           taken == mem[s][i].there /\ ~ mem[s][i].running
           store == IF taken THEN [mem[s] EXCEPT ![i] = r] ELSE mem[s]
           m == IF taken THEN [manual[s] EXCEPT !.phase = "run"] ELSE NoManual
<1>1. /\ Ready(s) /\ manual[s].phase = "prepare" /\ UNCHANGED <<timer, requests>>
      /\ UNCHANGED <<now, start, tick, catchup, current, crashes>>
  BY Known DEF Prepare, Quiet
<1>2. /\ i \in Jobs /\ mem[s] \in TidyStores /\ manual[s] \in ManualRecords
      /\ mem[s][i] \in TidyRecords
  BY <1>1, Known DEF Fits, Shaped
<1>3. /\ mem' = [mem EXCEPT ![s] = store] /\ disk' = (IF taken THEN store ELSE disk)
      /\ manual' = [manual EXCEPT ![s] = m]
  <2>1. CASE taken
    <3>1. /\ mem' = [mem EXCEPT ![s] = [mem[s] EXCEPT ![i].running = TRUE]]
          /\ disk' = [mem[s] EXCEPT ![i].running = TRUE]
          /\ manual' = [manual EXCEPT ![s].phase = "run"]
      BY <2>1 DEF Prepare, Section
    <3>2. [mem[s] EXCEPT ![i].running = TRUE] = [mem[s] EXCEPT ![i] = r]
      BY <1>2
    <3>3. [manual EXCEPT ![s].phase = "run"] = [manual EXCEPT ![s] = [manual[s] EXCEPT !.phase = "run"]]
      BY Known
    <3> QED
      BY <2>1, <3>1, <3>2, <3>3
  <2>2. CASE ~ taken
    <3>1. mem' = mem /\ disk' = disk /\ manual' = [manual EXCEPT ![s] = NoManual]
      BY <2>2 DEF Prepare
    <3>2. mem = [mem EXCEPT ![s] = mem[s]]
      BY Known
    <3> QED
      BY <2>2, <3>1, <3>2
  <2> QED
    BY <2>1, <2>2
<1>4. taken => r \in TidyRecords /\ r.there = mem[s][i].there /\ r.enabled = mem[s][i].enabled
               /\ r.next = mem[s][i].next /\ r.running = TRUE
  BY <1>2, Marking
<1>5. /\ store \in TidyStores
      /\ \A j \in Jobs : store[j] = IF taken /\ j = i THEN r ELSE mem[s][j]
  BY <1>2, <1>4 DEF TidyStores
<1>6. /\ m \in ManualRecords /\ (m.phase # "idle" => m.job \in Jobs)
      /\ IF taken THEN m.phase = "run" /\ m.job = i ELSE m.phase = "idle"
  <2>1. NoManual \in ManualRecords /\ NoManual.phase = "idle"
    BY CronAssumption DEF NoManual, ManualRecords
  <2>2. [manual[s] EXCEPT !.phase = "run"] \in ManualRecords
        /\ [manual[s] EXCEPT !.phase = "run"].phase = "run"
        /\ [manual[s] EXCEPT !.phase = "run"].job = i
    BY <1>2 DEF ManualRecords
  <2> QED
    BY <1>2, <2>1, <2>2
<1>7. taken => mem[s][i].there /\ ~ mem[s][i].running
  OBVIOUS
<1> HIDE DEF r, taken, store, m
<1>8. mem'[s] = store /\ manual'[s] = m /\ timer'[s] = timer[s] /\ tick'[s] = tick[s]
      /\ \A k \in Services : k # s => manual'[k] = manual[k]
  BY <1>1, <1>3, Known
<1>9. Apart(s)
  BY <1>1, <1>3, <1>8, Known DEF Apart
<1>10. disk' \in TidyStores /\ timer[s] \in BOOLEAN /\ tick[s] \in TickRecords /\ requests' \in 0 .. MaxRequests
  BY <1>1, <1>3, <1>5, Known
<1>11. Works(s)
  BY <1>1, <1>5, <1>6, <1>8, <1>9, <1>10, SectionWorks
<1>12. ASSUME One, NEW j \in Jobs
       PROVE  JobTurns(s, j) /\ SlotStays(j)
  <2>1. Kept(j, disk[j], mem[s][j], Runs(j), excused)
    BY <1>1, <1>12, Known
  <2>2. ~ Reserves(manual[s], j) /\ (Reserves(m, j) <=> taken /\ j = i)
    BY <1>1, <1>6 DEF Reserves
  <2>3. CASE taken /\ j = i
    <3>1. Runs(j)' = Runs(j) \cup {<<"manual", s>>}
      BY <1>1, <1>8, <2>2, <2>3, ManualTurns
    <3>2. store[j] = r /\ disk'[j] = store[j] /\ mem'[s][j] = store[j] /\ r.there = TRUE
      BY <1>2, <1>3, <1>4, <1>5, <1>7, <1>8, <2>3 DEF TidyRecords, JobRecords
    <3> QED
      BY <1>4, <1>7, <2>1, <2>3, <3>1, <3>2 DEF JobTurns, Turns, SlotStays, Kept
  <2>4. CASE ~ (taken /\ j = i)
    <3>1. Runs(j)' = Runs(j)
      BY <1>1, <1>8, <2>2, <2>4, ManualTurns
    <3>2. store[j] = mem[s][j] /\ mem'[s][j] = mem[s][j] /\ disk'[j] \in {disk[j], mem[s][j]}
      BY <1>3, <1>5, <1>8, <2>4
    <3> QED
      BY <2>1, <3>1, <3>2 DEF JobTurns, Turns, SlotStays, Keeps, Kept
  <2> QED
    BY <2>3, <2>4
<1> QED
  BY <1>1, <1>11, <1>12 DEF Goes

LEMMA ManualRunEndsStep ==
  ASSUME Inv, NEW s \in Services, NEW status \in Results, ManualRunEnds(s, status)
  PROVE  Goes(s)
<1> DEFINE m == [manual[s] EXCEPT !.phase = "finish", !.status = status, !.end = now]
<1>1. /\ Ready(s) /\ manual[s].phase = "run" /\ UNCHANGED <<disk, mem, timer, requests>>
      /\ UNCHANGED <<now, start, tick, catchup, current, crashes>>
  BY Known DEF ManualRunEnds, Quiet
<1>2. manual' = [manual EXCEPT ![s] = m]
  BY DEF ManualRunEnds
<1>3. manual[s] \in ManualRecords /\ manual[s].job \in Jobs /\ now \in 0 .. MaxTime
  BY <1>1, Known DEF Fits, Shaped
<1>4. m \in ManualRecords /\ m.phase = "finish" /\ m.job = manual[s].job
  BY <1>3 DEF ManualRecords
<1> HIDE DEF m
<1>5. mem'[s] = mem[s] /\ manual'[s] = m /\ timer'[s] = timer[s] /\ tick'[s] = tick[s]
      /\ \A k \in Services : k # s => manual'[k] = manual[k]
  BY <1>1, <1>2, Known
<1>6. Apart(s)
  BY <1>1, <1>2, <1>5, Known DEF Apart
<1>7. /\ disk' \in TidyStores /\ timer[s] \in BOOLEAN /\ tick[s] \in TickRecords
      /\ requests' \in 0 .. MaxRequests /\ mem[s] \in TidyStores
  BY <1>1, Known
<1>8. Works(s)
  BY <1>1, <1>3, <1>4, <1>5, <1>6, <1>7, SectionWorks
<1>9. ASSUME One, NEW j \in Jobs
      PROVE  JobTurns(s, j) /\ SlotStays(j)
  <2>1. Reserves(manual[s], j) <=> Reserves(manual'[s], j)
    BY <1>1, <1>4, <1>5 DEF Reserves
  <2>2. Runs(j)' = Runs(j)
    BY <1>1, <1>5, <2>1, ManualTurns
  <2> QED
    BY <1>1, <1>9, <2>2, StoreUntouched
<1> QED
  BY <1>1, <1>8, <1>9 DEF Goes

LEMMA FinishManualRunStep ==
  ASSUME Inv, NEW s \in Services, FinishManualRun(s)
  PROVE  Goes(s)
<1> DEFINE i == manual[s].job
           o == [job |-> i, start |-> manual[s].at, end |-> manual[s].end, status |-> manual[s].status]
           r == Applied(i, mem[s][i], o, manual[s].mode = "force")
           merged == Merged(s, i, r)
           store == Maintenance(merged, TRUE)
           b == [tick[s] EXCEPT !.same = FALSE]
<1>1. /\ Ready(s) /\ manual[s].phase = "finish" /\ UNCHANGED <<now, start, catchup, current, crashes, requests>>
      /\ manual' = [manual EXCEPT ![s] = NoManual]
  BY Known DEF FinishManualRun
<1>2. /\ i \in Jobs /\ mem[s] \in TidyStores /\ manual[s] \in ManualRecords /\ tick[s] \in TickRecords
      /\ mem[s][i] \in TidyRecords /\ now \in Nat /\ disk \in TidyStores
  BY <1>1, Known DEF Fits, Shaped
<1>3. NoManual \in ManualRecords /\ NoManual.phase = "idle"
  BY CronAssumption DEF NoManual, ManualRecords
<1>4. /\ manual'[s] = NoManual
      /\ \A k \in Services : k # s => manual'[k] = manual[k]
  BY <1>1, Known
<1>5. \A j : Reserves(manual[s], j) <=> j = i
  BY <1>1 DEF Reserves
<1>6. \A j : ~ Reserves(manual'[s], j)
  BY <1>3, <1>4 DEF Reserves
<1>7. /\ timer[s] \in BOOLEAN /\ requests' \in 0 .. MaxRequests
      /\ <<"manual", s>> \in Runs(i) => <<"manual", s>> \in ResultsOf(i)
  <2>1. "manual" # "tick" /\ "manual" # "catchup"
    OBVIOUS
  <2>2. <<"manual", s>> \in Runs(i) => <<"manual", s>> \in ResultsOf(i)
    BY <1>1, <2>1 DEF ResultsOf
  <2> QED
    BY <1>1, <2>2, Known
<1>8. CASE mem[s][i].there
  <2>1. /\ mem' = [mem EXCEPT ![s] = store] /\ disk' = store /\ timer' = [timer EXCEPT ![s] = Arm(store)]
        /\ tick' = [tick EXCEPT ![s].same = FALSE]
    BY <1>8 DEF FinishManualRun, Section, Arms
  <2>2. tick' = [tick EXCEPT ![s] = b]
    BY <2>1, Known
  <2>3. /\ b \in TickRecords /\ b.phase = tick[s].phase
        /\ b.todo = tick[s].todo /\ b.active = tick[s].active /\ b.done = tick[s].done
    BY <1>2 DEF TickRecords
  <2>4. o \in Outcomes
    <3>1. 0 .. MaxTime \in SUBSET Nat
      BY CronAssumption
    <3>2. manual[s].end \in Nat
      BY <1>2, <3>1 DEF ManualRecords
    <3> QED
      BY <1>2, <3>2 DEF ManualRecords, Outcomes
  <2>5. r \in TidyRecords /\ ~ r.running
    <3> DEFINE m0 == mem[s][i]
               keep == manual[s].mode = "force"
    <3>1. keep \in BOOLEAN /\ m0 \in TidyRecords /\ m0.there
      BY <1>2, <1>8
    <3> HIDE DEF m0, keep, o
    <3>2. Applied(i, m0, o, keep) \in TidyRecords /\ ~ Applied(i, m0, o, keep).running
      BY <1>2, <2>4, <3>1, AppliedEnds
    <3> QED
      BY <3>2 DEF m0, keep
  <2> HIDE DEF r
  <2>6. /\ merged \in TidyStores
        /\ \A j \in Jobs : j # i => merged[j] = disk[j]
        /\ ~ merged[i].running
    <3>1. disk[i] \in TidyRecords /\ (~ disk[i].there => ~ disk[i].running)
      BY <1>2, Known DEF TidyRecords
    <3>2. merged = [disk EXCEPT ![i] = IF disk[i].there \/ ~ r.there THEN r ELSE disk[i]]
      BY DEF Merged
    <3> QED
      BY <1>2, <2>5, <3>1, <3>2 DEF TidyStores
  <2> HIDE DEF merged
  <2>7. store \in TidyStores
        /\ \A j \in Jobs : Repaired(merged[j], store[j])
                           /\ (merged[j].enabled /\ merged[j].next # 0 /\ ~ merged[j].last >= merged[j].next
                               => store[j].next = merged[j].next)
    BY <1>2, <2>6, MaintenanceKeeps
  <2>8. Arm(store) \in BOOLEAN
    BY DEF Arm
  <2> HIDE DEF b, store
  <2>9. /\ mem'[s] = store /\ timer'[s] = Arm(store) /\ tick'[s] = b
        /\ \A k \in Services : k # s => tick'[k] = tick[k]
    BY <2>1, <2>2, Known
  <2>10. Apart(s)
    BY <1>1, <1>4, <2>1, <2>2, <2>9, Known DEF Apart
  <2>11. Works(s)
    BY <1>1, <1>3, <1>4, <1>7, <2>1, <2>3, <2>7, <2>8, <2>9, <2>10, SectionWorks DEF Empty
  <2>12. ASSUME One, NEW j \in Jobs
         PROVE  JobTurns(s, j) /\ SlotStays(j)
    <3>1. disk'[j] = store[j] /\ mem'[s][j] = store[j]
      BY <2>1, <2>9
    <3>2. \A k \in Services : Holds(tick[k], j) <=> Holds(tick'[k], j)
      BY <2>3, <2>9 DEF Holds
    <3>3. CASE j = i
      <4>1. <<"manual", s>> \in Runs(j) /\ Runs(j)' = Runs(j) \ {<<"manual", s>>}
        BY <1>1, <1>4, <1>5, <1>6, <3>2, <3>3, ManualTurns
      <4>2. MayMove(j)
        BY <1>7, <3>3, <4>1, ResultGone DEF MayMove
      <4>3. ~ store[j].running
        BY <2>6, <2>7, <3>3 DEF Repaired
      <4> QED
        BY <3>1, <4>1, <4>2, <4>3 DEF JobTurns, Turns, SlotStays
    <3>4. CASE j # i
      <4>1. Runs(j)' = Runs(j)
        BY <1>1, <1>4, <1>5, <1>6, <3>2, <3>4, ManualTurns
      <4>2. merged[j] = disk[j]
        BY <2>6, <3>4
      <4> QED
        BY <2>7, <3>1, <4>1, <4>2 DEF JobTurns, Turns, SlotStays, Keeps, Marked, Repaired
    <3> QED
      BY <3>3, <3>4
  <2> QED
    BY <1>1, <2>11, <2>12 DEF Goes
<1>9. CASE ~ mem[s][i].there
  <2>1. UNCHANGED <<mem, disk, timer, tick>>
    BY <1>9 DEF FinishManualRun
  <2>2. Apart(s) /\ mem'[s] = mem[s] /\ timer'[s] = timer[s] /\ tick'[s] = tick[s]
    BY <1>1, <1>4, <2>1, Known DEF Apart
  <2>3. Works(s)
    BY <1>1, <1>2, <1>3, <1>4, <1>7, <2>1, <2>2, SectionWorks
  <2>4. ASSUME One, NEW j \in Jobs
        PROVE  JobTurns(s, j) /\ SlotStays(j)
    <3>1. Kept(j, disk[j], mem[s][j], Runs(j), excused)
      BY <1>1, <2>4, Known
    <3>2. \A k \in Services : Holds(tick[k], j) <=> Holds(tick'[k], j)
      BY <2>1
    <3>3. SlotStays(j)
      BY <2>1 DEF SlotStays
    <3>4. CASE j = i
      <4>1. <<"manual", s>> \in Runs(j) /\ Runs(j)' = Runs(j) \ {<<"manual", s>>}
        BY <1>1, <1>4, <1>5, <1>6, <3>2, <3>4, ManualTurns
      <4>2. ~ disk[j].there /\ ~ disk[j].running /\ ~ mem[s][j].running
        BY <1>2, <1>9, <3>1, <3>4, Known DEF Kept, TidyRecords
      <4>3. disk'[j] = disk[j] /\ mem'[s][j] = mem[s][j]
        BY <2>1
      <4> QED
        BY <3>1, <3>3, <4>1, <4>2, <4>3 DEF JobTurns, Turns, Kept
    <3>5. CASE j # i
      <4>1. Runs(j)' = Runs(j)
        BY <1>1, <1>4, <1>5, <1>6, <3>2, <3>5, ManualTurns
      <4> QED
        BY <1>1, <2>1, <2>4, <4>1, StoreUntouched
    <3> QED
      BY <3>4, <3>5
  <2> QED
    BY <1>1, <2>3, <2>4 DEF Goes
<1> QED
  BY <1>8, <1>9
-----------------------------------------------------------------------------
(* Steps of the process. *)

(* A service that has not been started. *)
LEMMA Unstarted ==
  Shaped("none", NoStore, FALSE, NoBatch, NoCatchup, NoManual)
<1>1. 0 \in 0 .. MaxTime
  BY CronAssumption
<1> QED
  BY <1>1 DEF Shaped, StartPhases, TickRecords, CatchupRecords, ManualRecords, NoBatch, NoCatchup,
              NoManual, Empty

(* Fits is the type of the services. *)
LEMMA FitsType ==
  ASSUME Inv, start' \in [Services -> StartPhases], timer' \in [Services -> BOOLEAN],
         UNCHANGED <<disk, mem, tick, catchup, manual, crashes, requests>>,
         now' \in 1 .. MaxTime, current' \in Services \cup {0}, excused' \subseteq Jobs
  PROVE  TypeOK'
BY DEF Inv, TypeOK, StartPhases

(* The process leaves the stores and the runs alone. *)
LEMMA ProcessStep ==
  ASSUME Inv, Remember, UNCHANGED <<disk, mem, tick, catchup, manual, crashes, requests>>,
         now' \in 1 .. MaxTime, current' \in Services \cup {0},
         start' \in [Services -> StartPhases], timer' \in [Services -> BOOLEAN],
         \A s \in Services : Fits(s)', Lives',
         One' => \A s \in Services : Ready(s)' => One /\ Ready(s)
  PROVE  Inv'
<1>1. \A j \in Jobs : Runs(j)' = Runs(j)
  BY RunsAre
<1>2. \A j \in Jobs : j \in excused' <=> (Runs(j) # {} /\ (j \in excused \/ ~ disk[j].enabled \/ ~ One'))
  BY <1>1, OneOrReplaced DEF Remember
<1>3. TypeOK' /\ disk' \in TidyStores
  <2>1. excused' \subseteq Jobs
    BY DEF Remember
  <2> QED
    BY <2>1, FitsType DEF Inv
<1>4. Markers'
  <2> SUFFICES ASSUME One', NEW s \in Services, Ready(s)', NEW j \in Jobs
               PROVE  Kept(j, disk[j], mem[s][j], Runs(j), excused)'
    BY DEF Markers
  <2>1. Kept(j, disk[j], mem[s][j], Runs(j), excused)
    BY DEF Inv, Markers
  <2>2. disk' = disk /\ mem' = mem /\ Runs(j)' = Runs(j)
    BY <1>1
  <2>3. Kept(j, disk[j], mem[s][j], Runs(j), excused')
    BY <1>2, <2>1 DEF Kept
  <2> QED
    BY <2>2, <2>3
<1>5. Alone' /\ Covered'
  BY <1>1, <1>2 DEF Inv, Alone, Covered
<1> QED
  BY <1>3, <1>4, <1>5 DEF Inv

LEMMA AdvanceStep ==
  ASSUME Inv, Advance, Remember
  PROVE  Inv'
<1>1. UNCHANGED <<disk, mem, timer, start, tick, catchup, manual, current, crashes, requests>>
  BY DEF Advance
<1>2. /\ now' \in 1 .. MaxTime /\ current' \in Services \cup {0}
      /\ start' \in [Services -> StartPhases] /\ timer' \in [Services -> BOOLEAN]
  BY CronAssumption DEF Advance, Inv, TypeOK, StartPhases
<1>3. \A s \in Services : Fits(s)'
  BY <1>1 DEF Inv, Fits
<1>4. Lives'
  BY <1>1 DEF Inv, Lives
<1>5. One' => \A s \in Services : Ready(s)' => One /\ Ready(s)
  BY <1>1 DEF One, Ready
<1> QED
  BY <1>1, <1>2, <1>3, <1>4, <1>5, ProcessStep

LEMMA StartServiceStep ==
  ASSUME Inv, NEW s \in Services, StartService(s), Remember
  PROVE  Inv'
<1>1. UNCHANGED <<now, disk, mem, tick, catchup, manual, crashes, requests>> /\ start[s] = "none"
  BY DEF StartService
<1>2. /\ start \in [Services -> StartPhases] /\ timer \in [Services -> BOOLEAN]
      /\ current \in Services \cup {0} /\ now \in 1 .. MaxTime
  BY DEF Inv, TypeOK, StartPhases
<1>3. /\ start' = [start EXCEPT ![s] = "load"]
      /\ timer' = [k \in Services |-> timer[k] /\ k # current]
      /\ current' = s
  BY DEF StartService
<1>4. /\ now' \in 1 .. MaxTime /\ current' \in Services \cup {0}
      /\ start' \in [Services -> StartPhases] /\ timer' \in [Services -> BOOLEAN]
  BY <1>1, <1>2, <1>3 DEF StartPhases
<1>5. /\ start'[s] = "load"
      /\ \A k \in Services : k # s => start'[k] = start[k]
      /\ \A k \in Services : timer'[k] \in BOOLEAN /\ (timer'[k] => timer[k])
  BY <1>2, <1>3
<1>6. ASSUME NEW k \in Services
      PROVE  Fits(k)'
  <2>1. Fits(k)
    BY DEF Inv
  <2>2. CASE k = s
    BY <1>1, <1>5, <2>1, <2>2 DEF Fits, Shaped, StartPhases
  <2>3. CASE k # s
    BY <1>1, <1>5, <2>1, <2>3 DEF Fits, Shaped
  <2> QED
    BY <2>2, <2>3
<1>7. s # 0
  BY CronAssumption DEF Services
<1>8. Lives'
  BY <1>3, <1>5, <1>7 DEF Lives
<1>9. One' => \A k \in Services : ~ Ready(k)'
  <2>1. CASE current = 0
    BY <1>5, <2>1 DEF Inv, Lives, Ready
  <2>2. CASE current # 0
    <3>1. current \in Services /\ start[current] # "none"
      BY <1>2, <2>2 DEF Inv, Lives
    <3>2. current # s /\ start'[current] # "none" /\ start'[s] # "none"
      BY <1>1, <1>5, <3>1
    <3> QED
      BY <3>1, <3>2 DEF One
  <2> QED
    BY <2>1, <2>2
<1> QED
  BY <1>1, <1>4, <1>6, <1>8, <1>9, ProcessStep

LEMMA CrashStep ==
  ASSUME Inv, Crash, Remember
  PROVE  Inv'
<1>1. /\ mem' = [s \in Services |-> NoStore] /\ timer' = [s \in Services |-> FALSE]
      /\ start' = [s \in Services |-> "none"] /\ tick' = [s \in Services |-> NoBatch]
      /\ catchup' = [s \in Services |-> NoCatchup] /\ manual' = [s \in Services |-> NoManual]
      /\ current' = 0 /\ UNCHANGED <<now, disk, requests>>
  BY DEF Crash
<1>2. \A s \in Services : Fits(s)'
  BY <1>1, Unstarted DEF Fits
<1>3. ASSUME NEW j \in Jobs
      PROVE  Runs(j)' = {}
  <2>1. ~ Holds(NoBatch, j) /\ ~ Holds(NoCatchup, j) /\ ~ Reserves(NoManual, j)
    BY DEF Holds, Reserves, NoBatch, NoCatchup, NoManual
  <2> QED
    BY <1>1, <2>1, RunsAre DEF RunsIn
<1>4. TypeOK'
  <2>1. crashes' \in 0 .. MaxCrashes
    BY CronAssumption DEF Inv, TypeOK, Crash
  <2>2. excused' \subseteq Jobs
    BY DEF Remember
  <2>3. /\ NoBatch \in TickRecords /\ NoCatchup \in CatchupRecords /\ NoManual \in ManualRecords
    BY Unstarted DEF Shaped
  <2>4. /\ mem' \in [Services -> Stores \cup {NoStore}] /\ timer' \in [Services -> BOOLEAN]
        /\ start' \in [Services -> {"none", "load", "plan", "run", "finish", "up"}]
        /\ tick' \in [Services -> TickRecords] /\ catchup' \in [Services -> CatchupRecords]
        /\ manual' \in [Services -> ManualRecords]
    BY <1>1, <2>3
  <2>5. now' \in 1 .. MaxTime /\ disk' \in Stores /\ current' \in Services \cup {0}
        /\ requests' \in 0 .. MaxRequests
    BY <1>1 DEF Inv, TypeOK
  <2> QED
    BY <2>1, <2>2, <2>4, <2>5 DEF TypeOK, TickRecords, CatchupRecords, ManualRecords
<1>5. disk' \in TidyStores
  BY <1>1 DEF Inv
<1>6. Lives' /\ Markers'
  BY <1>1 DEF Lives, Markers, Ready
<1>7. Alone' /\ Covered'
  BY <1>3 DEF Alone, Covered
<1> QED
  BY <1>2, <1>4, <1>5, <1>6, <1>7 DEF Inv

-----------------------------------------------------------------------------
(* The invariant is inductive. *)

LEMMA InitInv == Init => Inv
<1> SUFFICES ASSUME Init
             PROVE  Inv
  OBVIOUS
<1> USE DEF Init
<1>1. \A s \in Services : Fits(s)
  BY Unstarted DEF Fits
<1>2. disk \in TidyStores
  <2>1. PICK J \in SUBSET Jobs : disk = [j \in Jobs |-> IF j \in J THEN Created(j, 1) ELSE Unborn]
    OBVIOUS
  <2>2. \A j \in Jobs : Created(j, 1) \in TidyRecords
    BY CreatedType
  <2>3. Unborn \in TidyRecords
    BY Blank DEF TidyRecords
  <2> QED
    BY <2>1, <2>2, <2>3 DEF TidyStores
<1>3. TypeOK
  <2>1. 1 \in 1 .. MaxTime /\ 0 \in 0 .. MaxCrashes /\ 0 \in 0 .. MaxRequests
    BY CronAssumption
  <2>2. disk \in Stores
    BY <1>2 DEF TidyStores, Stores, TidyRecords
  <2>3. /\ NoBatch \in TickRecords /\ NoCatchup \in CatchupRecords /\ NoManual \in ManualRecords
    BY Unstarted DEF Shaped
  <2>4. /\ mem \in [Services -> Stores \cup {NoStore}] /\ timer \in [Services -> BOOLEAN]
        /\ start \in [Services -> {"none", "load", "plan", "run", "finish", "up"}]
        /\ tick \in [Services -> TickRecords] /\ catchup \in [Services -> CatchupRecords]
        /\ manual \in [Services -> ManualRecords]
    BY <2>3
  <2> QED
    BY <2>1, <2>2, <2>4 DEF TypeOK, TickRecords, CatchupRecords, ManualRecords
<1>4. ASSUME NEW j \in Jobs
      PROVE  Runs(j) = {}
  <2>1. ~ Holds(NoBatch, j) /\ ~ Holds(NoCatchup, j) /\ ~ Reserves(NoManual, j)
    BY DEF Holds, Reserves, NoBatch, NoCatchup, NoManual
  <2> QED
    BY <2>1, RunsAre DEF RunsIn
<1>5. Lives /\ Markers
  BY DEF Lives, Markers, Ready
<1>6. Alone /\ Covered
  BY <1>4 DEF Alone, Covered
<1> QED
  BY <1>1, <1>2, <1>3, <1>5, <1>6 DEF Inv

(* Every step of a service that has loaded the store. *)
LEMMA ServiceGoes ==
  ASSUME Inv, NEW s \in Services, TickSteps(s) \/ StartSteps(s) \/ ManualSteps(s) \/ UserSteps(s)
  PROVE  Goes(s) \/ StartLoads(s)
<1>1. CASE TickSteps(s)
  BY <1>1, FireStep, ReserveStep, ApplyOutcomesStep, TickEndsStep, RunDueJobStep, DueJobEndsStep
  DEF TickSteps
<1>2. CASE StartSteps(s)
  BY <1>2, PlanCatchupStep, ApplyCatchupStep, StartFinishesStep, RunCandidateStep, CandidateEndsStep
  DEF StartSteps
<1>3. CASE ManualSteps(s)
  BY <1>3, PreflightStep, PrepareStep, FinishManualRunStep, ManualRunEndsStep DEF ManualSteps
<1>4. CASE UserSteps(s)
  BY <1>4, ListStep, AddStep, RemoveStep, UpdateStep, EnqueueRunStep DEF UserSteps
<1> QED
  BY <1>1, <1>2, <1>3, <1>4

LEMMA NextInv ==
  ASSUME Inv, Next
  PROVE  Inv'
<1>1. Remember /\ Step
  BY DEF Next
<1>2. ASSUME NEW s \in Services, Goes(s)
      PROVE  Inv'
  BY <1>1, <1>2, ServiceStep DEF Goes
<1>3. ASSUME NEW s \in Services, StartLoads(s)
      PROVE  Inv'
  BY <1>1, <1>3, StartLoadsStep, ServiceStep
<1>4. CASE Advance
  BY <1>1, <1>4, AdvanceStep
<1>5. CASE Crash
  BY <1>1, <1>5, CrashStep
<1>6. ASSUME NEW s \in Services, StartService(s)
      PROVE  Inv'
  BY <1>1, <1>6, StartServiceStep
<1> QED
  BY <1>1, <1>2, <1>3, <1>4, <1>5, <1>6, ServiceGoes DEF Step

LEMMA StutterInv ==
  ASSUME Inv, UNCHANGED vars
  PROVE  Inv'
<1> USE DEF vars
<1>1. \A j \in Jobs : Runs(j)' = Runs(j)
  BY RunsAre
<1>2. TypeOK' /\ disk' \in TidyStores
  BY DEF Inv, TypeOK
<1>3. \A s \in Services : Fits(s)'
  BY DEF Inv, Fits
<1>4. Lives'
  BY DEF Inv, Lives
<1>5. Markers' /\ Alone' /\ Covered'
  BY <1>1 DEF Inv, Markers, Kept, One, Ready, Alone, Covered
<1> QED
  BY <1>2, <1>3, <1>4, <1>5 DEF Inv

LEMMA StepInv == Inv /\ [Next]_vars => Inv'
BY NextInv, StutterInv

LEMMA InvHolds == Spec => []Inv
<1> QED
  BY InitInv, StepInv, PTL DEF Spec

-----------------------------------------------------------------------------
(* What follows. *)

(* The store file, the services' memory, their ticks, catch-ups and manual *)
(* runs always have the shape the code gives them.                         *)
THEOREM TypesHold == Spec => []TypeOK
<1>1. Inv => TypeOK
  BY DEF Inv
<1> QED
  BY <1>1, InvHolds, PTL

(* A tick, the catch-up at startup and a manual run never execute the same *)
(* job at once, unless the job was disabled or removed, or the service     *)
(* replaced, during the run.                                               *)
THEOREM NeverTwiceAtATime == Spec => []OneRunAtATime
<1>1. Inv => OneRunAtATime
  <2> SUFFICES ASSUME Inv, NEW j \in Jobs, j \notin excused
               PROVE  Cardinality(Runs(j)) <= 1
    BY DEF OneRunAtATime
  <2>1. \A p, q \in Runs(j) : p = q
    BY DEF Inv, Alone
  <2>2. Runs(j) = {} \/ \E p : Runs(j) = {p}
    BY <2>1
  <2>3. Cardinality(Runs(j)) \in {0, 1}
    BY <2>2, FS_EmptySet, FS_Singleton
  <2> QED
    BY <2>3
<1> QED
  BY <1>1, InvHolds, PTL

(* Once start has cleared the markers of a former life, a marker in the    *)
(* file belongs to a run in progress, so that no job is kept from running  *)
(* by a run that is over.                                                  *)
THEOREM MarkersHold == Spec => []MarkersAreHeld
<1>1. Inv => MarkersAreHeld
  <2> SUFFICES ASSUME Inv, current # 0, ~ Replaced, start[current] # "load",
                      NEW j \in Jobs, disk[j].running
               PROVE  Runs(j) # {}
    BY DEF MarkersAreHeld
  <2>1. current \in Services /\ start[current] # "none"
    BY DEF Inv, TypeOK, Lives
  <2>2. One /\ Ready(current)
    BY <2>1, OneOrReplaced DEF Ready
  <2>3. Kept(j, disk[j], mem[current][j], Runs(j), excused)
    BY <2>1, <2>2 DEF Inv, Markers
  <2> QED
    BY <2>3 DEF Kept
<1> QED
  BY <1>1, InvHolds, PTL

(* A slot that has come and has not been run is moved only by a result of  *)
(* its own job, an update of it, a deferral at startup, or the             *)
(* recomputation of all jobs at the end of start and in add.               *)
THEOREM SlotsHold == Spec => SlotsAreKept
<1> DEFINE Stays == \A j \in Jobs :
             Owed(j) /\ disk'[j].enabled /\ disk'[j].next # disk[j].next => MayMove(j)
<1>1. Inv /\ [Next]_vars => [Stays]_vars
  <2> SUFFICES ASSUME Inv, Next, NEW j \in Jobs,
                      Owed(j), disk'[j].enabled, disk'[j].next # disk[j].next
               PROVE  MayMove(j)
    OBVIOUS
  <2>1. One
    BY OneOrReplaced DEF Owed
  <2>2. disk[j].enabled /\ disk[j].next # 0 /\ ~ disk[j].last >= disk[j].next
    <3>1. disk[j].last \in Nat /\ disk[j].next \in Nat
      BY CronAssumption DEF Inv, TidyStores, TidyRecords, JobRecords
    <3>2. disk[j].last < disk[j].next
      BY DEF Owed
    <3> QED
      BY <3>1, <3>2 DEF Owed, Due
  <2>3. disk' # disk
    OBVIOUS
  <2>4. SlotStays(j) => MayMove(j)
    BY <2>2 DEF SlotStays
  <2>5. PICK s \in Services : Goes(s) \/ StartLoads(s)
    BY <2>3, ServiceGoes DEF Next, Step, StartService, Advance, Crash
  <2>6. SlotStays(j)
    BY <2>1, <2>5, StartLoadsStep DEF Goes
  <2> QED
    BY <2>4, <2>6
<1> QED
  BY <1>1, InvHolds, PTL DEF Spec, SlotsAreKept

-----------------------------------------------------------------------------
(* Jobs that are gone. *)

(* No operator on stores makes a job there that was not. *)
LEMMA NothingAppears ==
  ASSUME NEW store, NEW j \in Jobs, ~ store[j].there
  PROVE  /\ Recompute(store)[j] = store[j]
         /\ \A e \in BOOLEAN : Maintenance(store, e)[j] = store[j]
         /\ \A done : ApplyAll(store, done)[j] = store[j]
BY DEF Recompute, Maintenance, ApplyAll

LEMMA TickRevivesNothing ==
  ASSUME Inv, NEW s \in Services, TickSteps(s), NEW j \in Jobs, ~ disk[j].there
  PROVE  ~ disk'[j].there
<1>1. disk[j] \in JobRecords
  BY Known DEF TidyRecords
<1>2. CASE Reserve(s)
  <2> DEFINE due == {i \in Jobs : Runnable(disk[i])}
  <2>1. \/ disk' = Maintenance(disk, TRUE)
        \/ disk' = [i \in Jobs |-> [disk[i] EXCEPT !.running = @ \/ i \in due]]
    BY <1>2 DEF Reserve, Section
  <2>2. [disk[j] EXCEPT !.running = @ \/ j \in due].there = disk[j].there
    BY <1>1 DEF JobRecords
  <2> HIDE DEF due
  <2>3. CASE disk' = Maintenance(disk, TRUE)
    BY <2>3, NothingAppears
  <2>4. CASE disk' = [i \in Jobs |-> [disk[i] EXCEPT !.running = @ \/ i \in due]]
    BY <2>2, <2>4
  <2> QED
    BY <2>1, <2>3, <2>4
<1>3. CASE ApplyOutcomes(s)
  <2> DEFINE applied == ApplyAll(disk, tick[s].done)
  <2>1. disk' = Maintenance(applied, FALSE)
    BY <1>3 DEF ApplyOutcomes, Section
  <2>2. ~ applied[j].there
    BY NothingAppears
  <2> HIDE DEF applied
  <2> QED
    BY <2>1, <2>2, NothingAppears
<1> QED
  BY <1>2, <1>3 DEF TickSteps, Fire, TickEnds, RunDueJob, DueJobEnds

LEMMA StartRevivesStale ==
  ASSUME Inv, NEW s \in Services, StartSteps(s), NEW j \in Jobs, ~ disk[j].there, disk'[j].there
  PROVE  mem[s][j].there /\ SavesMemory(s)
<1>1. Shaped(start[s], mem[s], timer[s], tick[s], catchup[s], manual[s]) /\ disk[j] \in JobRecords
  BY Known DEF Fits, TidyRecords
<1>2. ~ StartLoads(s)
  <2> SUFFICES ASSUME StartLoads(s)
               PROVE  FALSE
    OBVIOUS
  <2>1. Loaded(s) = disk
    BY <1>1 DEF StartLoads, Loaded, Shaped
  <2>2. disk' = Cleared(disk) \/ disk' = disk
    BY <2>1 DEF StartLoads, Section
  <2>3. Cleared(disk)[j].there = disk[j].there
    BY <1>1 DEF Cleared, JobRecords
  <2> QED
    BY <2>2, <2>3
<1>3. ASSUME PlanCatchup(s)
      PROVE  mem[s][j].there
  <2>1. mem[s] \in TidyStores /\ mem[s][j] \in JobRecords
    BY <1>1, <1>3 DEF Shaped, PlanCatchup, TidyStores, TidyRecords
  <2>2. Loaded(s) = mem[s]
    <3>1. DOMAIN mem[s] = Jobs /\ DOMAIN NoStore = {}
      BY <2>1 DEF TidyStores, NoStore
    <3> QED
      BY <3>1 DEF Loaded
  <2>3. \E J : disk' = [i \in Jobs |-> [mem[s][i] EXCEPT !.running = @ \/ i \in J]]
    BY <1>3, <2>2 DEF PlanCatchup, Section
  <2>4. PICK J : disk' = [i \in Jobs |-> [mem[s][i] EXCEPT !.running = @ \/ i \in J]]
    BY <2>3
  <2>5. [mem[s][j] EXCEPT !.running = @ \/ j \in J].there = mem[s][j].there
    BY <2>1 DEF JobRecords
  <2> QED
    BY <2>4, <2>5
<1>4. ASSUME ApplyCatchup(s), ~ mem[s][j].there
      PROVE  FALSE
  <2> DEFINE applied == ApplyAll(mem[s], catchup[s].done)
             Deferred(i) == applied[i].enabled /\ \E d \in catchup[s].deferred : d[1] = i
             Place(i) == (CHOOSE d \in catchup[s].deferred : d[1] = i)[2]
             Turn(i) == Cardinality({k \in Jobs : Deferred(k) /\ Place(k) <= Place(i)})
             deferred == [i \in Jobs |->
               IF Deferred(i) THEN [applied[i] EXCEPT !.next = now + Stagger * Turn(i)] ELSE applied[i]]
  <2>1. disk' = Maintenance(deferred, FALSE)
    BY <1>4 DEF ApplyCatchup, Section
  <2>2. mem[s][j] \in TidyRecords
    BY <1>1, <1>4 DEF Shaped, ApplyCatchup, TidyStores
  <2>3. applied[j] = mem[s][j]
    BY <1>4, NothingAppears
  <2>4. deferred[j] = applied[j]
    BY <1>4, <2>2, <2>3 DEF TidyRecords
  <2> HIDE DEF deferred, applied
  <2> QED
    BY <1>4, <2>1, <2>3, <2>4, NothingAppears
<1>5. ASSUME StartFinishes(s), ~ mem[s][j].there
      PROVE  FALSE
  <2>1. disk' = Recompute(mem[s]) \/ disk' = disk
    BY <1>5 DEF StartFinishes, Section
  <2> QED
    BY <1>5, <2>1, NothingAppears
<1>6. /\ \A i \in Jobs : ~ RunCandidate(s, i)
      /\ \A status \in Results : ~ CandidateEnds(s, status)
  BY DEF RunCandidate, CandidateEnds
<1> QED
  BY <1>2, <1>3, <1>4, <1>5, <1>6 DEF StartSteps, SavesMemory

LEMMA ManualRevivesStale ==
  ASSUME Inv, NEW s \in Services, ManualSteps(s), NEW j \in Jobs, ~ disk[j].there, disk'[j].there
  PROVE  mem[s][j].there /\ Prepare(s)
<1>1. ~ FinishManualRun(s)
  <2> SUFFICES ASSUME FinishManualRun(s)
               PROVE  FALSE
    OBVIOUS
  <2> DEFINE m == manual[s]
             o == [job |-> m.job, start |-> m.at, end |-> m.end, status |-> m.status]
             r == Applied(m.job, mem[s][m.job], o, m.mode = "force")
             merged == Merged(s, m.job, r)
  <2>1. disk' = Maintenance(merged, TRUE) \/ disk' = disk
    BY DEF FinishManualRun, Section
  <2> HIDE DEF r
  <2>2. ~ merged[j].there
    BY Known DEF Merged, TidyStores
  <2> HIDE DEF merged
  <2> QED
    BY <2>1, <2>2, NothingAppears
<1>2. ASSUME Prepare(s)
      PROVE  mem[s][j].there
  <2> DEFINE i == manual[s].job
  <2>1. disk' = [mem[s] EXCEPT ![i].running = TRUE]
    BY <1>2 DEF Prepare, Section
  <2>2. mem[s] \in TidyStores /\ mem[s][j] \in JobRecords
    BY <1>2, Known DEF Prepare, TidyRecords
  <2>3. [mem[s][j] EXCEPT !.running = TRUE].there = mem[s][j].there
    BY <2>2 DEF JobRecords
  <2>4. disk'[j] \in {mem[s][j], [mem[s][j] EXCEPT !.running = TRUE]}
    BY <2>1, <2>2 DEF TidyStores
  <2> QED
    BY <2>3, <2>4
<1>3. ~ Preflight(s) /\ \A status \in Results : ~ ManualRunEnds(s, status)
  BY DEF Preflight, Section, ManualRunEnds
<1> QED
  BY <1>1, <1>2, <1>3 DEF ManualSteps

LEMMA UserRevivesStale ==
  ASSUME Inv, NEW s \in Services, UserSteps(s), NEW j \in Jobs, Gone(j), disk'[j].there
  PROVE  mem[s][j].there
<1>1. CASE List(s)
  <2>1. disk' = Maintenance(mem[s], FALSE) \/ disk' = disk
    BY <1>1 DEF List, Section
  <2> QED
    BY <2>1, NothingAppears DEF Gone
<1>2. ASSUME NEW i \in Jobs, Add(s, i)
      PROVE  mem[s][j].there
  <2> DEFINE store == [mem[s] EXCEPT ![i] = Created(i, now)]
  <2>1. disk' = Recompute(store) /\ i # j /\ mem[s] \in TidyStores
    BY <1>2, OpenReady DEF Add, Section, Gone
  <2>2. store[j] = mem[s][j]
    BY <2>1 DEF TidyStores
  <2> HIDE DEF store
  <2> QED
    BY <2>1, <2>2, NothingAppears
<1>3. ASSUME NEW i \in Jobs, Remove(s, i)
      PROVE  mem[s][j].there
  <2>1. disk' = [mem[s] EXCEPT ![i] = Removed] /\ mem[s] \in TidyStores
    BY <1>3, OpenReady DEF Remove, Section
  <2>2. disk'[j] = IF i = j THEN Removed ELSE mem[s][j]
    BY <2>1 DEF TidyStores
  <2> QED
    BY <2>2, Blank
<1>4. ASSUME NEW i \in Jobs, NEW p \in Patches, Update(s, i, p)
      PROVE  mem[s][j].there
  <2>1. disk' = [mem[s] EXCEPT ![i] = Patched(i, @, p)] /\ mem[s] \in TidyStores /\ mem[s][i].there
    BY <1>4, OpenReady DEF Update, Section
  <2>2. i = j \/ disk'[j] = mem[s][j]
    BY <2>1 DEF TidyStores
  <2> QED
    BY <2>1, <2>2
<1>5. \A i \in Jobs, mode \in Modes : ~ EnqueueRun(s, i, mode)
  BY DEF EnqueueRun, Section, Gone
<1> QED
  BY <1>1, <1>2, <1>3, <1>4, <1>5 DEF UserSteps

(* A job that is gone comes back to the file only after a reload, when a   *)
(* service that still has it in memory saves that memory: in the rest of   *)
(* its start, in the reservation of a manual run, or for the user.         *)
THEOREM RemovalsHold == Spec => OnlyStaleMemoryRevives
<1> DEFINE Revived(j) == Replaced /\ \E s \in Services : Stale(s, j) /\ SavesMemory(s)
           Shown == \A j \in Jobs : Gone(j) /\ disk'[j].there => Revived(j)
<1>1. Inv /\ [Next]_vars => [Shown]_vars
  <2> SUFFICES ASSUME Inv, Next, NEW j \in Jobs, Gone(j), disk'[j].there
               PROVE  Revived(j)
    OBVIOUS
  <2>1. disk' # disk /\ ~ disk[j].there
    BY DEF Gone
  <2>2. PICK s \in Services : TickSteps(s) \/ StartSteps(s) \/ ManualSteps(s) \/ UserSteps(s)
    BY <2>1 DEF Next, Step, StartService, Advance, Crash
  <2>3. mem[s][j].there /\ SavesMemory(s)
    BY <2>1, <2>2, TickRevivesNothing, StartRevivesStale, ManualRevivesStale, UserRevivesStale
    DEF SavesMemory
  <2>4. Ready(s)
    <3>1. start[s] \notin {"none", "load"} \/ Open(s) \/ manual[s].phase # "idle"
      BY <2>3 DEF SavesMemory, PlanCatchup, ApplyCatchup, StartFinishes, Prepare, UserSteps,
                  List, Add, Remove, Update, EnqueueRun
    <3> QED
      BY <3>1, Known DEF Open, Ready
  <2>5. Stale(s, j)
    <3>1. DOMAIN mem[s] = Jobs /\ DOMAIN NoStore = {}
      BY <2>4, Known DEF TidyStores, NoStore
    <3> QED
      BY <2>3, <3>1 DEF Stale
  <2>6. Replaced
    <3> SUFFICES ASSUME ~ Replaced
                 PROVE  FALSE
      OBVIOUS
    <3>1. One
      BY OneOrReplaced
    <3>2. mem[s][j].there = disk[j].there
      BY <2>4, <3>1, Known DEF Kept
    <3> QED
      BY <2>1, <2>3, <3>2
  <2> QED
    BY <2>3, <2>5, <2>6
<1> QED
  BY <1>1, InvHolds, PTL DEF Spec, OnlyStaleMemoryRevives
=============================================================================

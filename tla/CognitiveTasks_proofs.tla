------------------------ MODULE CognitiveTasks_proofs ------------------------
(***************************************************************************)
(* Proofs about the background tasks, for all numbers of tasks, agents,    *)
(* budgets and lives: the types, what crashes and restarts may cost, and   *)
(* that an ended task stays ended until there is a second runner.          *)
(*                                                                         *)
(* A runner writes to the task in its hands and to the parent of it long   *)
(* after it has looked at them, so the invariant says what it still knows: *)
(* that both exist (Hands), and that the parent is still blocked as long   *)
(* as no other runner can have released it (Alone, Blocked).               *)
(***************************************************************************)
EXTENDS CognitiveTasks, FiniteSetTheorems, WellFoundedInduction, TLAPS

Records == [status : Statuses, used : Nat, parent : Tasks \cup {NoTask}, agents : SUBSET Agents,
            by : SUBSET Agents]
RunnerRecords == [pc : Pcs, todo : SUBSET Agents, task : Tasks \cup {NoTask},
                  used : Nat, outcome : {"more", "ended"}, unread : SUBSET Agents]

(* A runner that is on belongs to a life that has begun, and to the        *)
(* present one if no life has ended by an in-process restart.              *)
LivesCounted == latest # 0 => latest = 1 + crashes + restarts

Alone ==
  \A r \in Runners : runners[r].pc # "off" =>
    latest # 0 /\ r <= latest /\ (restarts = 0 => r = latest)

Born(t) == task[t].status # "unborn"

Family ==
  /\ \A t \in Tasks : ~ Born(t) => task[t].used = 0
  /\ \A t \in Tasks : task[t].parent # NoTask => Born(task[t].parent)
  /\ \A t \in parking : Born(t) /\ task[t].parent # NoTask

Hands ==
  \A r \in Runners : runners[r].pc \notin {"off", "idle"} =>
    runners[r].task \in Tasks /\ Born(runners[r].task)

Blocked ==
  \A r \in Runners : runners[r].pc \in {"aggregate", "release"} =>
    Parent(r) # NoTask /\ (restarts = 0 => task[Parent(r)].status = "blocked")

Inv == TypeOK /\ LivesCounted /\ Alone /\ Family /\ Hands /\ Blocked
-----------------------------------------------------------------------------
(* What the steps do to a runner and to a record. *)

(* The runner r is at pc with t in its hands, the others are as they were. *)
Moved(r, pc, t) ==
  /\ runners' \in [Runners -> RunnerRecords]
  /\ \A q \in Runners : q # r => runners'[q] = runners[q]
  /\ runners'[r].pc = pc /\ runners'[r].task = t

(* The record of t has another status, its count of steps is n.            *)
Recorded(t, status, n) ==
  /\ task' \in [Tasks -> Records]
  /\ \A u \in Tasks : u # t => task'[u] = task[u]
  /\ task'[t].status = status /\ task'[t].used = n
  /\ task'[t].parent = task[t].parent

LEMMA Minimum ==
  ASSUME NEW S \in SUBSET Nat, S # {}
  PROVE  \E n \in S : \A m \in S : n <= m
<1> DEFINE R == {p \in Nat \X Nat : p[1] < p[2]}
<1>1. IsWellFoundedOn(R, Nat)
  BY NatLessThanWellFounded DEF OpToRel
<1>2. PICK n \in S : \A m \in S : ~ (<<m, n>> \in R)
  <2> HIDE DEF R
  <2> QED
    BY <1>1, WFMin
<1>3. ASSUME NEW m \in S
      PROVE  n <= m
  <2>1. m \in Nat /\ n \in Nat /\ ~ (<<m, n>> \in R)
    BY <1>2
  <2>2. ~ (m < n)
    BY <2>1
  <2> QED
    BY <2>1, <2>2
<1> QED
  BY <1>3

LEMMA OldestIsOne ==
  ASSUME NEW S \in SUBSET Tasks, S # {}
  PROVE  Oldest(S) \in S
<1>1. S \in SUBSET Nat
  BY TasksAssumption DEF Tasks
<1>2. \E t \in S : \A c \in S : t <= c
  BY <1>1, Minimum
<1> QED
  BY <1>2 DEF Oldest

(* The three ways in which a runner is updated. *)
LEMMA Updates ==
  ASSUME TypeOK, NEW r \in Runners, NEW pc \in Pcs, NEW outcome \in {"more", "ended"}
  PROVE  /\ Goto(r, pc) => Moved(r, pc, runners[r].task)
         /\ Outcome(r, pc, outcome) => Moved(r, pc, runners[r].task)
         /\ Idle(r) => Moved(r, "idle", NoTask)
<1>1. runners \in [Runners -> RunnerRecords]
  BY DEF TypeOK, RunnerRecords
<1>2. [Runner("idle") EXCEPT !.todo = runners[r].todo] \in RunnerRecords
  BY <1>1 DEF Runner, RunnerRecords, Pcs
<1>3. ASSUME Goto(r, pc)
      PROVE  Moved(r, pc, runners[r].task)
  BY <1>1, <1>3 DEF Goto, Moved, RunnerRecords
<1>4. ASSUME Outcome(r, pc, outcome)
      PROVE  Moved(r, pc, runners[r].task)
  BY <1>1, <1>4 DEF Outcome, Moved, RunnerRecords
<1>5. ASSUME Idle(r)
      PROVE  Moved(r, "idle", NoTask)
  BY <1>1, <1>2, <1>5 DEF Idle, Moved, Runner
<1> QED
  BY <1>3, <1>4, <1>5

(* What each step of a runner does to the runner, and to the records. *)
LEMMA RunnerMoves ==
  ASSUME Inv, NEW r \in Runners
  PROVE  /\ StartPass(r) => runners[r].pc = "idle" /\ Moved(r, "idle", runners[r].task)
         /\ \A a \in Agents : ListTasks(r, a) =>
              runners[r].pc = "idle"
              /\ (Moved(r, "idle", runners[r].task)
                  \/ \E t \in Tasks : Runnable(t) /\ Moved(r, "claim", t))
         /\ ClaimNext(r) =>
              runners[r].pc = "claim"
              /\ ((Moved(r, "drive", runners[r].task) /\ Runnable(runners[r].task))
                  \/ (Moved(r, "idle", NoTask) /\ UNCHANGED task))
         /\ BudgetExceeded(r) => runners[r].pc = "drive" /\ Moved(r, "settle", runners[r].task)
         /\ RunStep(r) => runners[r].pc = "drive" /\ Moved(r, "step", runners[r].task)
         /\ StepRefused(r) => runners[r].pc = "drive" /\ Moved(r, "checkpoint", runners[r].task)
         /\ \A outcome \in {"more", "ended"} : ReportStepOutcome(r, outcome) =>
              runners[r].pc = "step" /\ Moved(r, "checkpoint", runners[r].task)
         /\ StepTimesOut(r) => runners[r].pc = "step" /\ Moved(r, "checkpoint", runners[r].task)
         /\ Settle(r) => runners[r].pc = "settle" /\ Moved(r, "deliver", runners[r].task)
         /\ GetParent(r) =>
              runners[r].pc = "deliver"
              /\ ((Waits(runners[r].task) /\ Moved(r, "aggregate", runners[r].task))
                  \/ Moved(r, "idle", NoTask))
         /\ DeliverFails(r) => runners[r].pc = "deliver" /\ Moved(r, "idle", NoTask)
         /\ \A a \in Agents : ListSubtasks(r, a) =>
              runners[r].pc = "aggregate"
              /\ ((\E pc \in {"aggregate", "release"} : Moved(r, pc, runners[r].task))
                  \/ Moved(r, "idle", NoTask))
         /\ ReleaseParent(r) => runners[r].pc = "release" /\ Moved(r, "idle", NoTask)
<1> USE DEF Inv
<1>1. runners \in [Runners -> RunnerRecords]
  BY DEF TypeOK, RunnerRecords
<1>2. /\ Pcs = Pcs \cup {"idle", "claim", "drive", "step", "checkpoint", "settle",
                         "deliver", "aggregate", "release"}
      /\ "more" \in {"more", "ended"} /\ "ended" \in {"more", "ended"}
  BY DEF Pcs
<1>3. \A pc \in Pcs : Goto(r, pc) => Moved(r, pc, runners[r].task)
  BY Updates
<1>4. \A pc \in Pcs, outcome \in {"more", "ended"} :
         Outcome(r, pc, outcome) => Moved(r, pc, runners[r].task)
  BY Updates
<1>5. Idle(r) => Moved(r, "idle", NoTask)
  BY <1>2, Updates
<1>6. StartPass(r) => runners[r].pc = "idle" /\ Moved(r, "idle", runners[r].task)
  BY <1>1 DEF StartPass, Moved, RunnerRecords
<1>7. ASSUME NEW a \in Agents, ListTasks(r, a)
      PROVE  runners[r].pc = "idle"
             /\ (Moved(r, "idle", runners[r].task)
                 \/ \E t \in Tasks : Runnable(t) /\ Moved(r, "claim", t))
  <2> DEFINE runnable == {t \in Tasks : a \in task[t].agents /\ Runnable(t)}
  <2>1. CASE runnable = {}
    BY <1>1, <1>7, <2>1 DEF ListTasks, Moved, RunnerRecords
  <2>2. CASE runnable # {}
    <3>1. PICK t \in Tasks : t = Oldest(runnable) /\ Runnable(t)
      BY <2>2, OldestIsOne
    <3>2. runners' = [runners EXCEPT ![r].todo = @ \ {a}, ![r].pc = "claim", ![r].task = t]
      BY <1>7, <2>2, <3>1 DEF ListTasks
    <3>3. [runners[r] EXCEPT !.todo = @ \ {a}, !.pc = "claim", !.task = t] \in RunnerRecords
      BY <1>1, <1>2 DEF RunnerRecords
    <3> HIDE DEF runnable
    <3>4. Moved(r, "claim", t)
      BY <1>1, <3>2, <3>3 DEF Moved
    <3> QED
      BY <1>7, <3>1, <3>4 DEF ListTasks
  <2> QED
    BY <2>1, <2>2
<1>8. ASSUME ClaimNext(r)
      PROVE  runners[r].pc = "claim"
             /\ ((Moved(r, "drive", runners[r].task) /\ Runnable(runners[r].task))
                 \/ (Moved(r, "idle", NoTask) /\ UNCHANGED task))
  <2>1. CASE Runnable(runners[r].task)
    <3>1. runners[r].pc = "claim" /\ runners[r].task \in Tasks
      BY <1>8 DEF ClaimNext, Hands
    <3>2. task'[runners[r].task].used \in Nat
      BY <1>8, <2>1, <3>1 DEF ClaimNext, Claimed, TypeOK
    <3>3. runners' = [runners EXCEPT ![r].pc = "drive", ![r].used = task'[runners[r].task].used]
      BY <1>8, <2>1 DEF ClaimNext
    <3>4. Moved(r, "drive", runners[r].task)
      BY <1>1, <1>2, <3>2, <3>3 DEF Moved, RunnerRecords
    <3> QED
      BY <2>1, <3>1, <3>4
  <2>2. CASE ~ Runnable(runners[r].task)
    BY <1>5, <1>8, <2>2 DEF ClaimNext
  <2> QED
    BY <2>1, <2>2
<1>9. BudgetExceeded(r) => runners[r].pc = "drive" /\ Moved(r, "settle", runners[r].task)
  BY <1>2, <1>3 DEF BudgetExceeded
<1>10. RunStep(r) => runners[r].pc = "drive" /\ Moved(r, "step", runners[r].task)
  BY <1>2, <1>3 DEF RunStep, StartsStep
<1>11. StepRefused(r) => runners[r].pc = "drive" /\ Moved(r, "checkpoint", runners[r].task)
  BY <1>2, <1>4 DEF StepRefused, StartsStep
<1>12. \A outcome \in {"more", "ended"} : ReportStepOutcome(r, outcome) =>
          runners[r].pc = "step" /\ Moved(r, "checkpoint", runners[r].task)
  BY <1>2, <1>4 DEF ReportStepOutcome, TypeOK
<1>13. StepTimesOut(r) => runners[r].pc = "step" /\ Moved(r, "checkpoint", runners[r].task)
  BY <1>2, <1>4 DEF StepTimesOut
<1>14. Settle(r) => runners[r].pc = "settle" /\ Moved(r, "deliver", runners[r].task)
  BY <1>2, <1>3 DEF Settle
<1>15. GetParent(r) =>
         runners[r].pc = "deliver"
         /\ ((Waits(runners[r].task) /\ Moved(r, "aggregate", runners[r].task))
             \/ Moved(r, "idle", NoTask))
  <2>1. ASSUME runners' = [runners EXCEPT ![r].pc = "aggregate", ![r].unread = Agents]
        PROVE  Moved(r, "aggregate", runners[r].task)
    BY <1>1, <1>2, <2>1 DEF Moved, RunnerRecords
  <2> QED
    BY <1>5, <2>1 DEF GetParent
<1>16. ASSUME NEW a \in Agents, ListSubtasks(r, a)
       PROVE  runners[r].pc = "aggregate"
              /\ ((\E pc \in {"aggregate", "release"} : Moved(r, pc, runners[r].task))
                  \/ Moved(r, "idle", NoTask))
  <2> DEFINE unread == runners[r].unread \ {a}
             pc == IF unread = {} THEN "release" ELSE runners[r].pc
  <2>1. runners[r].pc = "aggregate" /\ unread \in SUBSET Agents
    BY <1>1, <1>16 DEF ListSubtasks, RunnerRecords
  <2>2. pc \in {"aggregate", "release"} /\ pc \in Pcs
    BY <1>2, <2>1
  <2>3. Idle(r) \/ runners' = [runners EXCEPT ![r].unread = unread, ![r].pc = pc]
    BY <1>16, Zenon DEF ListSubtasks
  <2> HIDE DEF unread, pc
  <2>4. ASSUME runners' = [runners EXCEPT ![r].unread = unread, ![r].pc = pc]
        PROVE  Moved(r, pc, runners[r].task)
    BY <1>1, <2>1, <2>2, <2>4 DEF Moved, RunnerRecords
  <2> QED
    BY <1>5, <2>1, <2>2, <2>3, <2>4
<1>17. ReleaseParent(r) => runners[r].pc = "release" /\ Moved(r, "idle", NoTask)
  BY <1>5 DEF ReleaseParent
<1>18. DeliverFails(r) => runners[r].pc = "deliver" /\ Moved(r, "idle", NoTask)
  BY <1>5 DEF DeliverFails
<1> QED
  BY <1>6, <1>7, <1>8, <1>9, <1>10, <1>11, <1>12, <1>13, <1>14, <1>15, <1>16, <1>17, <1>18

LEMMA CheckpointMoves ==
  ASSUME Inv, NEW r \in Runners, Checkpoint(r)
  PROVE  /\ runners[r].pc = "checkpoint" /\ runners[r].task \in Tasks
         /\ Recorded(runners[r].task, task[runners[r].task].status,
                     task[runners[r].task].used + 1)
         /\ \/ \E pc \in {"settle", "drive"} : Moved(r, pc, runners[r].task)
            \/ Moved(r, "idle", NoTask)
<1> USE DEF Inv
<1>1. runners \in [Runners -> RunnerRecords] /\ task \in [Tasks -> Records]
  BY DEF TypeOK, RunnerRecords, Records
<1>2. runners[r].pc = "checkpoint" /\ runners[r].task \in Tasks
  BY DEF Checkpoint, Hands
<1>3. PICK t \in Tasks : t = runners[r].task
  BY <1>2
<1>4. task' = [task EXCEPT ![t].used = task[t].used + 1]
  BY <1>3 DEF Checkpoint
<1>5. task[t].used + 1 \in Nat
  BY <1>1 DEF Records
<1>6. Recorded(t, task[t].status, task[t].used + 1)
  BY <1>1, <1>4, <1>5 DEF Recorded, Records
<1>7. CASE runners[r].outcome = "ended"
  <2>1. Goto(r, "settle") /\ "settle" \in Pcs
    BY <1>7 DEF Checkpoint, Pcs
  <2> QED
    BY <1>2, <1>3, <1>6, <2>1, Updates
<1>8. CASE runners[r].outcome # "ended" /\ task[t].status = "blocked"
  <2>1. Idle(r) /\ "settle" \in Pcs
    BY <1>3, <1>8 DEF Checkpoint, Pcs
  <2> QED
    BY <1>2, <1>3, <1>6, <2>1, Updates
<1>9. CASE runners[r].outcome # "ended" /\ task[t].status # "blocked"
  <2>1. runners' = [runners EXCEPT ![r].pc = "drive", ![r].used = task'[t].used]
    BY <1>3, <1>9 DEF Checkpoint
  <2>2. task'[t].used \in Nat /\ "drive" \in Pcs
    BY <1>5, <1>6 DEF Recorded, Pcs
  <2>3. Moved(r, "drive", t)
    BY <1>1, <1>3, <2>1, <2>2 DEF Moved, RunnerRecords
  <2> QED
    BY <1>2, <1>3, <1>6, <2>3
<1> QED
  BY <1>7, <1>8, <1>9

(* A task is created with no steps on record, as a child of a task that    *)
(* exists if it is a subtask.                                              *)
LEMMA CreateMoves ==
  ASSUME Inv, NEW t \in Tasks, NEW p \in Tasks \cup {NoTask}, NEW a \in Agents,
         NEW by \in SUBSET Agents, Create(t, p, a, by)
  PROVE  /\ ~ Born(t) /\ latest # 0
         /\ task' \in [Tasks -> Records] /\ \A u \in Tasks : u # t => task'[u] = task[u]
         /\ task'[t].status = "queued" /\ task'[t].used = 0 /\ task'[t].parent = p
  BY DEF Inv, TypeOK, Create, Born, Records, Statuses

LEMMA RecordMoves ==
  ASSUME Inv
  PROVE  /\ \A t \in Tasks : ParkParent(t) =>
              \E p \in Tasks, status \in Statuses :
                /\ p = task[t].parent /\ Born(p)
                /\ status = task[p].status \/ (Runnable(p) /\ status = "blocked")
                /\ Recorded(p, status, task[p].used)
         /\ \A r \in Runners : ClaimNext(r) =>
              UNCHANGED task \/
              (\E t \in Tasks : t = runners[r].task /\ Runnable(t) /\ Born(t)
                                /\ Recorded(t, "running", task[t].used))
         /\ \A r \in Runners : Settle(r) =>
              \E t \in Tasks : t = runners[r].task /\ Born(t) /\ Recorded(t, "ended", task[t].used)
         /\ \A r \in Runners : ReleaseParent(r) =>
              \E p \in Tasks : p = Parent(r) /\ Born(p) /\ Recorded(p, "queued", task[p].used)
<1> USE DEF Inv
<1>1. task \in [Tasks -> Records]
  BY DEF TypeOK, Records
<1>2. \A u \in Tasks : task[u].parent # NoTask => task[u].parent \in Tasks
  BY <1>1 DEF Records
<1>3. ASSUME NEW t \in Tasks, NEW status \in Statuses,
             task' = [task EXCEPT ![t].status = status]
      PROVE  Recorded(t, status, task[t].used)
  BY <1>1, <1>3 DEF Recorded, Records
<1>4. {"queued", "running", "blocked", "ended"} \subseteq Statuses
  BY DEF Statuses, Terminal
<1>5. ASSUME NEW t \in Tasks, ParkParent(t)
      PROVE  \E p \in Tasks, status \in Statuses :
               /\ p = task[t].parent /\ Born(p)
               /\ status = task[p].status \/ (Runnable(p) /\ status = "blocked")
               /\ Recorded(p, status, task[p].used)
  <2>1. PICK p \in Tasks : p = task[t].parent /\ Born(p)
    BY <1>2, <1>5 DEF ParkParent, Family
  <2> DEFINE status == IF Runnable(p) /\ FindsParent(t) THEN "blocked" ELSE task[p].status
  <2>2. status \in Statuses
    BY <1>1, <1>4 DEF Records
  <2>3. task' = [task EXCEPT ![p].status = status]
    BY <1>1, <1>5, <2>1 DEF ParkParent, Runnable
  <2> HIDE DEF status
  <2>4. Recorded(p, status, task[p].used)
    BY <1>3, <2>2, <2>3
  <2> QED
    BY <2>1, <2>2, <2>4 DEF status
<1>6. ASSUME NEW r \in Runners, ClaimNext(r)
      PROVE  UNCHANGED task \/
             (\E t \in Tasks : t = runners[r].task /\ Runnable(t) /\ Born(t)
                               /\ Recorded(t, "running", task[t].used))
  <2>1. PICK t \in Tasks : t = runners[r].task /\ Born(t)
    BY <1>6 DEF ClaimNext, Hands
  <2>2. CASE Runnable(t)
    <3>1. task' = [task EXCEPT ![t].status = "running"]
      BY <1>1, <1>6, <2>1, <2>2 DEF ClaimNext, Claimed
    <3>2. Recorded(t, "running", task[t].used)
      BY <1>3, <1>4, <3>1
    <3> QED
      BY <2>1, <2>2, <3>2
  <2>3. CASE ~ Runnable(t)
    BY <1>6, <2>1, <2>3 DEF ClaimNext
  <2> QED
    BY <2>2, <2>3
<1>7. ASSUME NEW r \in Runners, Settle(r)
      PROVE  \E t \in Tasks : t = runners[r].task /\ Born(t) /\ Recorded(t, "ended", task[t].used)
  <2>1. PICK t \in Tasks : t = runners[r].task /\ Born(t)
    BY <1>7 DEF Settle, Hands
  <2>2. Recorded(t, "ended", task[t].used)
    BY <1>3, <1>4, <1>7, <2>1 DEF Settle
  <2> QED
    BY <2>1, <2>2
<1>8. ASSUME NEW r \in Runners, ReleaseParent(r)
      PROVE  \E p \in Tasks : p = Parent(r) /\ Born(p) /\ Recorded(p, "queued", task[p].used)
  <2>1. PICK p \in Tasks : p = Parent(r) /\ Born(p)
    BY <1>2, <1>8 DEF ReleaseParent, Hands, Blocked, Family, Parent
  <2>2. Recorded(p, "queued", task[p].used)
    BY <1>3, <1>4, <1>8, <2>1 DEF ReleaseParent
  <2> QED
    BY <2>1, <2>2
<1> QED
  BY <1>5, <1>6, <1>7, <1>8

-----------------------------------------------------------------------------
(* The records: what exists stays, and keeps its parent. *)

Grown ==
  /\ task' \in [Tasks -> Records]
  /\ \A t \in Tasks : Born(t) => task'[t].status # "unborn" /\ task'[t].parent = task[t].parent
  /\ parking' \subseteq Tasks
  /\ Family'

LEMMA RecordedGrown ==
  ASSUME Inv, NEW t \in Tasks, Born(t), NEW status \in Statuses, status # "unborn", NEW n \in Nat,
         Recorded(t, status, n), parking' \subseteq parking
  PROVE  Grown
<1> USE DEF Inv
<1>1. task \in [Tasks -> Records] /\ parking \subseteq Tasks
  BY DEF TypeOK, Records
<1>2. \A u \in Tasks : task[u].parent # NoTask => task[u].parent \in Tasks
  BY <1>1 DEF Records
<1>3. \A u \in Tasks : /\ task'[u].parent = task[u].parent
                       /\ Born(u) <=> task'[u].status # "unborn"
                       /\ ~ Born(u) => task'[u].used = task[u].used
  BY DEF Recorded, Born
<1>4. Family'
  BY <1>1, <1>2, <1>3 DEF Family, Born
<1> QED
  BY <1>1, <1>3, <1>4 DEF Grown, Recorded

LEMMA CreateGrown ==
  ASSUME Inv, NEW t \in Tasks, NEW p \in Tasks \cup {NoTask}, NEW a \in Agents,
         NEW by \in SUBSET Agents, Create(t, p, a, by),
         p # NoTask => Born(p), parking' \subseteq parking \cup {t}, t \in parking' => p # NoTask
  PROVE  Grown
<1> USE DEF Inv
<1>1. task \in [Tasks -> Records] /\ parking \subseteq Tasks
  BY DEF TypeOK, Records
<1>2. /\ ~ Born(t) /\ task' \in [Tasks -> Records] /\ \A u \in Tasks : u # t => task'[u] = task[u]
      /\ task'[t].status = "queued" /\ task'[t].used = 0 /\ task'[t].parent = p
  BY CreateMoves
<1>3. \A u \in Tasks : Born(u) => task'[u].status # "unborn" /\ task'[u].parent = task[u].parent
  BY <1>2 DEF Born
<1>4. \A u \in Tasks : task[u].parent # NoTask => task[u].parent \in Tasks
  BY <1>1 DEF Records
<1>5. \A u \in Tasks : task'[u].parent # NoTask => task'[task'[u].parent].status # "unborn"
  BY <1>2, <1>3, <1>4 DEF Family
<1>6. \A u \in parking' : task'[u].status # "unborn" /\ task'[u].parent # NoTask
  BY <1>1, <1>2, <1>3 DEF Family
<1>7. \A u \in Tasks : task'[u].status = "unborn" => task'[u].used = 0
  BY <1>2 DEF Family, Born
<1> QED
  BY <1>1, <1>2, <1>3, <1>5, <1>6, <1>7 DEF Grown, Family, Born

LEMMA UnchangedGrown ==
  ASSUME Inv, UNCHANGED task, parking' \subseteq parking
  PROVE  Grown
  BY DEF Inv, TypeOK, Records, Grown, Family, Born

LEMMA StepGrown ==
  ASSUME Inv, [Next]_vars
  PROVE  Grown
<1> USE DEF Inv, lifeVars, stepVars
<1>1. {"queued", "running", "blocked", "ended"} \subseteq Statuses
  BY DEF Statuses, Terminal
<1>2. \A u \in Tasks : task[u].used \in Nat /\ task[u].used + 1 \in Nat /\ task[u].status \in Statuses
  BY DEF TypeOK
<1>3. ASSUME NEW t \in Tasks, NEW a \in Agents, CreateTask(t, a)
      PROVE  Grown
  <2>1. /\ Create(t, NoTask, a, {}) /\ parking' = parking
        /\ NoTask \in Tasks \cup {NoTask} /\ {} \in SUBSET Agents
    BY <1>3 DEF CreateTask
  <2>2. ~ (t \in parking)
    BY <2>1 DEF Create, Family, Born
  <2> QED
    BY <2>1, <2>2, CreateGrown
<1>4. ASSUME NEW t \in Tasks, NEW p \in Tasks, NEW a \in Agents, NEW b \in Agents,
             CreateSubtask(t, p, a, b)
      PROVE  Grown
  <2>1. /\ Create(t, p, a, {b}) /\ parking' = parking \cup {t} /\ Born(p)
        /\ {b} \in SUBSET Agents
    BY <1>4 DEF CreateSubtask, Born
  <2>2. p # NoTask
    BY TasksAssumption DEF Tasks, NoTask
  <2> QED
    BY <2>1, <2>2, CreateGrown
<1>5. ASSUME NEW t \in Tasks, ParkParent(t)
      PROVE  Grown
  <2>1. PICK p \in Tasks, status \in Statuses :
          /\ Born(p) /\ (status = task[p].status \/ (Runnable(p) /\ status = "blocked"))
          /\ Recorded(p, status, task[p].used)
    BY <1>5, RecordMoves
  <2>2. status # "unborn"
    BY <2>1 DEF Born
  <2>3. parking' \subseteq parking
    BY <1>5 DEF ParkParent
  <2> QED
    BY <1>2, <2>1, <2>2, <2>3, RecordedGrown
<1>6. ASSUME NEW r \in Runners, ClaimNext(r)
      PROVE  Grown
  <2>1. parking' \subseteq parking
    BY <1>6 DEF ClaimNext
  <2>2. CASE UNCHANGED task
    BY <2>1, <2>2, UnchangedGrown
  <2>3. CASE \E t \in Tasks : Born(t) /\ Recorded(t, "running", task[t].used)
    BY <1>1, <1>2, <2>1, <2>3, RecordedGrown
  <2> QED
    BY <1>6, <2>2, <2>3, RecordMoves
<1>7. ASSUME NEW r \in Runners, Checkpoint(r)
      PROVE  Grown
  <2>1. PICK t \in Tasks : t = runners[r].task /\ Born(t)
                           /\ Recorded(t, task[t].status, task[t].used + 1)
    BY <1>7, CheckpointMoves DEF Hands
  <2>2. parking' \subseteq parking
    BY <1>7 DEF Checkpoint
  <2> QED
    BY <1>2, <2>1, <2>2, RecordedGrown DEF Born
<1>8. ASSUME NEW r \in Runners, Settle(r)
      PROVE  Grown
  <2>1. parking' \subseteq parking
    BY <1>8 DEF Settle
  <2> QED
    BY <1>1, <1>2, <1>8, <2>1, RecordMoves, RecordedGrown
<1>9. ASSUME NEW r \in Runners, ReleaseParent(r)
      PROVE  Grown
  <2>1. parking' \subseteq parking
    BY <1>9 DEF ReleaseParent
  <2> QED
    BY <1>1, <1>2, <1>9, <2>1, RecordMoves, RecordedGrown
<1>10. CASE UNCHANGED vars
  BY <1>10, UnchangedGrown DEF vars
<1>11. ASSUME NEW r \in Runners,
              StartPass(r) \/ (\E a \in Agents : ListTasks(r, a)) \/ BudgetExceeded(r)
              \/ RunStep(r) \/ StepRefused(r) \/ StepTimesOut(r) \/ DeliverFails(r)
              \/ GetParent(r) \/ (\E a \in Agents : ListSubtasks(r, a))
              \/ \E outcome \in {"more", "ended"} : ReportStepOutcome(r, outcome)
       PROVE  Grown
  <2>1. UNCHANGED task /\ parking' \subseteq parking
    BY <1>11 DEF StartPass, ListTasks, BudgetExceeded, RunStep, StepRefused, StartsStep,
                 StepTimesOut, DeliverFails, GetParent, ListSubtasks, ReportStepOutcome
  <2> QED
    BY <2>1, UnchangedGrown
<1>12. CASE Boot \/ RestartInProcess \/ Crash
  <2>1. UNCHANGED task /\ parking' \subseteq parking
    BY <1>12 DEF Boot, RestartInProcess, StartLife, Crash
  <2> QED
    BY <2>1, UnchangedGrown
<1> QED
  BY <1>3, <1>4, <1>5, <1>6, <1>7, <1>8, <1>9, <1>10, <1>11, <1>12 DEF Next, RunnerStep

-----------------------------------------------------------------------------
(* The runners. *)

(* A step of the runner r, or the report that it awaits. *)
Acts(r) == RunnerStep(r) \/ \E outcome \in {"more", "ended"} : ReportStepOutcome(r, outcome)

(* What is in its hands exists, and what it holds on to of a parent it has *)
(* just seen, or had seen when it came to aggregate.                       *)
LEMMA Acting ==
  ASSUME Inv, NEW r \in Runners, Acts(r)
  PROVE  /\ runners[r].pc # "off" /\ UNCHANGED lifeVars
         /\ \E pc \in Pcs \ {"off"}, t \in Tasks \cup {NoTask} :
              /\ Moved(r, pc, t)
              /\ pc # "idle" => t \in Tasks /\ Born(t)
              /\ pc \in {"aggregate", "release"} =>
                   /\ t = runners[r].task /\ UNCHANGED task
                   /\ Waits(runners[r].task) \/ runners[r].pc = "aggregate"
<1> USE DEF Inv
<1> DEFINE Goal ==
      \E pc \in Pcs \ {"off"}, t \in Tasks \cup {NoTask} :
        /\ Moved(r, pc, t)
        /\ pc # "idle" => t \in Tasks /\ Born(t)
        /\ pc \in {"aggregate", "release"} =>
             /\ t = runners[r].task /\ UNCHANGED task
             /\ Waits(runners[r].task) \/ runners[r].pc = "aggregate"
<1>1. Pcs \ {"off"} = {"idle", "claim", "drive", "step", "checkpoint", "settle",
                       "deliver", "aggregate", "release"}
  BY DEF Pcs
<1>2. runners[r].task \in Tasks \cup {NoTask} /\ NoTask \in Tasks \cup {NoTask}
  BY DEF TypeOK
<1>3. runners[r].pc \notin {"off", "idle"} => runners[r].task \in Tasks /\ Born(runners[r].task)
  BY DEF Hands
<1>4. ASSUME Moved(r, "idle", NoTask) \/ Moved(r, "idle", runners[r].task)
      PROVE  Goal
  BY <1>1, <1>2, <1>4
<1>5. ASSUME runners[r].pc \notin {"off", "idle"},
             NEW pc \in {"drive", "step", "checkpoint", "settle", "deliver"},
             Moved(r, pc, runners[r].task)
      PROVE  Goal
  BY <1>1, <1>2, <1>3, <1>5
<1>6. CASE StartPass(r)
  <2>1. runners[r].pc = "idle" /\ UNCHANGED lifeVars /\ Goal
    BY <1>4, <1>6, RunnerMoves DEF StartPass
  <2> QED
    BY <2>1
<1>7. CASE \E a \in Agents : ListTasks(r, a)
  <2>1. PICK a \in Agents : ListTasks(r, a)
    BY <1>7
  <2>2. runners[r].pc = "idle" /\ UNCHANGED lifeVars
    BY <2>1 DEF ListTasks
  <2>3. ASSUME NEW t \in Tasks, Runnable(t), Moved(r, "claim", t)
        PROVE  Goal
    BY <1>1, <2>3 DEF Runnable, Born
  <2> QED
    BY <1>4, <2>1, <2>2, <2>3, RunnerMoves
<1>8. CASE ClaimNext(r)
  <2>1. runners[r].pc = "claim" /\ UNCHANGED lifeVars
    BY <1>8 DEF ClaimNext
  <2> QED
    BY <1>4, <1>5, <1>8, <2>1, RunnerMoves
<1>9. CASE BudgetExceeded(r)
  BY <1>5, <1>9, RunnerMoves DEF BudgetExceeded
<1>10. CASE RunStep(r)
  BY <1>5, <1>10, RunnerMoves DEF RunStep, StartsStep
<1>11. CASE StepRefused(r)
  BY <1>5, <1>11, RunnerMoves DEF StepRefused, StartsStep
<1>12. CASE \E outcome \in {"more", "ended"} : ReportStepOutcome(r, outcome)
  BY <1>5, <1>12, RunnerMoves DEF ReportStepOutcome
<1>13. CASE StepTimesOut(r)
  BY <1>5, <1>13, RunnerMoves DEF StepTimesOut
<1>14. CASE Checkpoint(r)
  <2>1. runners[r].pc = "checkpoint" /\ UNCHANGED lifeVars
    BY <1>14 DEF Checkpoint
  <2> QED
    BY <1>4, <1>5, <1>14, <2>1, CheckpointMoves
<1>15. CASE Settle(r)
  BY <1>5, <1>15, RunnerMoves DEF Settle
<1>16. CASE GetParent(r)
  <2>1. runners[r].pc = "deliver" /\ UNCHANGED lifeVars /\ UNCHANGED task
    BY <1>16 DEF GetParent
  <2>2. ASSUME Waits(runners[r].task), Moved(r, "aggregate", runners[r].task)
        PROVE  Goal
    BY <1>1, <1>2, <1>3, <2>1, <2>2
  <2> QED
    BY <1>4, <1>16, <2>1, <2>2, RunnerMoves
<1>17. CASE \E a \in Agents : ListSubtasks(r, a)
  <2>1. runners[r].pc = "aggregate" /\ UNCHANGED lifeVars /\ UNCHANGED task
    BY <1>17 DEF ListSubtasks
  <2>2. ASSUME NEW pc \in {"aggregate", "release"}, Moved(r, pc, runners[r].task)
        PROVE  Goal
    BY <1>1, <1>2, <1>3, <2>1, <2>2
  <2> QED
    BY <1>4, <1>17, <2>1, <2>2, RunnerMoves
<1>18. CASE ReleaseParent(r)
  BY <1>4, <1>18, RunnerMoves DEF ReleaseParent
<1>19. CASE DeliverFails(r)
  BY <1>4, <1>19, RunnerMoves DEF DeliverFails
<1> QED
  BY <1>6, <1>7, <1>8, <1>9, <1>10, <1>11, <1>12, <1>13, <1>14, <1>15, <1>16, <1>17, <1>18, <1>19
     DEF Acts, RunnerStep

(* A life begins with a runner that was off. *)
LEMMA Beginning ==
  ASSUME Inv, NEW r \in 1 .. MaxLives, StartLife(r)
  PROVE  Moved(r, "idle", NoTask)
<1>1. Runner("idle") \in RunnerRecords
  BY DEF Runner, RunnerRecords, Pcs
<1> QED
  BY <1>1 DEF Inv, TypeOK, Runners, StartLife, Moved, RunnerRecords, Runner

LEMMA LifeSteps ==
  ASSUME Inv, [Next]_vars
  PROVE  \/ \E r \in Runners : Acts(r)
         \/ UNCHANGED <<runners, lifeVars, awaiters>>
            /\ (UNCHANGED vars \/ (\E t \in Tasks : ParkParent(t))
                \/ \E t \in Tasks, p \in Tasks \cup {NoTask}, a \in Agents, by \in SUBSET Agents :
                     Create(t, p, a, by))
         \/ (Boot \/ RestartInProcess) /\ \E r \in 1 .. MaxLives :
              /\ runners[r].pc = "off" /\ StartLife(r) /\ latest' = r
              /\ r = 1 + crashes' + restarts' /\ latest < r
              /\ restarts' = 0 => latest = 0 /\ restarts = 0
         \/ Crash
<1> USE DEF Inv
<1>1. /\ latest \in Nat /\ crashes \in Nat /\ restarts \in Nat /\ MaxLives \in Nat
      /\ crashes + restarts < MaxLives
  BY TasksAssumption DEF TypeOK, Runners
<1> DEFINE Creates ==
      /\ UNCHANGED <<runners, lifeVars, awaiters>>
      /\ \E t \in Tasks, p \in Tasks \cup {NoTask}, a \in Agents, by \in SUBSET Agents :
           Create(t, p, a, by)
<1>2. ASSUME NEW t \in Tasks, NEW a \in Agents, CreateTask(t, a)
      PROVE  Creates
  <2>1. /\ UNCHANGED <<runners, lifeVars, awaiters>> /\ Create(t, NoTask, a, {})
        /\ NoTask \in Tasks \cup {NoTask} /\ {} \in SUBSET Agents
    BY <1>2 DEF CreateTask, Create
  <2> QED
    BY <2>1
<1>3. ASSUME NEW t \in Tasks, NEW p \in Tasks, NEW a \in Agents, NEW b \in Agents,
             CreateSubtask(t, p, a, b)
      PROVE  Creates
  <2>1. /\ UNCHANGED <<runners, lifeVars, awaiters>> /\ Create(t, p, a, {b})
        /\ {b} \in SUBSET Agents
    BY <1>3 DEF CreateSubtask, Create
  <2> QED
    BY <2>1
<1>4. ASSUME NEW t \in Tasks, ParkParent(t)
      PROVE  UNCHANGED <<runners, lifeVars, awaiters>>
  BY <1>4 DEF ParkParent
<1>5. CASE Boot
  <2> DEFINE r == 1 + crashes + restarts
  <2>1. r \in 1 .. MaxLives /\ latest < r
    BY <1>1, <1>5 DEF Boot
  <2>2. runners[r].pc = "off"
    BY <1>5, <2>1 DEF Boot, Alone, Runners
  <2> QED
    BY <1>5, <2>1, <2>2 DEF Boot, StartLife
<1>6. CASE RestartInProcess
  <2> DEFINE r == latest + 1
  <2>1. r \in 1 .. MaxLives /\ latest < r
    BY <1>1, <1>6 DEF RestartInProcess
  <2>2. runners[r].pc = "off"
    BY <1>1, <1>6, <2>1 DEF RestartInProcess, Alone, Runners
  <2>3. r = 1 + crashes' + restarts' /\ restarts' # 0
    BY <1>1, <1>6 DEF RestartInProcess, LivesCounted
  <2> QED
    BY <1>6, <2>1, <2>2, <2>3 DEF RestartInProcess, StartLife
<1>7. CASE UNCHANGED vars
  BY <1>7 DEF vars, lifeVars
<1> QED
  BY <1>2, <1>3, <1>4, <1>5, <1>6, <1>7 DEF Next, Acts

LEMMA StepAlone ==
  ASSUME Inv, [Next]_vars
  PROVE  LivesCounted' /\ Alone'
<1> USE DEF Inv
<1>1. latest \in Nat /\ crashes \in Nat /\ restarts \in Nat
  BY TasksAssumption DEF TypeOK, Runners
<1>2. CASE \E r \in Runners : Acts(r)
  BY <1>2, Acting DEF LivesCounted, Alone, lifeVars, Moved
<1>3. CASE UNCHANGED <<runners, lifeVars, awaiters>>
  BY <1>3 DEF LivesCounted, Alone, lifeVars
<1>4. CASE \E r \in 1 .. MaxLives :
             /\ runners[r].pc = "off" /\ StartLife(r) /\ latest' = r
             /\ r = 1 + crashes' + restarts' /\ latest < r
             /\ restarts' = 0 => latest = 0 /\ restarts = 0
  <2>1. PICK r \in 1 .. MaxLives :
             /\ runners[r].pc = "off" /\ StartLife(r) /\ latest' = r
             /\ r = 1 + crashes' + restarts' /\ latest < r
             /\ restarts' = 0 => latest = 0 /\ restarts = 0
    BY <1>4
  <2>2. Moved(r, "idle", NoTask)
    BY <2>1, Beginning
  <2>3. ASSUME NEW q \in Runners, runners'[q].pc # "off"
        PROVE  latest' # 0 /\ q <= latest' /\ (restarts' = 0 => q = latest')
    <3>1. q \in Nat /\ r \in Nat /\ r # 0
      BY TasksAssumption DEF Runners
    <3>2. CASE q = r
      BY <2>1, <3>1, <3>2
    <3>3. CASE q # r
      BY <1>1, <2>1, <2>2, <2>3, <3>1, <3>3 DEF Moved, Alone
    <3> QED
      BY <3>2, <3>3
  <2> QED
    BY <2>1, <2>3 DEF LivesCounted, Alone
<1>5. CASE Crash
  BY <1>5 DEF Crash, LivesCounted, Alone, Runner
<1> QED
  BY <1>2, <1>3, <1>4, <1>5, LifeSteps

LEMMA StepHands ==
  ASSUME Inv, [Next]_vars
  PROVE  Hands'
<1> USE DEF Inv
<1>1. \A t \in Tasks : Born(t) => task'[t].status # "unborn"
  BY StepGrown DEF Grown
<1>2. CASE \E r \in Runners : Acts(r)
  BY <1>1, <1>2, Acting DEF Hands, Moved, Born
<1>3. CASE UNCHANGED <<runners, lifeVars, awaiters>>
  BY <1>1, <1>3 DEF Hands, Born
<1>4. CASE \E r \in 1 .. MaxLives : StartLife(r)
  BY <1>1, <1>4, Beginning DEF Hands, Moved, Born
<1>5. CASE Crash
  BY <1>5 DEF Crash, Hands, Runner
<1> QED
  BY <1>2, <1>3, <1>4, <1>5, LifeSteps

(* As long as no life has ended by a restart, nobody but the runner that   *)
(* holds on to a parent could release it, and no other step unblocks it.   *)
LEMMA StepBlocked ==
  ASSUME Inv, [Next]_vars
  PROVE  Blocked'
<1> USE DEF Inv
<1>1. \A t \in Tasks : Born(t) => task'[t].status # "unborn" /\ task'[t].parent = task[t].parent
  BY StepGrown DEF Grown
<1>2. \A q \in Runners : runners[q].pc \in {"aggregate", "release"} =>
        /\ runners[q].task \in Tasks /\ Born(runners[q].task)
        /\ Parent(q) \in Tasks /\ task[Parent(q)].status \in Statuses
  BY DEF Hands, Blocked, TypeOK, Parent
<1>3. SUFFICES ASSUME NEW q \in Runners, runners'[q].pc \in {"aggregate", "release"}
               PROVE  /\ task'[runners'[q].task].parent # NoTask
                      /\ restarts' = 0 => task'[task'[runners'[q].task].parent].status = "blocked"
  BY DEF Blocked, Parent
<1>4. CASE \E r \in Runners : Acts(r)
  <2>1. PICK r \in Runners, pc \in Pcs \ {"off"}, t \in Tasks \cup {NoTask} :
          /\ runners[r].pc # "off" /\ UNCHANGED lifeVars
          /\ Moved(r, pc, t)
          /\ pc \in {"aggregate", "release"} =>
               /\ t = runners[r].task /\ UNCHANGED task
               /\ Waits(runners[r].task) \/ runners[r].pc = "aggregate"
    BY <1>4, Acting
  <2>2. CASE q = r
    BY <1>3, <2>1, <2>2 DEF Moved, Waits, Parent, Blocked, lifeVars
  <2>3. CASE q # r
    <3>1. runners'[q] = runners[q] /\ restarts' # 0
      BY <1>3, <2>1, <2>3 DEF Moved, Alone, lifeVars
    <3> QED
      BY <1>1, <1>2, <1>3, <3>1 DEF Blocked, Parent
  <2> QED
    BY <2>2, <2>3
<1>5. ASSUME UNCHANGED <<runners, lifeVars, awaiters>>,
             \A t \in Tasks : task[t].status = "blocked" => task'[t].status = "blocked"
      PROVE  /\ task'[runners'[q].task].parent # NoTask
             /\ restarts' = 0 => task'[task'[runners'[q].task].parent].status = "blocked"
  <2>1. /\ task'[runners'[q].task].parent = Parent(q) /\ Parent(q) # NoTask
        /\ restarts' = 0 => task[Parent(q)].status = "blocked"
    BY <1>1, <1>2, <1>3, <1>5 DEF Blocked, Parent, lifeVars
  <2> QED
    BY <1>2, <1>3, <1>5, <2>1
<1>6. ASSUME NEW t \in Tasks, ParkParent(t), NEW u \in Tasks, task[u].status = "blocked"
      PROVE  task'[u].status = "blocked"
  BY <1>6, RecordMoves DEF Runnable, Recorded
<1>7. ASSUME NEW t \in Tasks, NEW p \in Tasks \cup {NoTask}, NEW a \in Agents,
             NEW by \in SUBSET Agents, Create(t, p, a, by),
             NEW u \in Tasks, task[u].status = "blocked"
      PROVE  task'[u].status = "blocked"
  BY <1>7, CreateMoves DEF Born
<1>8. CASE (Boot \/ RestartInProcess) /\ \E r \in 1 .. MaxLives :
             StartLife(r) /\ (restarts' = 0 => restarts = 0)
  <2>1. PICK r \in Runners : Moved(r, "idle", NoTask) /\ (restarts' = 0 => restarts = 0)
    BY <1>8, Beginning DEF Runners
  <2>2. UNCHANGED task
    BY <1>8 DEF StartLife
  <2> QED
    BY <1>3, <2>1, <2>2 DEF Moved, Blocked, Parent
<1>9. CASE Crash
  BY <1>3, <1>9 DEF Crash, Runner
<1> QED
  BY <1>4, <1>5, <1>6, <1>7, <1>8, <1>9, LifeSteps DEF vars

LEMMA StepTypes ==
  ASSUME Inv, [Next]_vars
  PROVE  TypeOK'
<1> USE DEF Inv
<1>1. task' \in [Tasks -> Records] /\ parking' \subseteq Tasks
  BY StepGrown DEF Grown
<1>2. /\ latest \in Nat /\ crashes \in Nat /\ restarts \in Nat /\ MaxLives \in Nat
      /\ crashes + restarts < MaxLives
  BY TasksAssumption DEF TypeOK, Runners
<1>3. runners' \in [Runners -> RunnerRecords]
  <2>1. CASE \E r \in Runners : Acts(r)
    BY <2>1, Acting DEF Moved
  <2>2. CASE UNCHANGED runners
    BY <2>2 DEF TypeOK, RunnerRecords
  <2>3. CASE \E r \in 1 .. MaxLives : StartLife(r)
    BY <2>3, Beginning DEF Moved
  <2>4. CASE Crash
    <3>1. Runner("off") \in RunnerRecords
      BY DEF Runner, RunnerRecords, Pcs
    <3> QED
      BY <2>4, <3>1 DEF Crash
  <2> QED
    BY <2>1, <2>2, <2>3, <2>4, LifeSteps
<1>4. /\ latest' \in Runners \cup {0}
      /\ {crashes', restarts'} \subseteq Nat /\ crashes' + restarts' < MaxLives
  <2>1. CASE \E r \in Runners : Acts(r)
    BY <2>1, Acting DEF TypeOK, lifeVars
  <2>2. CASE UNCHANGED lifeVars
    BY <2>2 DEF TypeOK, lifeVars
  <2>3. CASE Boot
    BY <1>2, <2>3 DEF Boot, StartLife, Runners
  <2>4. CASE RestartInProcess
    BY <1>2, <2>4 DEF RestartInProcess, StartLife, Runners, LivesCounted
  <2>5. CASE Crash
    BY <1>2, <2>5 DEF Crash, LivesCounted
  <2> QED
    BY <2>1, <2>2, <2>3, <2>4, <2>5, LifeSteps
<1>5. executed' \in [Tasks -> Nat]
  <2>1. ASSUME NEW r \in Runners, StartsStep(r)
        PROVE  executed' \in [Tasks -> Nat]
    <3>1. runners[r].task \in Tasks
      BY <2>1 DEF StartsStep, Hands
    <3>2. \A t \in Tasks : executed[t] \in Nat /\ executed[t] + 1 \in Nat
      BY DEF TypeOK
    <3> QED
      BY <2>1, <3>1, <3>2 DEF StartsStep, TypeOK
  <2>2. executed' = executed \/ \E r \in Runners : StartsStep(r)
    BY DEF Next, RunnerStep, CreateTask, CreateSubtask, Create, ParkParent, StartPass, ListTasks,
           ClaimNext, BudgetExceeded, RunStep, StepRefused, StepTimesOut, Checkpoint, Settle,
           DeliverFails, GetParent, ListSubtasks, ReleaseParent, ReportStepOutcome, Boot, RestartInProcess,
           StartLife, Crash, vars, lifeVars, stepVars
  <2>3. executed \in [Tasks -> Nat]
    BY DEF TypeOK
  <2> QED
    BY <2>1, <2>2, <2>3, Zenon
<1>6. awaiters' \subseteq {r \in Runners : runners'[r].pc = "step"}
  <2> DEFINE Goal == awaiters' \subseteq {r \in Runners : runners'[r].pc = "step"}
  <2>1. ASSUME NEW r \in Runners, NEW pc \in Pcs, NEW t \in Tasks \cup {NoTask}, Moved(r, pc, t),
               awaiters' \subseteq awaiters, r \in awaiters' => pc = "step"
        PROVE  Goal
    BY <2>1 DEF TypeOK, Moved
  <2>2. ASSUME NEW r \in Runners, Acts(r), UNCHANGED awaiters, runners[r].pc # "step"
        PROVE  Goal
    <3>1. r \notin awaiters'
      BY <2>2 DEF TypeOK
    <3> QED
      BY <2>1, <2>2, <3>1, Acting
  <2>3. ASSUME NEW r \in Runners, RunStep(r)
        PROVE  Goal
    <3>1. Moved(r, "step", runners[r].task) /\ awaiters' \subseteq awaiters \cup {r}
      BY <2>3, RunnerMoves DEF RunStep
    <3> QED
      BY <3>1 DEF TypeOK, Moved
  <2>4. ASSUME NEW r \in Runners,
               StepTimesOut(r) \/ \E outcome \in {"more", "ended"} : ReportStepOutcome(r, outcome)
        PROVE  Goal
    <3>1. awaiters' \subseteq awaiters /\ r \notin awaiters'
      BY <2>4 DEF StepTimesOut, AwaitersOf, ReportStepOutcome
    <3>2. Moved(r, "checkpoint", runners[r].task)
      BY <2>4, RunnerMoves
    <3> QED
      BY <3>1, <3>2 DEF TypeOK, Moved
  <2>5. ASSUME NEW r \in Runners, Acts(r)
        PROVE  Goal
    <3>1. CASE RunStep(r)
      BY <2>3, <3>1
    <3>2. CASE StepTimesOut(r) \/ \E outcome \in {"more", "ended"} : ReportStepOutcome(r, outcome)
      BY <2>4, <3>2
    <3>3. (UNCHANGED awaiters /\ runners[r].pc # "step")
          \/ RunStep(r) \/ StepTimesOut(r)
          \/ \E outcome \in {"more", "ended"} : ReportStepOutcome(r, outcome)
      BY <2>5 DEF Acts, RunnerStep, StartPass, ListTasks, ClaimNext, BudgetExceeded, StepRefused,
         StartsStep, Checkpoint, Settle, DeliverFails, GetParent, ListSubtasks, ReleaseParent,
         stepVars
    <3> QED
      BY <2>2, <2>5, <3>1, <3>2, <3>3
  <2>6. CASE UNCHANGED <<runners, lifeVars, awaiters>>
    BY <2>6 DEF TypeOK
  <2>7. ASSUME NEW r \in 1 .. MaxLives, StartLife(r), runners[r].pc = "off"
        PROVE  Goal
    <3>1. Moved(r, "idle", NoTask) /\ UNCHANGED awaiters /\ r \notin awaiters
      BY <2>7, Beginning DEF StartLife, stepVars, TypeOK
    <3> QED
      BY <3>1 DEF TypeOK, Moved
  <2>8. CASE Crash
    BY <2>8 DEF Crash
  <2> QED
    BY <2>5, <2>6, <2>7, <2>8, LifeSteps
<1> QED
  BY <1>1, <1>3, <1>4, <1>5, <1>6 DEF TypeOK, Records, RunnerRecords

-----------------------------------------------------------------------------
(* Steps in flight, runners alive. *)

Flying == {"step", "checkpoint"}

LEMMA RunnersAreFinite ==
  \A S \in SUBSET Runners : IsFiniteSet(S) /\ Cardinality(S) \in Nat
<1>1. IsFiniteSet(Runners)
  BY TasksAssumption, FS_Interval DEF Runners
<1> QED
  BY <1>1, FS_Subset, FS_CardinalityType

LEMMA Sets ==
  /\ Alive \subseteq Runners /\ Alive' \subseteq Runners
  /\ \A t \in Tasks : InFlight(t) \subseteq Alive /\ InFlight(t)' \subseteq Runners
  BY DEF Alive, InFlight

(* A step is started: it is one more in flight, if this runner had none.   *)
(* A step is recorded: it is one less.  No other step of a runner starts   *)
(* or records one.                                                         *)
Starting(r) ==
  /\ runners[r].pc = "drive" /\ UNCHANGED task
  /\ runners[r].task \in Tasks
  /\ executed' = [executed EXCEPT ![runners[r].task] = @ + 1]
  /\ \E pc \in Flying : Moved(r, pc, runners[r].task)

Recording(r) ==
  /\ UNCHANGED executed
  /\ runners[r].pc = "checkpoint" /\ runners[r].task \in Tasks
  /\ Recorded(runners[r].task, task[runners[r].task].status, task[runners[r].task].used + 1)
  /\ \E pc \in {"idle", "drive", "settle"}, t \in Tasks \cup {NoTask} : Moved(r, pc, t)

Neutral(r) ==
  /\ UNCHANGED executed
  /\ \A u \in Tasks : task'[u].used = task[u].used
  /\ \E pc \in Pcs, t \in Tasks \cup {NoTask} :
       /\ Moved(r, pc, t)
       /\ pc \in Flying <=> runners[r].pc \in Flying
       /\ pc \in Flying => t = runners[r].task

LEMMA Flights ==
  ASSUME Inv, NEW r \in Runners, Acts(r)
  PROVE  Starting(r) \/ Recording(r) \/ Neutral(r)
<1> USE DEF Inv, Flying, lifeVars, stepVars
<1>1. {"idle", "claim", "drive", "step", "checkpoint", "settle",
       "deliver", "aggregate", "release"} \subseteq Pcs
  BY DEF Pcs
<1>2. runners[r].task \in Tasks \cup {NoTask} /\ NoTask \in Tasks \cup {NoTask}
  BY DEF TypeOK
<1>3. ASSUME NEW t \in Tasks, NEW status \in Statuses, Recorded(t, status, task[t].used)
      PROVE  \A u \in Tasks : task'[u].used = task[u].used
  BY <1>3 DEF Recorded
<1>4. {"queued", "running", "ended"} \subseteq Statuses
  BY DEF Statuses, Terminal
<1>5. CASE RunStep(r) \/ StepRefused(r)
  <2>1. /\ runners[r].pc = "drive" /\ UNCHANGED task
        /\ executed' = [executed EXCEPT ![runners[r].task] = @ + 1]
    BY <1>5 DEF RunStep, StepRefused, StartsStep
  <2>2. runners[r].task \in Tasks
    BY <2>1 DEF Hands
  <2> QED
    BY <1>5, <2>1, <2>2, RunnerMoves DEF Starting
<1>6. CASE Checkpoint(r)
  <2>1. UNCHANGED executed
    BY <1>6 DEF Checkpoint
  <2> QED
    BY <1>2, <1>6, <2>1, CheckpointMoves DEF Recording
<1>7. CASE StartPass(r)
  <2>1. UNCHANGED <<task, executed>>
    BY <1>7 DEF StartPass
  <2> QED
    BY <1>1, <1>2, <1>7, <2>1, RunnerMoves DEF Neutral
<1>8. CASE \E a \in Agents : ListTasks(r, a)
  <2>1. UNCHANGED <<task, executed>>
    BY <1>8 DEF ListTasks
  <2> QED
    BY <1>1, <1>2, <1>8, <2>1, RunnerMoves DEF Neutral
<1>9. CASE ClaimNext(r)
  <2>1. UNCHANGED executed
    BY <1>9 DEF ClaimNext
  <2>2. \A u \in Tasks : task'[u].used = task[u].used
    BY <1>3, <1>4, <1>9, RecordMoves
  <2> QED
    BY <1>1, <1>2, <1>9, <2>1, <2>2, RunnerMoves DEF Neutral
<1>10. CASE BudgetExceeded(r)
  <2>1. UNCHANGED <<task, executed>>
    BY <1>10 DEF BudgetExceeded
  <2> QED
    BY <1>1, <1>2, <1>10, <2>1, RunnerMoves DEF Neutral
<1>11. CASE StepTimesOut(r) \/ \E outcome \in {"more", "ended"} : ReportStepOutcome(r, outcome)
  <2>1. UNCHANGED <<task, executed>>
    BY <1>11 DEF StepTimesOut, ReportStepOutcome
  <2> QED
    BY <1>1, <1>2, <1>11, <2>1, RunnerMoves DEF Neutral
<1>12. CASE Settle(r)
  <2>1. UNCHANGED executed
    BY <1>12 DEF Settle
  <2>2. \A u \in Tasks : task'[u].used = task[u].used
    BY <1>3, <1>4, <1>12, RecordMoves
  <2> QED
    BY <1>1, <1>2, <1>12, <2>1, <2>2, RunnerMoves DEF Neutral
<1>13. CASE DeliverFails(r) \/ GetParent(r) \/ \E a \in Agents : ListSubtasks(r, a)
  <2>1. UNCHANGED <<task, executed>>
    BY <1>13 DEF DeliverFails, GetParent, ListSubtasks
  <2> QED
    BY <1>1, <1>2, <1>13, <2>1, RunnerMoves DEF Neutral
<1>14. CASE ReleaseParent(r)
  <2>1. UNCHANGED executed
    BY <1>14 DEF ReleaseParent
  <2>2. \A u \in Tasks : task'[u].used = task[u].used
    BY <1>3, <1>4, <1>14, RecordMoves
  <2> QED
    BY <1>1, <1>2, <1>14, <2>1, <2>2, RunnerMoves DEF Neutral
<1> QED
  BY <1>5, <1>6, <1>7, <1>8, <1>9, <1>10, <1>11, <1>12, <1>13, <1>14 DEF Acts, RunnerStep

(* What the other steps do to the counts.                                  *)
LEMMA OtherCounts ==
  ASSUME Inv, [Next]_vars
  PROVE  \/ \E r \in Runners : Acts(r)
         \/ UNCHANGED executed
            /\ \A t \in Tasks : task'[t].used = task[t].used
<1> USE DEF Inv
<1>1. CASE \E t \in Tasks : ParkParent(t)
  <2>1. UNCHANGED executed
    BY <1>1 DEF ParkParent
  <2> QED
    BY <1>1, <2>1, RecordMoves DEF Recorded
<1>2. CASE \E t \in Tasks, p \in Tasks \cup {NoTask}, a \in Agents, by \in SUBSET Agents :
             Create(t, p, a, by)
  <2>1. UNCHANGED executed
    BY <1>2 DEF Create
  <2> QED
    BY <1>2, <2>1, CreateMoves DEF Family
<1>3. CASE Boot \/ RestartInProcess \/ Crash
  BY <1>3 DEF Boot, RestartInProcess, StartLife, stepVars, Crash
<1>4. CASE UNCHANGED vars
  BY <1>4 DEF vars
<1> QED
  BY <1>1, <1>2, <1>3, <1>4, LifeSteps

LEMMA StepLost ==
  ASSUME Inv, OneStepLost, [Next]_vars
  PROVE  OneStepLost'
<1> USE DEF Inv
<1>1. /\ latest \in Nat /\ crashes \in Nat /\ restarts \in Nat
      /\ \A t \in Tasks : executed[t] \in Nat /\ task[t].used \in Nat
    BY TasksAssumption DEF TypeOK, Runners
<1>2. SUFFICES ASSUME NEW t \in Tasks
               PROVE  executed'[t] + Cardinality(Alive')
                        <= task'[t].used + Cardinality(InFlight(t)') + Started'
  BY DEF OneStepLost
<1>3. /\ Cardinality(Alive) \in Nat /\ Cardinality(Alive') \in Nat
      /\ Cardinality(InFlight(t)) \in Nat /\ Cardinality(InFlight(t)') \in Nat
  BY Sets, RunnersAreFinite
<1>4. executed[t] + Cardinality(Alive) <= task[t].used + Cardinality(InFlight(t)) + Started
  BY DEF OneStepLost
<1>5. Started \in Nat
  BY <1>1 DEF Started
<1>6. CASE \E r \in Runners : Acts(r)
  <2>1. PICK r \in Runners : Acts(r)
    BY <1>6
  <2>2. Alive' = Alive /\ Started' = Started
    BY <2>1, Acting DEF Alive, Started, lifeVars, Moved
  <2>3. CASE Starting(r)
    <3>1. CASE runners[r].task = t
      <4>1. InFlight(t)' = InFlight(t) \cup {r} /\ r \notin InFlight(t)
        BY <2>3, <3>1 DEF InFlight, Starting, Moved, Flying
      <4>2. Cardinality(InFlight(t)') = Cardinality(InFlight(t)) + 1
        BY <4>1, Sets, RunnersAreFinite, FS_AddElement
      <4>3. executed'[t] = executed[t] + 1 /\ task'[t].used = task[t].used
        BY <2>3, <3>1 DEF Starting, TypeOK
      <4> QED
        BY <1>1, <1>3, <1>4, <1>5, <2>2, <4>2, <4>3
    <3>2. CASE runners[r].task # t
      <4>1. InFlight(t)' = InFlight(t)
        BY <2>3, <3>2 DEF InFlight, Starting, Moved, Flying
      <4>2. executed'[t] = executed[t] /\ task'[t].used = task[t].used
        BY <2>3, <3>2 DEF Starting, TypeOK
      <4> QED
        BY <1>4, <2>2, <4>1, <4>2
    <3> QED
      BY <3>1, <3>2
  <2>4. CASE Recording(r)
    <3>1. CASE runners[r].task = t
      <4>1. InFlight(t)' = InFlight(t) \ {r} /\ r \in InFlight(t)
        BY <2>4, <3>1 DEF InFlight, Recording, Moved
      <4>2. Cardinality(InFlight(t)') = Cardinality(InFlight(t)) - 1
        BY <4>1, Sets, RunnersAreFinite, FS_RemoveElement
      <4>3. executed'[t] = executed[t] /\ task'[t].used = task[t].used + 1
        BY <2>4, <3>1 DEF Recording, Recorded
      <4> QED
        BY <1>1, <1>3, <1>4, <1>5, <2>2, <4>2, <4>3
    <3>2. CASE runners[r].task # t
      <4>1. InFlight(t)' = InFlight(t)
        BY <2>4, <3>2 DEF InFlight, Recording, Moved
      <4>2. executed'[t] = executed[t] /\ task'[t].used = task[t].used
        BY <2>4, <3>2 DEF Recording, Recorded
      <4> QED
        BY <1>4, <2>2, <4>1, <4>2
    <3> QED
      BY <3>1, <3>2
  <2>5. CASE Neutral(r)
    <3>1. InFlight(t)' = InFlight(t)
      BY <2>5 DEF InFlight, Neutral, Moved, Flying
    <3>2. executed'[t] = executed[t] /\ task'[t].used = task[t].used
      BY <2>5 DEF Neutral
    <3> QED
      BY <1>4, <2>2, <3>1, <3>2
  <2> QED
    BY <2>1, <2>3, <2>4, <2>5, Flights
<1>7. CASE UNCHANGED <<runners, lifeVars, awaiters>>
           /\ executed'[t] = executed[t] /\ task'[t].used = task[t].used
  <2>1. Alive' = Alive /\ InFlight(t)' = InFlight(t) /\ Started' = Started
    BY <1>7 DEF Alive, InFlight, Started, lifeVars
  <2> QED
    BY <1>4, <1>7, <2>1
<1>8. CASE /\ Boot \/ RestartInProcess
           /\ \E r \in 1 .. MaxLives : runners[r].pc = "off" /\ StartLife(r)
           /\ executed'[t] = executed[t] /\ task'[t].used = task[t].used
  <2>1. PICK r \in Runners : runners[r].pc = "off" /\ StartLife(r) /\ Moved(r, "idle", NoTask)
    BY <1>8, Beginning DEF Runners
  <2>2. Alive' = Alive \cup {r} /\ r \notin Alive
    BY <2>1 DEF Alive, Moved
  <2>3. Cardinality(Alive') = Cardinality(Alive) + 1
    BY <2>2, Sets, RunnersAreFinite, FS_AddElement
  <2>4. InFlight(t)' = InFlight(t)
    BY <2>1 DEF InFlight, Moved
  <2>5. Started' = Started + 1
    BY <1>1, <1>8 DEF Boot, RestartInProcess, StartLife, Started, Runners
  <2> QED
    BY <1>1, <1>3, <1>4, <1>5, <1>8, <2>3, <2>4, <2>5
<1>9. CASE Crash /\ executed'[t] = executed[t] /\ task'[t].used = task[t].used
  <2>1. Cardinality(InFlight(t)) <= Cardinality(Alive)
    BY Sets, RunnersAreFinite, FS_Subset
  <2>2. Alive' = {} /\ InFlight(t)' = {}
    BY <1>9 DEF Crash, Alive, InFlight, Runner
  <2>3. Cardinality(Alive') = 0 /\ Cardinality(InFlight(t)') = 0
    BY <2>2, FS_EmptySet
  <2>4. Started' = Started
    BY <1>1, <1>9 DEF Crash, Started
  <2> QED
    BY <1>1, <1>3, <1>4, <1>5, <1>9, <2>1, <2>3, <2>4
<1>10. QED
  <2>1. (\E r \in Runners : Acts(r)) \/ (executed'[t] = executed[t] /\ task'[t].used = task[t].used)
    BY OtherCounts
  <2>2. CASE executed'[t] = executed[t] /\ task'[t].used = task[t].used
    BY <1>6, <1>7, <1>8, <1>9, <2>2, LifeSteps
  <2> QED
    BY <1>6, <2>1, <2>2

-----------------------------------------------------------------------------
(* Ended tasks. *)

LEMMA StepFinal ==
  ASSUME Inv, [Next]_vars, restarts = 0, NEW t \in Tasks, task[t].status \in Terminal
  PROVE  task'[t].status = task[t].status
<1> USE DEF Inv, Terminal, lifeVars, stepVars
<1>1. CASE \E u \in Tasks, p \in Tasks \cup {NoTask}, a \in Agents, by \in SUBSET Agents :
             Create(u, p, a, by)
  BY <1>1, CreateMoves DEF Born
<1>2. CASE \E u \in Tasks : ParkParent(u)
  BY <1>2, RecordMoves DEF Recorded, Runnable
<1>3. ASSUME NEW r \in Runners, ClaimNext(r)
      PROVE  task'[t].status = task[t].status
  BY <1>3, RecordMoves DEF Recorded, Runnable
<1>4. ASSUME NEW r \in Runners, Checkpoint(r)
      PROVE  task'[t].status = task[t].status
  BY <1>4, CheckpointMoves DEF Recorded
<1>5. ASSUME NEW r \in Runners, Settle(r)
      PROVE  task'[t].status = task[t].status
  BY <1>5, RecordMoves DEF Recorded
<1>6. ASSUME NEW r \in Runners, ReleaseParent(r)
      PROVE  task'[t].status = task[t].status
  <2>1. task[Parent(r)].status = "blocked"
    BY <1>6 DEF ReleaseParent, Blocked
  <2> QED
    BY <1>6, <2>1, RecordMoves DEF Recorded
<1>7. ASSUME NEW r \in Runners,
             StartPass(r) \/ (\E a \in Agents : ListTasks(r, a)) \/ BudgetExceeded(r)
             \/ RunStep(r) \/ StepRefused(r) \/ StepTimesOut(r) \/ DeliverFails(r)
             \/ GetParent(r) \/ (\E a \in Agents : ListSubtasks(r, a))
             \/ \E outcome \in {"more", "ended"} : ReportStepOutcome(r, outcome)
      PROVE  task'[t].status = task[t].status
  BY <1>7 DEF StartPass, ListTasks, BudgetExceeded, RunStep, StepRefused, StartsStep,
              StepTimesOut, DeliverFails, GetParent, ListSubtasks, ReportStepOutcome
<1>8. CASE Boot \/ RestartInProcess \/ Crash
  BY <1>8 DEF Boot, RestartInProcess, StartLife, Crash
<1>9. CASE UNCHANGED vars
  BY <1>9 DEF vars
<1> QED
  BY <1>1, <1>2, <1>3, <1>4, <1>5, <1>6, <1>7, <1>8, <1>9, LifeSteps DEF Acts, RunnerStep

-----------------------------------------------------------------------------
LEMMA InitInv ==
  Init => Inv /\ OneStepLost
<1> SUFFICES ASSUME Init
             PROVE  Inv /\ OneStepLost
  OBVIOUS
<1>1. Unborn \in Records
  BY DEF Unborn, Records, Statuses
<1>2. Runner("off") \in RunnerRecords
  BY DEF Runner, RunnerRecords, Pcs
<1>3. TypeOK
  BY <1>1, <1>2, TasksAssumption DEF Init, TypeOK, Records, RunnerRecords
<1>4. LivesCounted /\ Alone /\ Family /\ Hands /\ Blocked
  BY DEF Init, LivesCounted, Alone, Family, Hands, Blocked, Born, Runner, Unborn, NoTask
<1>5. \A t \in Tasks : InFlight(t) = {} /\ executed[t] = 0 /\ task[t].used = 0
  BY DEF Init, InFlight, Runner, Unborn
<1>6. Alive = {} /\ Started = 0
  BY DEF Init, Alive, Started, Runner
<1>7. OneStepLost
  BY <1>5, <1>6, FS_EmptySet DEF OneStepLost
<1> QED
  BY <1>3, <1>4, <1>7 DEF Inv

LEMMA StepInv ==
  Inv /\ [Next]_vars => Inv'
<1> SUFFICES ASSUME Inv, [Next]_vars
             PROVE  Inv'
  OBVIOUS
<1>1. TypeOK'
  BY StepTypes
<1>2. LivesCounted' /\ Alone'
  BY StepAlone
<1>3. Family'
  BY StepGrown DEF Grown
<1>4. Hands'
  BY StepHands
<1>5. Blocked'
  BY StepBlocked
<1> QED
  BY <1>1, <1>2, <1>3, <1>4, <1>5 DEF Inv

(* What a runner holds on to, a task or its parent, exists, and the types  *)
(* of all variables hold.                                                  *)
THEOREM InvHolds == Spec => []Inv
<1>1. Init => Inv
  BY InitInv
<1>2. Inv /\ [Next]_vars => Inv'
  BY StepInv
<1> QED
  BY <1>1, <1>2, PTL DEF Spec

(* The variables keep their types: no runner writes to a task that does    *)
(* not exist, and no awaiter outlives the step that it belongs to.         *)
THEOREM TypesHold == Spec => []TypeOK
<1>1. Inv => TypeOK
  BY DEF Inv
<1> QED
  BY <1>1, InvHolds, PTL

(* Crashes and restarts cost one step of bookkeeping for each runner that  *)
(* is no more, in whatever order they come and whichever tasks the runners *)
(* of two lives drive beside one another.                                  *)
THEOREM CrashesCostOneStepARunner == Spec => []OneStepLost
<1>1. Init => Inv /\ OneStepLost
  BY InitInv
<1>2. Inv /\ OneStepLost /\ [Next]_vars => (Inv /\ OneStepLost)'
  BY StepInv, StepLost
<1> QED
  BY <1>1, <1>2, PTL DEF Spec

(* Until there has been an in-process restart, a task that has ended is    *)
(* neither parked nor re-queued, whatever crashes there are.               *)
THEOREM EndedTasksStayEnded == Spec => TerminalIsFinal
<1>1. Inv /\ [Next]_vars =>
        [restarts = 0 => \A t \in Tasks :
           task[t].status \in Terminal => task'[t].status = task[t].status]_vars
  BY StepFinal
<1> QED
  BY <1>1, InvHolds, PTL DEF Spec, TerminalIsFinal

=============================================================================

---------------------------- MODULE CognitiveTasks ----------------------------
(***************************************************************************)
(* Background tasks (src/cognitive/tasks/): a runner drives a task through *)
(* bounded steps, each a turn of the agent; a task may be split, which     *)
(* parks it until all of its subtasks have ended.                          *)
(*                                                                         *)
(* Task records are on disk, and an operation of TaskStore is atomic under *)
(* the lock of its file; everything else is lost in a crash.  A runner     *)
(* belongs to one life of the gateway.  An in-process restart stops its    *)
(* ticker, but the pass it is in goes on beside the next runner.           *)
(*                                                                         *)
(* Tasks are numbered in the order of createdAt.  Left out: texts and      *)
(* results, the pacing gate (it may refuse a task before anything is       *)
(* stored), progress messages, the eviction of records beyond              *)
(* MAX_TASKS_PER_USER, passes that overlap in one runner, and time: the    *)
(* wall-clock budget may be over at any check and a step may time out at   *)
(* any moment.  One user.                                                  *)
(***************************************************************************)
EXTENDS Naturals, FiniteSets

CONSTANTS
  N,           \* bound: the tasks that may be created
  Agents,      \* the agents, each with a file of tasks
  MaxSteps,    \* MaxSteps[t]: budget.maxSteps of t
  MaxLives     \* bound: lives of the gateway, ended by a crash or an in-process restart

Tasks == 1 .. N

ASSUME TasksAssumption ==
  /\ N \in Nat
  /\ MaxLives \in Nat \ {0}
  /\ MaxSteps \in [Tasks -> Nat]

NoTask == 0
Runners == 1 .. MaxLives  \* one for each life

VARIABLES
  task,      \* task[t]: the record of t
  runners,   \* runners[r]: what the runner r is doing
  latest,    \* the runner of the present life, 0 when the process is down
  awaiters,  \* the runners whose step waits in the awaiters map
  parking,   \* stored subtasks whose parent has not been parked yet
  crashes, restarts,   \* the lives that have ended, by the way they ended
  executed   \* history: steps of t that were started

vars == <<task, runners, latest, awaiters, parking, crashes, restarts, executed>>
lifeVars == <<latest, crashes, restarts>>
stepVars == <<awaiters, parking, executed>>

(* done, failed and halted are one status: no code tells them apart. *)
Terminal == {"ended"}

(* A record: its status, its step count, its parent, the agent in whose    *)
(* file it is, and the agent that made it a subtask (parentAgentId).       *)
Unborn == [status |-> "unborn", used |-> 0, parent |-> NoTask, agents |-> {}, by |-> {}]

Children(p) == {c \in Tasks : task[c].parent = p}
AllEnded(S) == \A c \in S : task[c].status \in Terminal

(* A runner: the files its pass has still to visit, the task in its hands, *)
(* the step count of its copy of the record, and the files that it has     *)
(* still to read for subtasks.                                             *)
Runner(pc) ==
  [pc |-> pc, todo |-> {}, task |-> NoTask, used |-> 0, outcome |-> "more", unread |-> {}]

Init ==
  /\ task = [t \in Tasks |-> Unborn]
  /\ runners = [r \in Runners |-> Runner("off")]
  /\ latest = 0
  /\ awaiters = {} /\ parking = {}
  /\ crashes = 0 /\ restarts = 0
  /\ executed = [t \in Tasks |-> 0]

Goto(r, pc) == runners' = [runners EXCEPT ![r].pc = pc]
Outcome(r, pc, outcome) == runners' = [runners EXCEPT ![r].pc = pc, ![r].outcome = outcome]
Idle(r) == runners' = [runners EXCEPT ![r] = [Runner("idle") EXCEPT !.todo = runners[r].todo]]

-----------------------------------------------------------------------------
(* Creation. *)

(* TaskStore.create puts the record in the file of one agent. *)
Create(t, parent, a, by) ==
  /\ latest # 0
  /\ task[t].status = "unborn"
  /\ \A c \in 1 .. (t - 1) : task[c].status # "unborn"
  /\ task' = [task EXCEPT ![t] =
       [status |-> "queued", used |-> 0, parent |-> parent, agents |-> {a}, by |-> by]]
  /\ UNCHANGED <<runners, lifeVars, awaiters, executed>>

CreateTask(t, a) ==
  /\ Create(t, NoTask, a, {})
  /\ UNCHANGED parking

(* Any turn that knows the id of p may split p, be it a turn of another    *)
(* agent than that of p.                                                   *)
CreateSubtask(t, p, a, b) ==
  /\ task[p].status # "unborn"
  /\ Create(t, p, a, {b})
  /\ parking' = parking \cup {t}

(* The parent of t is looked for in the file of the agent that made t. *)
FindsParent(t) == task[t].by = task[task[t].parent].agents

ParkParent(t) ==
  /\ t \in parking
  /\ parking' = parking \ {t}
  /\ task' = [task EXCEPT ![task[t].parent].status =
       IF @ \in {"queued", "running"} /\ FindsParent(t) THEN "blocked" ELSE @]
  /\ UNCHANGED <<runners, lifeVars, awaiters, executed>>

-----------------------------------------------------------------------------
(* The runner. *)

(* The boot-time pass, and later those of the ticker, which is stopped by  *)
(* the next life.                                                          *)
StartPass(r) ==
  /\ r = latest
  /\ runners[r].pc = "idle"
  /\ runners[r].todo = {}
  /\ runners' = [runners EXCEPT ![r].todo = Agents]
  /\ UNCHANGED <<task, lifeVars, stepVars>>

(* Fault: tasks that a crash has left running are not resumed. *)
FaultRunnable(t) == task[t].status = "queued"

Runnable(t) == task[t].status \in {"queued", "running"}

(* claimNext, first half: the oldest runnable task of a file. *)
Oldest(S) == CHOOSE t \in S : \A c \in S : t <= c

ListTasks(r, a) ==
  LET runnable == {t \in Tasks : a \in task[t].agents /\ Runnable(t)}
  IN /\ runners[r].pc = "idle"
     /\ a \in runners[r].todo
     /\ IF runnable = {}
        THEN runners' = [runners EXCEPT ![r].todo = @ \ {a}]
        ELSE runners' = [runners EXCEPT
               ![r].todo = @ \ {a}, ![r].pc = "claim", ![r].task = Oldest(runnable)]
     /\ UNCHANGED <<task, lifeVars, stepVars>>

(* Fault: the claim starts the budget anew. *)
FaultClaimed(rec) == [rec EXCEPT !.status = "running", !.used = 0]

Claimed(rec) == [rec EXCEPT !.status = "running"]

(* claimNext, second half: the task is claimed if it is still runnable. *)
ClaimNext(r) ==
  LET t == runners[r].task
  IN /\ runners[r].pc = "claim"
     /\ IF Runnable(t)
        THEN /\ task' = [task EXCEPT ![t] = Claimed(task[t])]
             /\ runners' = [runners EXCEPT ![r].pc = "drive", ![r].used = task'[t].used]
        ELSE Idle(r) /\ UNCHANGED task
     /\ UNCHANGED <<lifeVars, stepVars>>

(* The head of the drive loop finds the budget exceeded: by its steps, or  *)
(* by the time since the first claim.                                      *)
BudgetExceeded(r) ==
  /\ runners[r].pc = "drive"
  /\ Goto(r, "settle")
  /\ UNCHANGED <<task, lifeVars, stepVars>>

(* A step is known by its task and its number. *)
StepKey(r) == <<runners[r].task, runners[r].used + 1>>

(* Fault: the timer leaves the awaiter in the map. *)
FaultAwaitersOf(key) == {}

AwaitersOf(key) == {r \in awaiters : StepKey(r) = key}

StartsStep(r) ==
  /\ runners[r].pc = "drive"
  /\ runners[r].used < MaxSteps[runners[r].task]
  /\ executed' = [executed EXCEPT ![runners[r].task] = @ + 1]
  /\ UNCHANGED <<task, lifeVars, parking>>

(* runStep: the agent is prompted and its report awaited.  An awaiter of   *)
(* the same step is replaced.                                              *)
RunStep(r) ==
  /\ StartsStep(r)
  /\ Goto(r, "step")
  /\ awaiters' = (awaiters \ AwaitersOf(StepKey(r))) \cup {r}

(* runStep fails at once: no session to run on, or the prompt equals the   *)
(* last one that is still queued there.                                    *)
StepRefused(r) ==
  /\ StartsStep(r)
  /\ Outcome(r, "checkpoint", "ended")
  /\ UNCHANGED awaiters

(* task_step_report resolves the awaiter of the step; a report on a step   *)
(* without one, late or repeated, changes nothing.                         *)
ReportStepOutcome(r, outcome) ==
  /\ r \in awaiters
  /\ awaiters' = awaiters \ {r}
  /\ Outcome(r, "checkpoint", outcome)
  /\ UNCHANGED <<task, lifeVars, parking, executed>>

(* The timer of a step fires: whatever awaiter the step has is deleted. *)
StepTimesOut(r) ==
  /\ runners[r].pc = "step"
  /\ awaiters' = awaiters \ AwaitersOf(StepKey(r))
  /\ Outcome(r, "checkpoint", "ended")
  /\ UNCHANGED <<task, lifeVars, parking, executed>>

(* The step is persisted; then an error or the goal ends the task, and a   *)
(* task that has been parked meanwhile is left alone.                      *)
Checkpoint(r) ==
  LET t == runners[r].task
  IN /\ runners[r].pc = "checkpoint"
     /\ task' = [task EXCEPT ![t].used = @ + 1]
     /\ IF runners[r].outcome = "ended" THEN Goto(r, "settle")
        ELSE IF task[t].status = "blocked" THEN Idle(r)
        ELSE runners' = [runners EXCEPT ![r].pc = "drive", ![r].used = task'[t].used]
     /\ UNCHANGED <<lifeVars, stepVars>>

(* The terminal status is persisted, whatever the status is by then. *)
Settle(r) ==
  /\ runners[r].pc = "settle"
  /\ task' = [task EXCEPT ![runners[r].task].status = "ended"]
  /\ Goto(r, "deliver")
  /\ UNCHANGED <<lifeVars, stepVars>>

-----------------------------------------------------------------------------
(* notifyTerminal and aggregateOnTaskTerminal, after the result has been   *)
(* delivered.  A task of the user has no parent to release.                *)

(* deliver throws: the pass drops the task and goes on with the next file. *)
DeliverFails(r) ==
  /\ runners[r].pc = "deliver"
  /\ Idle(r)
  /\ UNCHANGED <<task, lifeVars, stepVars>>

Parent(r) == task[runners[r].task].parent

(* Fault: the status of the parent is not looked at. *)
FaultWaits(t) == task[t].parent # NoTask /\ FindsParent(t)

Waits(t) ==
  /\ task[t].parent # NoTask
  /\ FindsParent(t)
  /\ task[task[t].parent].status = "blocked"

GetParent(r) ==
  /\ runners[r].pc = "deliver"
  /\ IF Waits(runners[r].task)
     THEN runners' = [runners EXCEPT ![r].pc = "aggregate", ![r].unread = Agents]
     ELSE Idle(r)
  /\ UNCHANGED <<task, lifeVars, stepVars>>

(* listSubtasks reads one file after the other; the parent is released     *)
(* only if all subtasks it has read had ended.                             *)
ListSubtasks(r, a) ==
  LET unread == runners[r].unread \ {a}
      subtasks == {c \in Children(Parent(r)) : a \in task[c].agents}
  IN /\ runners[r].pc = "aggregate"
     /\ a \in runners[r].unread
     /\ IF AllEnded(subtasks)
        THEN runners' = [runners EXCEPT ![r].unread = unread,
               ![r].pc = IF unread = {} THEN "release" ELSE @]
        ELSE Idle(r)
     /\ UNCHANGED <<task, lifeVars, stepVars>>

ReleaseParent(r) ==
  /\ runners[r].pc = "release"
  /\ task' = [task EXCEPT ![Parent(r)].status = "queued"]
  /\ Idle(r)
  /\ UNCHANGED <<lifeVars, stepVars>>

-----------------------------------------------------------------------------
(* Lives. *)

StartLife(r) ==
  /\ latest' = r
  /\ runners' = [runners EXCEPT ![r] = Runner("idle")]
  /\ UNCHANGED <<task, stepVars>>

(* A fresh process starts. *)
Boot ==
  /\ latest = 0
  /\ StartLife(1 + crashes + restarts)
  /\ UNCHANGED <<crashes, restarts>>

RestartInProcess ==
  /\ latest # 0
  /\ latest < MaxLives
  /\ restarts' = restarts + 1
  /\ StartLife(latest + 1)
  /\ UNCHANGED crashes

Crash ==
  /\ latest # 0
  /\ latest < MaxLives
  /\ crashes' = crashes + 1
  /\ latest' = 0
  /\ runners' = [r \in Runners |-> Runner("off")]
  /\ awaiters' = {} /\ parking' = {}
  /\ UNCHANGED <<task, restarts, executed>>

RunnerStep(r) ==
  \/ StartPass(r)
  \/ \E a \in Agents : ListTasks(r, a)
  \/ ClaimNext(r)
  \/ BudgetExceeded(r)
  \/ RunStep(r)
  \/ StepRefused(r)
  \/ StepTimesOut(r)
  \/ Checkpoint(r)
  \/ Settle(r)
  \/ DeliverFails(r)
  \/ GetParent(r)
  \/ \E a \in Agents : ListSubtasks(r, a)
  \/ ReleaseParent(r)

Next ==
  \/ \E t \in Tasks, a \in Agents : CreateTask(t, a)
  \/ \E t, p \in Tasks, a, b \in Agents : CreateSubtask(t, p, a, b)
  \/ \E t \in Tasks : ParkParent(t)
  \/ \E r \in Runners : RunnerStep(r)
  \/ \E r \in Runners, outcome \in {"more", "ended"} : ReportStepOutcome(r, outcome)
  \/ Boot
  \/ RestartInProcess
  \/ Crash

Spec == Init /\ [][Next]_vars

(* A gateway that is down is started again, its ticker goes on, what is    *)
(* ready runs, and a step ends at the latest by its timeout.  (Boot and    *)
(* ParkParent are never enabled together, so one condition serves both.)   *)
(* FairSpec lets the runner of a life that is over be slow for ever: that  *)
(* is enough for TasksEnd.  EachRunnerFair does not.                       *)
Fairness ==
  /\ WF_vars(Boot \/ \E t \in Tasks : ParkParent(t))
  /\ WF_vars(\E r \in Runners : RunnerStep(r))

EachRunnerFair == \A r \in Runners : WF_vars(RunnerStep(r))

FairSpec == Spec /\ Fairness
EachFairSpec == FairSpec /\ EachRunnerFair

-----------------------------------------------------------------------------
(* Properties. *)

Pcs == {"off", "idle", "claim", "drive", "step", "checkpoint", "settle",
        "deliver", "aggregate", "release"}
Statuses == {"unborn", "queued", "running", "blocked"} \cup Terminal

TypeOK ==
  /\ task \in [Tasks -> [status : Statuses, used : Nat,
                         parent : Tasks \cup {NoTask}, agents : SUBSET Agents,
                         by : SUBSET Agents]]
  /\ runners \in [Runners -> [pc : Pcs, todo : SUBSET Agents, task : Tasks \cup {NoTask},
                              used : Nat, outcome : {"more", "ended"},
                              unread : SUBSET Agents]]
  /\ latest \in Runners \cup {0}
  /\ awaiters \subseteq {r \in Runners : runners[r].pc = "step"}
  /\ parking \subseteq Tasks
  /\ {crashes, restarts} \subseteq Nat /\ crashes + restarts < MaxLives
  /\ executed \in [Tasks -> Nat]

(* A task that has ended never changes its status again: no notification   *)
(* of a late child re-queues it, and no subtask made for it afterwards     *)
(* parks it.  So it is as long as no in-process restart has left a second  *)
(* runner behind.                                                          *)
TerminalIsFinal ==
  [][restarts = 0 => \A t \in Tasks :
       task[t].status \in Terminal => task'[t].status = task[t].status]_vars

Alive == {r \in Runners : runners[r].pc # "off"}
Started == crashes + restarts + (IF latest = 0 THEN 0 ELSE 1)
InFlight(t) ==
  {r \in Runners : runners[r].task = t /\ runners[r].pc \in {"step", "checkpoint"}}

(* The comment in drive says that a crash loses at most one step of        *)
(* bookkeeping: it loses one of each runner that it kills, and an          *)
(* in-process restart leaves a second one to be killed.  The steps of a    *)
(* task that were started are those on record, those in flight, and one    *)
(* for each runner that was started and is no more.                        *)
OneStepLost ==
  \A t \in Tasks :
    executed[t] + Cardinality(Alive) <= task[t].used + Cardinality(InFlight(t)) + Started

(* A task that is queued, or was left running by a crash, is driven until  *)
(* it ends or waits for its subtasks, behind whatever tasks come first.    *)
TasksEnd ==
  \A t \in Tasks :
    task[t].status \in {"queued", "running"} ~> task[t].status \in Terminal \cup {"blocked"}

(* aggregateOnTaskTerminal says that the blocked parent is re-queued when  *)
(* the last of its subtasks has ended.  It does not hold across a crash    *)
(* between the end of the last subtask and the release.                    *)
ParentsAreReleased ==
  \A p \in Tasks :
    task[p].status = "blocked" /\ AllEnded(Children(p)) ~> task[p].status # "blocked"
=============================================================================

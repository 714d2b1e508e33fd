# A verification development of KaijiBot's gateway

KaijiBot is a chat assistant that lives in one Node.js process, the *gateway*.
Messages arrive from many channels, each starts or joins an agent run, runs call
models and tools for minutes, and replies go back out. What is hard about it is
not parallelism, there is one thread, but the *await*: between any two of them
every other async function may run, the process may die, or it may be restarted
in place with the module-level state of the previous life still there.

This directory holds TLA+ modules that model the parts of the gateway where that
matters, TLC configurations that check them on small instances, and TLAPS proofs.
Paths below are relative to the repository's root.

## Inventory

| component | state | operations | what is hard |
|---|---|---|---|
| Command queue (`src/process/command-queue.ts`) | per lane: queue, active task ids, cap, generation; drain waiters; `gatewayDraining` | enqueue, pump, completion, resize, clear, reset, wait for active tasks | a pump runs inside other operations; completions of a life that is over; caps changed under load |
| Agent runs and restart (`src/agents/pi-embedded-runner/{lanes,run,runs}.ts`, `src/cli/gateway-cli/run-loop.ts`) | nested lane slots of a run, registry of embedded runs, state of the restart loop | submit, register, finish, interrupt, drain, abort, restart | a run holds one lane while it waits for another; restart in between |
| Followup queue (`src/auto-reply/reply/queue/`, `src/utils/queue-helpers.ts`) | per session: items, dropped messages, settings, drain loop | enqueue with dedupe and overflow, drain in collect or followup mode, clear | state read before a turn is awaited and used after it |
| Outbound delivery queue (`src/infra/outbound/delivery-queue-*.ts`) | a file per delivery, claims in memory | write-ahead, ack in two phases, count a failure, replay at start and on reconnect | crashes; replays racing live sends and each other |
| Cognitive tasks (`src/cognitive/tasks/`) | task records on disk per agent and user; runner, step awaiters in memory | create, split, claim, step, report, checkpoint, halt, aggregate | crash between two updates; children ending before the parent is blocked; two runners after a restart |
| Heartbeats (`src/infra/heartbeat-wake.ts`, `heartbeat-runner.ts`, `heartbeat-schedule.ts`) | wake layer: pending wakes by target, one timer, `running` and `scheduled`, the handler; runner: agents with due dates, its own timer | request, fire, retry; run and advance, update the configuration, switch off and on, stop, start | module state outlives the runner; a handler replaced while a batch is awaited; who is to set the next timer |
| Exec approvals (`src/gateway/exec-approval-manager.ts`, `server-methods/approval-shared.ts`, `src/agents/bash-tools.exec-*.ts`) | entries with a decision, an expiry and a deletion time; promises held by handlers | request, deliver, resolve, expire, wait, act, invoke and consume | a decision racing expiry, deletion and a slow delivery; an invocation delivered twice |
| Cron service (`src/cron/service/`) | a file of jobs with slots and running markers, its copy in memory, a timer; ticks, catch-up and manual runs in progress | start with catch-up, tick, manual run, add, update, remove, list, replacement | jobs run outside the lock; markers left by a crash; a service that outlives its replacement |
| System events (`src/infra/system-events.ts`) | bounded queue per session | push, peek, consume | consume after the limit has pushed events out |

Interaction: a channel message becomes a *command* in the session's lane; that
command enqueues a second one in the global lane (`main`, or `nested` for
cron) and awaits it; if the session is busy the message goes to the followup queue
instead, whose drain loop submits turns later; a reply is written to the delivery
queue and sent. The restart loop stops new work (`markGatewayDraining`), waits for
active tasks and runs, aborts what is left, closes the server, resets the lanes
(`resetAllLanes`) and starts a new server in the same process, whose first act is
to replay the delivery queue.

Not modelled at all, and why: session write lock, gateway lock, supervisor and
restart triggers (behaviour of the file system, other processes and signals), the
system events, the subagent, task and flow registries, ACP control plane, device
pairing and session store (candidates for later), the proactive scheduler
(heuristics on time and text), channels, plugins, providers, UI, CLI (I/O and
formatting; most of the repository's lines are of this kind).
`PROJECT.json` lists each with its reason, and the hazards of the code, each at
its line, with the properties that would show it going wrong.

## Modules

| module | what it is |
|---|---|
| `LaneQueue` | operators on the record of one lane: `DrainLane`, `Pushed`, `Completed`, `Resized`, `Cleared`, `Reset`. A `function drainLane(lane)` of the code is a function from record to record here. Used by the two modules below. |
| `LaneService` | abstract specification: what a caller of the command queue may rely on. Per lane a sequence of accepted commands; a command is started at most once and only from the head; it is settled once; nothing accepted disappears except by a clear, which settles it. |
| `CommandLanes` | the command queue: one action per exported function, with the pump inside. Refines `LaneService` (`ServiceSpec`). |
| `GatewayRuns` | composition: reply, interrupting and cron runs through their nested lanes, the registry of embedded runs, the restart loop. Reuses `LaneQueue`. |
| `FollowupQueue` | the followup queue of one session with its drain loops. |
| `DeliveryQueue` | the delivery directory, live deliveries, recoveries, drains, crashes. |
| `CognitiveTasks` | background tasks: records, runners, step awaiters, subtasks and the release of parents, crashes and in-process restarts. |
| `CronService` | the jobs, the timer tick, the catch-up at start, manual runs and the user's changes, over services that replace each other. |
| `ExecApprovals` | one approval from request to execution: manager, request handler, approver, agent, `node.invoke`. |
| `HeartbeatWake` | the wake layer and the runner it calls, composed: their timers, batches, retries and restarts. |
| `MC*` | instances for TLC: model values and the sets a `.cfg` refers to. |
| `CommandLanes_proofs`, `GatewayRuns_proofs`, `FollowupQueue_proofs`, `DeliveryQueue_proofs`, `CognitiveTasks_proofs`, `CronService_proofs`, `ExecApprovals_proofs`, `HeartbeatWake_proofs` | theorems and proofs. |

Definitions named `Fault...` stand beside the definition they corrupt. Nothing
uses them; they are the bugs against which each property is tried (`mutants` in
`PROJECT.json`): replacing the definition by its faulty form must make the property fail.

### How state and actions correspond to the code

*Command queue.* `lanes[l]` is `LaneState` of the code with `maxConcurrent`,
`generation`, `queue` and `activeTaskIds`; a command is identified with its queue
entry and its task id. `stage[c]` is the promise the caller holds: waiting,
running, or how it was settled. Synchronous code is one step: enqueue together
with the pump it triggers, a completion together with the pump after it and the
waiters it resolves, a reset with all its pumps. A task's body is the environment;
it ends by `SettleTask`, normally or with an error. `WaitForActiveTasks` takes the
snapshot of active ids, and `WaiterTimeout` is its timer.

*Runs.* `Path(r)` is the sequence of lanes `runEmbeddedPiAgent` (and for a manual
cron run `enqueueRun`) nests: (cron,) session, global. A run's task in one lane
enqueues in the next and awaits it, so a lane is left when the inner one has ended, but
for the cron lane: a cron job that is not to be run any more when it gets its slot calls
no run, and one that times out leaves its run behind (`CronEnds`).
`embedded` is `ACTIVE_EMBEDDED_RUNS`; replies that run in other backends have a registry
of their own (`runs.ts:221-226`), which is left out. The restart loop's `request` handler is
`RequestRestart` (refuse new work, snapshot the tasks), `TasksDrained`,
`RunsDrained`, `DrainOver` (both answered or timed out, remaining runs aborted) and
`RestartIteration` (reset of all lanes). The reset leaves promises of the previous
life pending: their runs go on, so a property about two turns is about one life.
A reset pumps every lane with waiting entries in one step; the session tasks that
start thereby queue their turns in each global lane in any order.

*Followup queue.* Queue objects have ids because the registry entry can be deleted
while a loop still holds the object. A drain loop's pc is where it awaits: in the
debounce or in a turn; everything between two awaits is one step (`RunCollected`,
`RunIndividually`, `RunNext`, then `TurnEnds`/`TurnFails`, including the removal,
the summary reset, the loop head and the `finally` block). Messages all carry an
id, the parameters of `enqueueFollowupRun` that its caller does not use (`restartIfIdle`,
other dedupe modes) and the run settings carried along are not modelled, the limit on summary lines is
not reached (at most as many lines as the cap), and a debounce may end at any moment.

*Delivery queue.* `disk[d]` are the files of `d`, `entry[d]` the content of its
`.json`. Actors are live deliveries and workers; each `await` on the file system
or a channel separates two steps. `updates` are calls of `failDelivery` between
their read and their write. Time is absent: a backoff or the recovery's budget may
be over or not. A write (temporary file, then rename) is one atomic step; two
writes of one entry at the same moment share the temporary file, in which case the
second may fail; the model lets both succeed.

*Cognitive tasks.* `task[t]` is the record in the store; an operation of
`TaskStore` holds the file's lock and is one step. `runners[r]` is the call stack
of one runner, that is of one life of the gateway: between two awaits of
`tick`, `claimNext`, `drive` and `aggregateOnTaskTerminal` is one step. `awaiters`
is the map of `step-driver.ts`; its key is the task and the step, so a second
runner in the same step replaces the awaiter of the first, and the timer of the
first deletes that of the second (`AwaitersOf`). A turn of the agent is the
environment: it reports, or does not and the step times out, and any turn may split
a task at any moment, also a turn of another agent than the task's: `createTaskSafely` and
`aggregateOnTaskTerminal` look for the parent in the file of the agent that made the
subtask (`FindsParent`), while `listSubtasks` reads the files of all agents, one after
the other (`ListSubtasks`). A result whose delivery throws ends the pass before
`notifyTerminal` (`DeliverFails`). `done`, `failed` and `halted` are one status `ended`, since
only `isTerminalTaskStatus` reads them. `parking` are calls of `createTaskSafely`
between the two store operations. A step that is refused at once (no session, or
`enqueueSystemEvent` declines a repeated prompt) counts as executed like any other.

*Cron.* `disk` is the store file, `mem[s]` the copy of service `s`. A section under
`locked` is one step, since the lock is per file and process; running a job is
outside. `tick[s]`, `catchup[s]` and `manual[s]` hold the local variables of
`onTimer`, `runMissedJobs` and `run` across their awaits. Jobs reserved by a tick
are objects of the store in memory as long as nothing reloads it (`same`), which is
why `RunDueJob` marks them there. Time is a small clock, 0 stands for `undefined`; a
`cron` job has a period instead of a calendar. A reload of the configuration stops
the service and starts the next one on the same file; what runs goes on, and so does a
manual run that waits in the cron lane: it was queued over the state of its service
(`EnqueueRun`), is looked at and reserved there (`Preflight`, `Prepare`), and loads nothing,
because `ensureLoaded` returns at once when the store is in memory (`store.ts:28-30`).
Left out: updates that patch a job's state, `MIN_REFIRE_GAP_MS` (less than a unit of the
clock), manual runs refused because the stored specification is not supported. `excused`
is a history variable: jobs whose marker was forgotten while they ran, by a disable,
a removal or a replacement.

*Exec approvals.* One approval, because ids are random and never registered twice.
`entry` is the manager's map entry, `promise` the promise that every waiter holds,
`handler` and `agent` say where `handlePendingApprovalRequest` and the agent's tool
call await. Both forms of the request are there (`twoPhase`), both hosts and both
fallbacks, and a client with or without the right to use approvals. A timer is due at its time and may be late. `unheard` remembers the two
paths on which the code answers "no decision" without looking at the promise. The agent's
calls may fail or time out while the gateway goes on with them (`CallFails`). A
registration is never refused, because an id is used once.

*Heartbeats.* `pendingWakes`, `timer`, `running` and `scheduled` are the module
variables of the wake layer; `batches` are activations of its timer callback, each
awaiting one wake after the other; `agents`, `dueIn` and `ticker` are the state of
the present runner. A call of the handler is `Call`, then per agent `TurnEnds` or
`TurnFindsLaneBusy`. All times are ticks that are left, and `Pass` lets one go by,
so behaviours are not cut off by a clock and liveness is meaningful. That the
callback catches an exception of the handler is left out, since the runner's
handler catches all of `runOnce`. Wakes of a batch and agents of a run come in any
order, and the agents of a run are settled when it begins. `wanted` is a history
variable: the strongest reason asked for and not yet handed to the handler.

## Runs

| run | instance | question and result |
|---|---|---|
| `CommandLanes` | 2 lanes, 3 commands, caps 1..2, 1 restart, 1 waiter | Are queues and slots exact, does no lane get stuck, is no waiter missed, is a cap ever exceeded by a start, does `drained` mean drained, and does the queue implement `LaneService`? All hold. |
| `GatewayRuns` | 3 runs, two of one session (one of them a cron run) and one of another, one slot in the global lane, 1 restart | Is a session entered once at a time within a life, is a drained gateway quiet, does every command of every run end, also those queued when the lanes were reset and those a cron job has given up? Yes. This is also where the liveness of the command queue is asked: with the callers that use it. |
| `Followup` | 3 messages, cap 2, both modes, a failure, a clear, a redelivery | Without overflow and clear, is nothing lost, and is everything run once unless a turn failed; does every waiting message below the cap get a turn? Yes. |
| `FollowupOverflow` | 3 messages, cap 2, collect mode, no clear | *Violation.* An overflow during a collected turn shifts the items the removal counts. |
| `Delivery` | one delivery left by an earlier process and one live; 2 starts, 1 crash, a drain, `MAX_RETRIES` 1 | Is a delivery ever lost; do replays exclude each other; do claims leak; does an acknowledgement survive a crash; is what was left behind tried? All as they should be. |
| `Tasks` | one agent, 3 tasks, the first with 2 steps and the others with 1, one file, 2 lives separated by a crash or an in-process restart | Is an end final, is at most one step uncounted for each runner that is no more, does every runnable task end or wait for subtasks? Yes (an end is final as long as there was no in-process restart). |
| `TasksParents` | 2 agents, 2 tasks, 2 lives | *Violation.* `aggregate.ts:21` has the parent re-queued when the last subtask ends; a crash between the end and the release leaves it blocked for ever. A result whose delivery throws does the same, and so does a subtask that ends before its parent was parked. |
| `Cron` | a repeating and a one-shot job, one service per life, 1 crash, 2 operations of the user, clock to 3 | Does a job run twice at a time, is a marker in the file always that of a run, is a slot that is owed ever moved away by listing, a tick, another job's result or a manual run? No, yes, no. |
| `CronReload` | one repeating job, a service and its replacement, 1 crash, 2 operations of the user (a manual run among them), clock to 2 | In what ways does a job that is gone come back, and is every slot that has come served? Only when, on a reload, a service whose memory is older than the removal stores that memory: in the rest of its start, in the reservation of a manual run, or for the user. Yes. |
| `Approvals` | one approval, timeout 3, grace 1, clock to 6, 3 invocations | Is everybody told the decision that was accepted, is an approval for one time used once and nothing executed without one, does every request end? Yes. |
| `Heartbeat` | 1 agent and wakes for everyone, interval and retry 2 ticks, 2 lives, 1 request besides the ticks, 1 change | Is a wake lost or weakened on its way, do batches pile up, do ticks go on for ever although lanes may always be busy? No, no, yes. |
| `HeartbeatOff` | 1 agent, 1 life, off and on once | *Violation.* `docs/cli/system.md:50` has `enable` turn heartbeats back on; if a tick came in between, none comes again. |

### Known divergences that no run shows

Found while modelling, kept here because the runs above are stated around them.

- *Two turns of a session after a restart.* `resetAllLanes` (`command-queue.ts:343`)
  forgets a session lane's slot while the inner command of the run that held it
  stays queued; in the next life that command and a new run of the session both
  start. `docs/concepts/queue.md:85` promises one. `OneRunPerSessionInALife` is
  therefore about one life.
- *A run refused by the drain.* A run queued in its session lane while the gateway
  drains is started by the end of another, and its second enqueue is refused,
  although the comment at `command-queue.ts:329` has queued work survive.
- *A cleared followup queue.* A drain loop that ends after a clear deletes the
  registry key (`drain.ts:180`), also when the key maps to a newer queue by then.
- *Best-effort replays.* A replay passes no `onError`, so a best-effort delivery
  that fails in part is acknowledged (`deliver.ts:535-537` tells of `onError`).
  `NothingLost` is about the others. A drain that read an entry before a recovery
  acknowledged it sends it again, and `failDelivery` may bring an acknowledged
  entry back; at-least-once allows both.
- *Two drivers of a task.* `claimNext` takes a running task for one left by a crash
  (`cognitive/tasks/runner.ts:73`); after an in-process restart the old runner may
  still drive it. `TerminalIsFinal` is about lives that a crash separates. Two such
  runners that are killed together lose two steps, where the comment at `runner.ts:184`
  says at most one; `OneStepLost` therefore grants one step to each runner that is no
  more. (It takes three lives to lose two; the run has two, the theorem any number.)
- *Interrupted one-shot jobs.* Start leaves them out of the catch-up and says they
  are not retried (`cron/service/ops.ts:120`); their slot stays in the past and
  their marker is cleared, so the first tick runs them.
- *Slots moved by start and add.* The recomputation at the end of start
  (`ops.ts:142`) and in add (`ops.ts:271`) moves past-due slots on that the
  catch-up or a tick was to run. `SlotsAreKept` names both as exceptions.
- *Forgotten cron markers.* Disabling and enabling a job, or replacing the service,
  clears the marker of a run in progress, and the job can be started again, whatever
  `ops.ts:591` says of ticks. `OneRunAtATime` excuses such jobs. A stopped service
  whose tick ends sets its timer again (`timer.ts:823`).
- *Removed cron jobs that come back.* A service keeps its memory across a reload of the
  configuration. A manual run that was queued before the reload (`ops.ts:720-724`) reserves
  its job in that memory and stores all of it (`ops.ts:585-593`), and so does the rest of a
  start that the reload overtook (`timer.ts:1062-1088`): a job removed through the new
  service in the meantime is in the file again. Conversely the first service's tick reloads
  the file and may delete a one-shot job that has run, after the new service has loaded it;
  the next operation of the user brings it back. `OnlyStaleMemoryRevives` says that
  there is no other way: no tick and no result of a run brings a job back.
- *A delivery given up without an attempt.* When the recovery's time budget ends, each
  entry that is left is counted as a failure (`delivery-queue-recovery.ts:289`), also one
  that another worker holds; enough of these and it is moved to failed untried.
  `LeftoversAreTried` takes such an entry for one that was dealt with.
- *A subtask nobody waits for.* A subtask made after the subtasks were listed
  (`aggregate.ts:37`) does not keep its parent blocked, a parent whose step reports the
  goal ends with its subtasks running (`runner.ts:216`), and a subtask made by another
  agent than the parent's neither parks nor releases it (`service.ts:104`, `aggregate.ts:32`).
- *Unheard decisions.* Without a route the request is answered with no decision
  although an approver may have decided during the delivery (`approval-shared.ts:173`);
  a wait after the grace period is told the same (`exec-approval-manager.ts:8`).
  The fallback of `docs/tools/exec-approvals.md:185-189` is refused by `node.invoke` on
  the first path, because only an approval ended by its timer passes
  (`node-invoke-system-run-approval.ts:272-277`).
- *Heartbeats.* The rest of a stopped runner's batch is refused after an in-process
  restart and gone (`NoWakeLost` takes a refused call for a call). The retry
  cooldown does not hold when an earlier normal timer is set already
  (`heartbeat-wake.ts:124`). A configuration update during a turn loses its advance.

Bounds and why they suffice. Two lanes are enough for one lane to act on another
(a pump touches one lane; operations on all lanes touch both); three commands give a
running one, a waiting one and a late arrival, so order and double starts show; one
restart separates two generations, and a completion of the old one in the new one.
Three runs with two of one session and a cron run make every pair of nestings meet.
Followup: cap 2 with 3 messages overflows; two queue objects are the most that
share a key's history after one clear. Delivery: deliveries share nothing but the
order in a worker's loop, so two show everything: one per role. Two starts and one
crash give both a fresh process and a second life of the same one.
`MAX_RETRIES` is 5 in the code; with 1 the limit is met after one failure, which
is the boundary that matters. Tasks: three are a parent with two siblings, or two
tasks one of which is split; two steps let a parent go on after it was parked and
released, or park and end in one step; one agent, because three tasks of two agents are
out of reach (beyond eleven million states): what two files add to the aggregation is in
`TasksParents`, and the theorems are about any agents; the second life meets what the first has left, on disk
after a crash, in memory too after a restart.
Cron: one slot per job within the clock and one after it, so a slot can be missed,
deferred, run and moved; the jobs run at once at start, concurrency, retries, backoff and stagger
are 1, the smallest values at which the second job or attempt is treated otherwise.
Approvals: the timeout leaves room for a decision before it and the grace period ends
within the clock; three invocations are the first, its repetition, and one more
after the deletion. Heartbeat: an interval of two ticks lets a tick, a retry and a
request be due in every order; the second life meets batches of the first.

Fairness. The event loop runs every continuation that is ready, so steps of the
code are weakly fair. That a task, a turn or a send *ends* is assumed too: turns
carry a timeout (`timeoutMs` of the run, `agents.defaults.timeoutSeconds`) and the
drain aborts what is left. A task's step ends by
its timer at the latest, the ticker starts passes for ever, and a gateway that is
down is started again. Cron: ticks, starts and manual runs go on, since a job has
a timeout; the clock, the user and crashes are free. Approvals: time passes, the
expiry timer fires and the handlers and the agent go on; an approver may never
come, and an invocation may be repeated or not. Heartbeats: time passes, timers
fire, a batch goes on; a lane is never assumed to be free, a wake never to be
requested, a server never to restart. `TasksEnd` is checked under fairness to the
runners together (a runner of a life that is over may then be slow for ever), the
violation `TasksParents` under fairness to each, so that its trace is no mere
starvation. Arrivals, reports, clears, resizes, crashes and restarts have no fairness.

## Proofs

`CommandLanes_proofs` proves, for every set of commands and lanes, every cap and
any number of restarts, from the assumption `LanesAssumption` alone:

- each invariant the run `CommandLanes` checks (`TypeCorrect`, `EntriesAreKept`,
  `SlotsAreAccurate`, `NoLaneIsStuck`, `WaitersWillBeTold`), and its two action
  properties (`CapIsKept`, `DrainedIsTrue`);
- `Implements`: every behaviour of `CommandLanes` is one of `LaneService` under
  the mapping of `ServiceSpec`.

The argument. None of the invariants is inductive alone. A pump shifts as many
entries as there are free slots, and fills exactly the free slots only if the
entries are distinct and hold no slot yet, so `WorkConserving` needs
`QueuesHoldTheWaiting` and `SlotsHeldByLiveTasks`. A reset bumps a generation and
must thereby disown *all* running tasks of the lane; that needs `NotAhead`, that no
task runs under a generation its lane has not reached, which the runs do not check
and the proof adds. Waiters need that a snapshot only names tasks that were started
(`SnapshotsLive`). The conjunction `Inv` is inductive; there is one lemma per
operation (`EnqueueStep`, `SettleStep`, ...), each resting on lemmas about the
operators of `LaneQueue`: how many entries a pump starts
(`StartCountBounds`), that it stays within the cap (`DrainLaneWithinCap`), that it
leaves no free slot before a waiting entry (`DrainLaneConserves`), what it does to
queue and slots (`DrainLaneShape`, `StartedCardinality`).

`FollowupQueue_proofs` proves, for any messages, routes, policies and caps and any number
of failures, clears and queue objects, from `FollowupAssumption`, the three invariants of
the run `Followup`: `TypeOK`, `NothingLostBelowCap` and `RunOnceUnlessFailed`. A turn's
messages stay at the head of the queue while it runs and are removed by *number* when it
has ended, from a queue that was appended to, shortened by the overflow policy or emptied
meanwhile. That nothing is run twice needs that the number covers all of them that are
left (`Batch`, with `Apart`: a message has one place), which holds under overflow too;
that nothing is lost needs that it covers no other, which holds only as long as nothing
was dropped or cleared (`Calm`; the run `FollowupOverflow` shows it fail otherwise). `Calm` also
says that there is one queue object then, so a `finally` block that deletes the registered
key deletes its own. `Moves` is what the chain `finally`, `scheduleFollowupDrain`, `finally` does to
loops and registry, `Arrival` what an enqueue does to the queue it finds or makes; one
lemma for each kind of step, and one lemma on `splice` (`SpliceShape`) under them. Preparing the proof
corrected the model in one place: a loop that has seen a mixed batch keeps that knowledge
over its turns (`forceIndividualCollect`), which `Loop` had forgotten.

`ExecApprovals_proofs` proves, for every timeout and grace period, any length of
time and any number of invocations, from `ApprovalAssumption`, the three
invariants of the run `Approvals`: `TypeCorrect`, `AnswersAlwaysAgree` and
`ExecutionsAreApproved`. The inductive invariant adds `Phases` (the agent is told
once, and by whom), `Deciding` (how promise, entry and what the approver was told hang
together; above all, that nobody decides after an answer was given) and
`Spending` (how many executions there have been, and that a consumed entry still
names its approver and so does not pass for one that has expired). One lemma per
action; the lemmas on `Entries` keep arithmetic away from records.

`HeartbeatWake_proofs` proves, for all agents, waits and intervals and any number of
runners and requests, from `HeartbeatAssumption`, the invariants `NoWakeLost`
(`NoWakeIsLost`) and `BatchesDoNotPile` (`OneBatchPerInterruption`). Neither is
inductive: a wake in a batch is only safe while the batch has not come to its target,
which `Kept` says of the batch that holds it; and that the number of batches stays
within the interruptions needs that, whenever `running` is `FALSE`, *every* batch in
progress is one that an interruption left behind, whichever batch's `finally` cleared
the flag (`Piling`). The same fact gives the next batch a free slot. One lemma per
action; `QueuedInv` serves all actions that queue a wake, `BatchesAlike` those that
change only what the invariant does not tell apart. `TypeOK` is proved on top of this, with the
bounds of the clocks and counters (`Bounded`), among them that an agent is never due more than
an interval ahead (`NextSlotBounds`, `NextTickBounds`).

`GatewayRuns_proofs` proves, for any finite set of runs, all sessions and global
lanes, every cap and any number of restarts, from `RunsAssumption`, the two invariants
of the run `GatewayRuns`, `TypeOK` and `OneRunPerSessionInALife`, and its action
property `DrainedMeansQuiet`. That a session is entered once is a fact about the
*outer* lane, while a turn runs in the inner one: the invariant ties the two (`Nested`:
a run has a place in a global lane only while it holds, or held in an earlier life, the
slot of its session lane) and keeps the queues and slots of every lane exact (`Core`:
`Shaped`, `Queues`, `Slots`, `Gens`, `Caps`). `Draining` says what the snapshot of the drain may name. A
step of the code pumps a session lane, and each command it starts pushes into a global
lane and pumps that: the proof follows `Pump` through these parts (`DrainStep`,
`PushStep`, `RefuseStep`, put together in `Pumps`), with `Core` stated of explicit lanes,
stages and generations so that it can be said of the states in between.

`DeliveryQueue_proofs` proves, for any deliveries, numbers of starts, crashes, drains and
retries, from `DeliveryAssumption`, `TypeOK`, `NothingLost`, `ReplaysExclusive`,
`ClaimsAreHeld` and `AckSurvivesCrash`. Besides the properties the inductive invariant says
which files a worker in a given phase may still find (`Hands`), what a failure in
between its read and its write may bring back (`Updating`), that a delivery no one has
written has left no trace (`NewOnes`), and what an acknowledged one and one in the failed
directory look like (`Acked`, `Buried`). In it a delivery is lost when it is neither on disk nor
settled, whoever may be sending it at that moment: a crash needs the stronger form.

`CognitiveTasks_proofs` proves, for any tasks, numbers of steps and lives, from
`TasksAssumption`, `TypeOK`, `OneStepLost` and `TerminalIsFinal`. The
invariant says that a runner belongs to a life that has begun (`LivesCounted`), that as
long as only crashes separate lives one runner drives at a time (`Alone`), what a task's
parent looks like (`Family`), which task a runner at a given place of its call stack may
hold (`Hands`) and that a blocked task has a step left to come back to or children
(`Blocked`). `OneStepLost` was first stated as one step per crash, and the proof failed at
the crash after an in-process restart: see the known divergences.

`CronService_proofs` proves, for any finite set of jobs, all schedules and results, every
clock, any number of services, crashes and requests, from `CronAssumption`, `TypeOK`,
`OneRunAtATime`, `MarkersAreHeld`, `SlotsAreKept` and `OnlyStaleMemoryRevives`. A job is reserved in one locked section,
executed outside the lock and its result applied in another, by three paths (tick,
catch-up, manual run), of which two apply it to the file and one to the service's memory;
so what must be carried along is how the three places agree. `Kept` says it of one job: as long
as no service has been replaced, a marker on the disk or in memory is that of a run, a run
that is not excused has both markers, and memory knows the same jobs, the same
switches and the same slots as the disk. The invariant adds what a service looks like
before and after it has loaded the file, and which batches are empty when (`Fits`), that
a run is alone unless it is excused (`Alone`), and that once a service has been replaced all
runs are (`Covered`). `Turns` is what a step may do to the records and the runs of one job; one
lemma per action shows that it does only that and that an owed slot stays or may move
(`SlotStays`), and `ServiceStep` draws the rest. The proof is that of the whole of `Next`, the
replacement of a service and the crash included. `RemovalsHold` goes through the same
sections once more and asks of each whether it stores a memory it did not read in that
section: the sections of a tick and the application of a result reload first
(`TickRevivesNothing`), the others store what they have.

Only model-checked: all liveness (`EveryRunEnds`, `WaitingRunsBelowCap`,
`LeftoversAreTried`, `TasksEnd`, `DueJobsAreServed`, `RequestsEnd`, `TicksGoOn`),
which is out of the prover's reach.

## Plan

1. Command queue, its abstract service, runs and restart, followup queue, delivery
   queue, proofs about the command queue. *Done.*
2. `CognitiveTasks`, `CronService`, `ExecApprovals`, `HeartbeatWake`, proofs about
   approvals and wakes. *Done*, except an abstract specification of a task's life cycle.
3. Proofs about `DeliveryQueue`, `CognitiveTasks`, `GatewayRuns`, `CronService` and
   `FollowupQueue`. *Done.*
4. `SystemEvents`, whose consumer the step prompts of tasks are; the subagent
   registry's announcements; the session actor queue of the ACP control plane.

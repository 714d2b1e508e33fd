---------------------------- MODULE CommandLanes ----------------------------
(***************************************************************************)
(* src/process/command-queue.ts: the lane-aware FIFO queue every agent run *)
(* of the gateway goes through.  One action is one call into the module or *)
(* one settling of a started task, each with all the synchronous work it   *)
(* does (pump, notification of waiters): JavaScript does not interleave    *)
(* anything with it.                                                       *)
(***************************************************************************)
EXTENDS LaneQueue

CONSTANTS
  Commands,       \* the commands callers may enqueue, each at most once
  Lanes,          \* the lanes, by normalised name
  Main,           \* CommandLane.Main
  Blank,          \* a lane name that is empty after trim()
  Waiters,        \* the calls of waitForActiveTasks, each made at most once
  MaxCap,         \* bound: the largest concurrency a caller asks for
  MaxGeneration   \* bound: how many in-process restarts are explored

ASSUME LanesAssumption ==
  /\ Main \in Lanes /\ Blank \notin Lanes
  /\ IsFiniteSet(Commands) /\ IsFiniteSet(Lanes)
  /\ MaxCap \in Nat /\ MaxGeneration \in Nat

VARIABLES
  gatewayDraining,    \* new commands are refused
  lanes,              \* lanes[l]: the LaneState record of lane l
  activeTaskWaiters,  \* the calls of waitForActiveTasks
  stage,              \* the life of each command, up to the settled promise
  laneOf,             \* the lane a command was enqueued in
  taskGeneration      \* the generation its task captured when it started

vars == <<gatewayDraining, lanes, activeTaskWaiters, stage, laneOf, taskGeneration>>

Settled == {"refused", "resolved", "rejected", "cleared"}
Stages == {"new", "queued", "running"} \cup Settled

WaiterStates == {"unused", "waiting", "drained", "timedOut"}

(* normalizeLane: a blank name is the main lane. *)
NormalizeLane(name) == IF name = Blank THEN Main ELSE name

Init ==
  /\ gatewayDraining = FALSE
  /\ lanes = [l \in Lanes |-> NewLane]
  /\ activeTaskWaiters = [w \in Waiters |-> [status |-> "unused", activeTaskIds |-> {}]]
  /\ stage = [c \in Commands |-> "new"]
  /\ laneOf = [c \in Commands |-> Main]
  /\ taskGeneration = [c \in Commands |-> 0]

(* Drain the lanes of S, starting from the records ls and the stages st: *)
(* started commands run and capture their lane's generation.             *)
Drain(S, ls, st) ==
  LET started == UNION {Started(ls[l]) : l \in S}
  IN /\ lanes' = [l \in Lanes |-> IF l \in S THEN DrainLane(ls[l]) ELSE ls[l]]
     /\ stage' = [c \in Commands |-> IF c \in started THEN "running" ELSE st[c]]
     /\ taskGeneration' = [c \in Commands |->
          IF c \in started
          THEN ls[CHOOSE l \in S : c \in Started(ls[l])].generation
          ELSE taskGeneration[c]]

(* notifyActiveTaskWaiters for the waiters ws, with the lanes as they are  *)
(* in ls: a waiter none of whose tasks is left in a slot is answered.      *)
Notified(ws, ls) ==
  [w \in Waiters |->
    IF ws[w].status = "waiting" /\ ~ HasPendingActiveTasks(ws[w].activeTaskIds, ls)
    THEN [ws[w] EXCEPT !.status = "drained"]
    ELSE ws[w]]

-----------------------------------------------------------------------------
(* The operations of the module. *)

EnqueueCommandInLane(c, name) ==
  LET lane == NormalizeLane(name)
  IN /\ stage[c] = "new"
     /\ ~ gatewayDraining
     /\ laneOf' = [laneOf EXCEPT ![c] = lane]
     /\ Drain({lane}, [lanes EXCEPT ![lane] = Pushed(@, c)],
              [stage EXCEPT ![c] = "queued"])
     /\ UNCHANGED <<gatewayDraining, activeTaskWaiters>>

(* enqueueCommandInLane while the gateway drains: GatewayDrainingError. *)
RefuseCommand(c) ==
  /\ stage[c] = "new"
  /\ gatewayDraining
  /\ stage' = [stage EXCEPT ![c] = "refused"]
  /\ UNCHANGED <<gatewayDraining, lanes, activeTaskWaiters, laneOf, taskGeneration>>

(* A started task settles, well or badly.  Only a task of the lane's       *)
(* present generation frees a slot, tells the waiters and pumps; the       *)
(* promise is settled in any case.                                         *)
SettleTask(c, outcome) ==
  LET lane == laneOf[c]
      freed == [lanes EXCEPT ![lane] = Completed(@, c)]
      settled == [stage EXCEPT ![c] = outcome]
  IN /\ stage[c] = "running"
     /\ IF IsCurrent(lanes[lane], taskGeneration[c])
        THEN /\ activeTaskWaiters' = Notified(activeTaskWaiters, freed)
             /\ Drain({lane}, freed, settled)
        ELSE /\ stage' = settled
             /\ UNCHANGED <<lanes, activeTaskWaiters, taskGeneration>>
     /\ UNCHANGED <<gatewayDraining, laneOf>>

(* Fault: a raised cap is stored without draining the lane. *)
FaultResizeWithoutDrain(name, n) ==
  LET lane == NormalizeLane(name)
  IN /\ lanes' = [lanes EXCEPT ![lane] = Resized(@, n)]
     /\ UNCHANGED <<gatewayDraining, activeTaskWaiters, stage, laneOf, taskGeneration>>

SetCommandLaneConcurrency(name, n) ==
  LET lane == NormalizeLane(name)
  IN /\ Drain({lane}, [lanes EXCEPT ![lane] = Resized(@, n)], stage)
     /\ UNCHANGED <<gatewayDraining, activeTaskWaiters, laneOf>>

(* Every waiting entry is rejected with CommandLaneClearedError. *)
ClearCommandLane(name) ==
  LET lane == NormalizeLane(name)
      removed == {lanes[lane].queue[i] : i \in DOMAIN lanes[lane].queue}
  IN /\ lanes' = [lanes EXCEPT ![lane] = Cleared(@)]
     /\ stage' = [c \in Commands |-> IF c \in removed THEN "cleared" ELSE stage[c]]
     /\ UNCHANGED <<gatewayDraining, activeTaskWaiters, laneOf, taskGeneration>>

MarkGatewayDraining ==
  /\ gatewayDraining' = TRUE
  /\ UNCHANGED <<lanes, activeTaskWaiters, stage, laneOf, taskGeneration>>

(* Fault: the reset does not tell the waiters whose tasks it forgot. *)
FaultResetWithoutNotify ==
  /\ \A l \in Lanes : lanes[l].generation < MaxGeneration
  /\ gatewayDraining' = FALSE
  /\ Drain({l \in Lanes : lanes[l].queue # <<>>}, [l \in Lanes |-> Reset(lanes[l])], stage)
  /\ UNCHANGED <<activeTaskWaiters, laneOf>>

(* resetAllLanes: all lanes are reset first, then those with preserved     *)
(* entries are drained, then the waiters are told.                         *)
ResetAllLanes ==
  LET reset == [l \in Lanes |-> Reset(lanes[l])]
      lanesToDrain == {l \in Lanes : lanes[l].queue # <<>>}
  IN /\ \A l \in Lanes : lanes[l].generation < MaxGeneration
     /\ gatewayDraining' = FALSE
     /\ Drain(lanesToDrain, reset, stage)
     /\ activeTaskWaiters' = Notified(activeTaskWaiters, lanes')
     /\ UNCHANGED laneOf

(* waitForActiveTasks takes a snapshot of the tasks that are executing; it *)
(* answers at once when there are none or when there is no time to wait.   *)
WaitForActiveTasks(w, timeoutMs) ==
  LET activeAtStart == AllActive(lanes)
      status == IF activeAtStart = {} THEN "drained"
                ELSE IF timeoutMs <= 0 THEN "timedOut" ELSE "waiting"
  IN /\ activeTaskWaiters[w].status = "unused"
     /\ activeTaskWaiters' =
          Notified([activeTaskWaiters EXCEPT
                      ![w] = [status |-> status, activeTaskIds |-> activeAtStart]],
                   lanes)
     /\ UNCHANGED <<gatewayDraining, lanes, stage, laneOf, taskGeneration>>

(* The waiter's timer fires. *)
WaiterTimeout(w) ==
  /\ activeTaskWaiters[w].status = "waiting"
  /\ activeTaskWaiters' = [activeTaskWaiters EXCEPT ![w].status = "timedOut"]
  /\ UNCHANGED <<gatewayDraining, lanes, stage, laneOf, taskGeneration>>

-----------------------------------------------------------------------------
Next ==
  \/ \E c \in Commands :
       \/ \E name \in Lanes \cup {Blank} : EnqueueCommandInLane(c, name)
       \/ RefuseCommand(c)
       \/ \E outcome \in {"resolved", "rejected"} : SettleTask(c, outcome)
  \/ \E name \in Lanes \cup {Blank} :
       \/ \E n \in 0 .. MaxCap : SetCommandLaneConcurrency(name, n)
       \/ ClearCommandLane(name)
  \/ MarkGatewayDraining
  \/ ResetAllLanes
  \/ \E w \in Waiters :
       \/ \E timeoutMs \in {0, 1} : WaitForActiveTasks(w, timeoutMs)
       \/ WaiterTimeout(w)

Spec == Init /\ [][Next]_vars

-----------------------------------------------------------------------------
(* Properties. *)

TypeOK ==
  /\ gatewayDraining \in BOOLEAN
  /\ lanes \in [Lanes -> LaneState(Commands)]
  /\ activeTaskWaiters \in [Waiters -> [status : WaiterStates,
                                       activeTaskIds : SUBSET Commands]]
  /\ stage \in [Commands -> Stages]
  /\ laneOf \in [Commands -> Lanes]
  /\ taskGeneration \in [Commands -> Nat]

(* A command waits exactly when it stands in a queue, and then it stands   *)
(* once, in the queue of its own lane: an accepted entry is neither lost   *)
(* nor doubled by pumps, clears and restarts.                              *)
QueuesHoldTheWaiting ==
  /\ \A l \in Lanes : \A i \in DOMAIN lanes[l].queue :
       /\ stage[lanes[l].queue[i]] = "queued"
       /\ laneOf[lanes[l].queue[i]] = l
       /\ \A j \in DOMAIN lanes[l].queue :
            lanes[l].queue[i] = lanes[l].queue[j] => i = j
  /\ \A c \in Commands : stage[c] = "queued" =>
       \E i \in DOMAIN lanes[laneOf[c]].queue : lanes[laneOf[c]].queue[i] = c

(* The slots of a lane are held by the running tasks of the lane's present *)
(* generation and by nothing else: a restart strands no slot, and the late *)
(* end of a task from before it gives none back.                           *)
SlotsHeldByLiveTasks ==
  \A l \in Lanes :
    lanes[l].activeTaskIds = {c \in Commands : /\ stage[c] = "running"
                                              /\ laneOf[c] = l
                                              /\ taskGeneration[c] = lanes[l].generation}

(* No lane is stuck: entries wait only behind a lane with no free slot.    *)
(* Every operation that makes room or adds work pumps before it returns.   *)
WorkConserving ==
  \A l \in Lanes : lanes[l].queue # <<>> => FreeSlots(lanes[l]) = 0

(* No notification is missed: whoever still waits in waitForActiveTasks    *)
(* waits for a task that holds a slot, and so will be told.                *)
WaitersWaitForATask ==
  \A w \in Waiters : activeTaskWaiters[w].status = "waiting" =>
    HasPendingActiveTasks(activeTaskWaiters[w].activeTaskIds, lanes)

(* A step that fills slots of a lane leaves it within its cap, whatever    *)
(* the cap was when the running tasks were started.                        *)
StartsWithinCap ==
  [][\A l \in Lanes :
       lanes'[l].activeTaskIds \ lanes[l].activeTaskIds # {} =>
         Cardinality(lanes'[l].activeTaskIds) <= lanes'[l].maxConcurrent]_vars

(* "drained: true" is said only when the tasks that were executing at the  *)
(* call have ended, unless the lanes were reset in between.                *)
DrainedMeansEnded ==
  [][\A w \in Waiters :
       /\ activeTaskWaiters'[w].status = "drained"
       /\ activeTaskWaiters[w].status # "drained"
       /\ \A l \in Lanes : lanes'[l].generation = lanes[l].generation
       => \A c \in activeTaskWaiters'[w].activeTaskIds : stage'[c] \in Settled]_vars

(* The queue is a LaneService: first in first out in each lane, at most    *)
(* one start per command, and no accepted command disappears.              *)
Service == INSTANCE LaneService WITH pending <- [l \in Lanes |-> lanes[l].queue]
ServiceSpec == Service!Spec
=============================================================================

------------------------------ MODULE LaneQueue ------------------------------
(***************************************************************************)
(* One lane of the in-process command queue (src/process/command-queue.ts) *)
(* as a value: the record LaneState and the synchronous functions that     *)
(* change it.  JavaScript runs each of them to its end before anything     *)
(* else happens, so each is an operator from lane records to lane records. *)
(*                                                                         *)
(* An entry of the queue, the task it starts and the id the task gets      *)
(* (nextTaskId) are one value here: an entry is started at most once and   *)
(* task ids are never reused.  The `draining' flag of LaneState is raised  *)
(* and lowered inside one call of drainLane and is not part of the record. *)
(***************************************************************************)
EXTENDS Naturals, Sequences, FiniteSets

(* What a lane record may be, for entries taken from the set C. *)
LaneState(C) == [queue         : Seq(C),
                 activeTaskIds : SUBSET C,
                 maxConcurrent : Nat \ {0},
                 generation    : Nat]

(* getLaneState creates a lane on first use: idle, with one slot. *)
NewLane == [queue |-> <<>>, activeTaskIds |-> {}, maxConcurrent |-> 1,
            generation |-> 0]

(* Fault: the pump compares with <= instead of <. *)
FaultFreeSlotsOffByOne(lane) == (lane.maxConcurrent + 1) - Cardinality(lane.activeTaskIds)

(* The slots the pump may still fill; none when the cap has been lowered   *)
(* below the number of tasks already running.                              *)
FreeSlots(lane) ==
  LET busy == Cardinality(lane.activeTaskIds)
  IN  IF busy < lane.maxConcurrent THEN lane.maxConcurrent - busy ELSE 0

(* How many entries one run of the pump shifts off the head of the queue.  *)
StartCount(lane) ==
  IF Len(lane.queue) < FreeSlots(lane) THEN Len(lane.queue) ELSE FreeSlots(lane)

Started(lane) == {lane.queue[i] : i \in 1 .. StartCount(lane)}

(* Fault: pop() where the pump has shift(). *)
FaultDrainFromTail(lane) ==
  LET n == StartCount(lane)
      kept == Len(lane.queue) - n
  IN  [lane EXCEPT !.queue = SubSeq(@, 1, kept),
                   !.activeTaskIds = @ \cup {lane.queue[kept + i] : i \in 1 .. n}]

(* drainLane / pump: start entries from the head while there is room. *)
DrainLane(lane) ==
  [lane EXCEPT !.queue = SubSeq(@, StartCount(lane) + 1, Len(@)),
               !.activeTaskIds = @ \cup Started(lane)]

(* The push of enqueueCommandInLane; the caller drains the lane next. *)
Pushed(lane, c) == [lane EXCEPT !.queue = Append(@, c)]

(* completeTask: the slot of a task of the present generation is given     *)
(* back, a task of an earlier generation changes nothing.                  *)
IsCurrent(lane, taskGeneration) == taskGeneration = lane.generation
Completed(lane, c) == [lane EXCEPT !.activeTaskIds = @ \ {c}]

(* Fault: the lower bound of one slot is forgotten. *)
FaultResizedToZero(lane, n) == [lane EXCEPT !.maxConcurrent = n]

(* setCommandLaneConcurrency stores at least one slot.  Caps are whole     *)
(* numbers here: the rounding of others, and NaN, are left out.            *)
Resized(lane, n) == [lane EXCEPT !.maxConcurrent = IF n < 1 THEN 1 ELSE n]

(* clearCommandLane splices every waiting entry out of the queue. *)
Cleared(lane) == [lane EXCEPT !.queue = <<>>]

(* Fault: a restart forgets the entries that were waiting. *)
FaultResetDropsQueue(lane) ==
  [lane EXCEPT !.queue = <<>>, !.activeTaskIds = {}, !.generation = @ + 1]

(* Fault: a restart leaves the slots of interrupted tasks taken. *)
FaultResetKeepsSlots(lane) == [lane EXCEPT !.generation = @ + 1]

(* One lane's part of resetAllLanes: slots forgotten, queue preserved. *)
Reset(lane) == [lane EXCEPT !.activeTaskIds = {}, !.generation = @ + 1]

(* Fault: pending only as long as all of the tasks are. *)
FaultAllPending(ids, lanes) == \E l \in DOMAIN lanes : ids \subseteq lanes[l].activeTaskIds

(* hasPendingActiveTasks: is some task of ids still in a slot of a lane? *)
HasPendingActiveTasks(ids, lanes) ==
  \E l \in DOMAIN lanes : lanes[l].activeTaskIds \cap ids # {}

(* getActiveTaskCount and the snapshot waitForActiveTasks takes. *)
AllActive(lanes) == UNION {lanes[l].activeTaskIds : l \in DOMAIN lanes}
=============================================================================

----------------------------- MODULE GatewayRuns -----------------------------
(***************************************************************************)
(* Agent runs on top of the command queue, across in-process restarts.     *)
(*                                                                         *)
(*  - runEmbeddedPiAgent (src/agents/pi-embedded-runner/run.ts) queues a   *)
(*    run twice: in the lane of its session, and, from inside that task,   *)
(*    in a global lane.  A cron job (src/cron/service/ops.ts) holds a slot *)
(*    of the cron lane around both.                                        *)
(*  - The restart loop (src/cli/gateway-cli/run-loop.ts) refuses new work, *)
(*    waits for the work in flight, closes the server, and resets every    *)
(*    lane before it starts the server again in the same process.          *)
(*                                                                         *)
(* An entry <<r, i>> is level i of run r: the command that waits in, and   *)
(* then holds a slot of, the i-th lane on the run's way.  The last level   *)
(* is the agent turn itself, the one before it the session's slot.         *)
(***************************************************************************)
EXTENDS LaneQueue, SequencesExt

CONSTANTS
  Runs,         \* agent runs, each submitted at most once
  Sessions,     \* session lane names ("session:<key>")
  CronRuns,     \* the runs dispatched by a cron job
  SessionOf,    \* SessionOf[r]: the session lane of run r
  MainCap,      \* agents.defaults.maxConcurrent
  MaxRestarts   \* bound: how many in-process restarts are explored

ASSUME RunsAssumption ==
  /\ IsFiniteSet(Runs) /\ CronRuns \subseteq Runs
  /\ SessionOf \in [Runs -> Sessions]
  /\ Sessions \cap {"main", "cron", "nested"} = {}
  /\ MainCap \in Nat \ {0} /\ MaxRestarts \in Nat

VARIABLES
  lanes,            \* the lane records
  gatewayDraining,  \* the command queue refuses new commands
  stage,            \* stage[e]: the life of each entry
  generationOf,     \* the lane generation an entry's task started under
  registered,       \* the runs that have called setActiveEmbeddedRun
  embedded,         \* ACTIVE_EMBEDDED_RUNS: the run registered for a session
  phase,            \* where the restart loop is
  drain,            \* what the loop waits for while it drains
  verdict           \* how the last drain ended

loopVars == <<gatewayDraining, phase, drain, verdict>>
laneVars == <<lanes, stage, generationOf>>
runVars  == <<registered, embedded>>
vars     == <<loopVars, laneVars, runVars>>

NoRun == "none"

(* Fault: a cron job's run queues in the cron lane itself. *)
FaultLaneKept(lane) == lane

(* A cron job holds its lane's slot while its run is queued: the run must  *)
(* not queue behind it.                                                    *)
ResolveGlobalLane(lane) == IF lane = "cron" THEN "nested" ELSE lane

(* The lanes a run goes through, in order. *)
Path(r) == IF r \in CronRuns
           THEN <<"cron", SessionOf[r], ResolveGlobalLane("cron")>>
           ELSE <<SessionOf[r], ResolveGlobalLane("main")>>

TurnLevel(r) == Len(Path(r))
SessionLevel(r) == TurnLevel(r) - 1

Lanes == Sessions \cup {"main", "cron", "nested"}
Entries == UNION {{r} \X DOMAIN Path(r) : r \in Runs}
LaneOf(e) == Path(e[1])[e[2]]
Turn(r) == <<r, TurnLevel(r)>>
SessionEntry(r) == <<r, SessionLevel(r)>>

Over == {"refused", "cleared", "ended"}
NoDrain == [tasks |-> {}, tasksDrained |-> TRUE, runsDrained |-> TRUE]

Init ==
  /\ lanes = [l \in Lanes |-> IF l = "main" THEN Resized(NewLane, MainCap) ELSE NewLane]
  /\ gatewayDraining = FALSE
  /\ stage = [e \in Entries |-> "idle"]
  /\ generationOf = [e \in Entries |-> 0]
  /\ registered = {}
  /\ embedded = [s \in Sessions |-> NoRun]
  /\ phase = "serving"
  /\ drain = NoDrain
  /\ verdict = "none"

(* The agent turn of r is executing. *)
Executing(r) == stage[Turn(r)] = "running"

-----------------------------------------------------------------------------
(* Drain the lanes of S from the records ls and the stages st.  A session  *)
(* task that starts queues its run in the global lane before the pump goes *)
(* on, or is refused there; lanes are visited in an arbitrary order.       *)
Pump(draining, S, ls, st) ==
  LET first  == UNION {Started(ls[l]) : l \in S}
      ls1    == [l \in Lanes |-> IF l \in S THEN DrainLane(ls[l]) ELSE ls[l]]
      inner  == {Turn(e[1]) : e \in {f \in first : f[2] = SessionLevel(f[1])}}
      G      == IF draining THEN {} ELSE {LaneOf(e) : e \in inner}
      orders == [l \in G |-> SetToSeqs({e \in inner : LaneOf(e) = l})]
  IN \E order \in [G -> UNION {orders[l] : l \in G}] :
       LET ls2 == [l \in Lanes |->
                    IF l \in G THEN [ls1[l] EXCEPT !.queue = @ \o order[l]] ELSE ls1[l]]
           second == UNION {Started(ls2[l]) : l \in G}
       IN /\ \A l \in G : order[l] \in orders[l]
          /\ lanes' = [l \in Lanes |-> IF l \in G THEN DrainLane(ls2[l]) ELSE ls2[l]]
          /\ stage' = [e \in Entries |->
               CASE e \in first \cup second -> "running"
                 [] e \in inner \ second    -> IF draining THEN "refused" ELSE "queued"
                 [] OTHER                   -> st[e]]
          /\ generationOf' = [e \in Entries |->
               IF e \in first \cup second THEN ls[LaneOf(e)].generation
               ELSE generationOf[e]]

(* enqueueCommandInLane for entry e. *)
Enqueue(e) ==
  IF gatewayDraining
  THEN /\ stage' = [stage EXCEPT ![e] = "refused"]
       /\ UNCHANGED <<lanes, generationOf>>
  ELSE Pump(FALSE, {LaneOf(e)}, [lanes EXCEPT ![LaneOf(e)] = Pushed(@, e)],
            [stage EXCEPT ![e] = "queued"])

(* The task of entry e settles: completeTask, and a pump if it was current. *)
End(e) ==
  LET l == LaneOf(e)
      ended == [stage EXCEPT ![e] = "ended"]
  IN IF IsCurrent(lanes[l], generationOf[e])
     THEN Pump(gatewayDraining, {l}, [lanes EXCEPT ![l] = Completed(@, e)], ended)
     ELSE stage' = ended /\ UNCHANGED <<lanes, generationOf>>

-----------------------------------------------------------------------------
(* Agent runs. *)

(* A reply or a cron job is submitted to the first lane of its way. *)
Submit(r) ==
  /\ stage[<<r, 1>>] = "idle"
  /\ Enqueue(<<r, 1>>)
  /\ UNCHANGED <<loopVars, runVars>>

(* The cron job calls the agent run, some time after it got its slot. *)
CronDispatch(r) ==
  /\ r \in CronRuns
  /\ stage[<<r, 1>>] = "running"
  /\ stage[SessionEntry(r)] = "idle"
  /\ Enqueue(SessionEntry(r))
  /\ UNCHANGED <<loopVars, runVars>>

(* The cron job ends before the run it called, or without one: it is not   *)
(* to be run any more when it gets its slot, or its timeout aborts it and  *)
(* leaves the run to end in its own time.                                  *)
CronEnds(r) ==
  /\ r \in CronRuns
  /\ stage[<<r, 1>>] = "running"
  /\ End(<<r, 1>>)
  /\ UNCHANGED <<loopVars, runVars>>

(* setActiveEmbeddedRun, once the turn has been set up. *)
Register(r) ==
  /\ Executing(r)
  /\ r \notin registered
  /\ registered' = registered \cup {r}
  /\ embedded' = [embedded EXCEPT ![SessionOf[r]] = r]
  /\ UNCHANGED <<loopVars, laneVars>>

(* The turn ends, by itself, by its timeout or because it was aborted;     *)
(* clearActiveEmbeddedRun forgets it unless another run has replaced it.   *)
FinishTurn(r) ==
  /\ Executing(r)
  /\ End(Turn(r))
  /\ embedded' = [s \in Sessions |-> IF embedded[s] = r THEN NoRun ELSE embedded[s]]
  /\ UNCHANGED <<loopVars, registered>>

(* Fault: the outer task does not await the command it queued. *)
FaultOuterNotAwaiting(r) ==
  /\ \E i \in 1 .. SessionLevel(r) :
       /\ stage[<<r, i>>] = "running"
       /\ stage[<<r, i + 1>>] # "idle"
       /\ End(<<r, i>>)
  /\ UNCHANGED <<loopVars, runVars>>

(* An outer task ends when the command it queued has been settled. *)
FinishOuter(r) ==
  /\ \E i \in 1 .. SessionLevel(r) :
       /\ stage[<<r, i>>] = "running"
       /\ stage[<<r, i + 1>>] \in Over
       /\ End(<<r, i>>)
  /\ UNCHANGED <<loopVars, runVars>>

(* Queue mode "interrupt": the waiting runs of the session are rejected    *)
(* and the active one is aborted (it ends by FinishTurn, in its own time). *)
Interrupt(s) ==
  LET removed == {lanes[s].queue[i] : i \in DOMAIN lanes[s].queue}
  IN /\ removed # {}
     /\ lanes' = [lanes EXCEPT ![s] = Cleared(@)]
     /\ stage' = [e \in Entries |-> IF e \in removed THEN "cleared" ELSE stage[e]]
     /\ UNCHANGED <<loopVars, generationOf, runVars>>

-----------------------------------------------------------------------------
(* The restart loop. *)

(* What getActiveEmbeddedRunCount counts, but for the replies that run in  *)
(* other backends, which have a registry of their own.                     *)
ActiveRuns == {s \in Sessions : embedded[s] # NoRun}
Restarts == lanes["main"].generation

(* Fault: the loop takes the registered sessions for the tasks to wait for. *)
FaultSnapshotOfSessions ==
  /\ phase = "serving"
  /\ Restarts < MaxRestarts
  /\ gatewayDraining' = TRUE
  /\ phase' = "draining"
  /\ drain' = [tasks |-> ActiveRuns, tasksDrained |-> FALSE, runsDrained |-> ActiveRuns = {}]
  /\ verdict' = "none"
  /\ UNCHANGED <<laneVars, runVars>>

(* Fault: the loop waits for the work in flight but goes on accepting more. *)
FaultDrainWithoutRefusal ==
  /\ phase = "serving"
  /\ Restarts < MaxRestarts
  /\ phase' = "draining"
  /\ drain' = [tasks |-> AllActive(lanes), tasksDrained |-> AllActive(lanes) = {},
               runsDrained |-> ActiveRuns = {}]
  /\ verdict' = "none"
  /\ UNCHANGED <<laneVars, runVars, gatewayDraining>>

(* request("restart"): new work is refused from here on.  With nothing in  *)
(* flight the loop goes straight to closing the server.                    *)
RequestRestart ==
  /\ phase = "serving"
  /\ Restarts < MaxRestarts
  /\ gatewayDraining' = TRUE
  /\ IF AllActive(lanes) # {} \/ ActiveRuns # {}
     THEN /\ phase' = "draining"
          /\ drain' = [tasks |-> AllActive(lanes),
                       tasksDrained |-> AllActive(lanes) = {},
                       runsDrained |-> ActiveRuns = {}]
     ELSE phase' = "closing" /\ UNCHANGED drain
  /\ verdict' = "none"
  /\ UNCHANGED <<laneVars, runVars>>

(* waitForActiveTasks answers: no task of the snapshot holds a slot. *)
TasksDrained ==
  /\ phase = "draining"
  /\ ~ drain.tasksDrained
  /\ ~ HasPendingActiveTasks(drain.tasks, lanes)
  /\ drain' = [drain EXCEPT !.tasksDrained = TRUE]
  /\ UNCHANGED <<laneVars, runVars, gatewayDraining, phase, verdict>>

(* waitForActiveEmbeddedRuns polls and finds no registered run. *)
RunsDrained ==
  /\ phase = "draining"
  /\ ~ drain.runsDrained
  /\ ActiveRuns = {}
  /\ drain' = [drain EXCEPT !.runsDrained = TRUE]
  /\ UNCHANGED <<laneVars, runVars, gatewayDraining, phase, verdict>>

(* Both waits are over ("all active work drained"), or time is up. *)
DrainOver ==
  /\ phase = "draining"
  /\ verdict' = IF drain.tasksDrained /\ drain.runsDrained THEN "drained" ELSE "timedOut"
  /\ phase' = "closing"
  /\ UNCHANGED <<laneVars, runVars, gatewayDraining, drain>>

(* The server is closed, the loop's next iteration resets all lanes and    *)
(* starts the server again.                                                *)
RestartIteration ==
  /\ phase = "closing"
  /\ phase' = "serving"
  /\ gatewayDraining' = FALSE
  /\ drain' = NoDrain
  /\ Pump(FALSE, {l \in Lanes : lanes[l].queue # <<>>},
          [l \in Lanes |-> Reset(lanes[l])], stage)
  /\ UNCHANGED <<runVars, verdict>>

Next ==
  \/ \E r \in Runs : \/ Submit(r) \/ CronDispatch(r) \/ CronEnds(r) \/ Register(r)
                     \/ FinishTurn(r) \/ FinishOuter(r)
  \/ \E s \in Sessions : Interrupt(s)
  \/ RequestRestart \/ TasksDrained \/ RunsDrained \/ DrainOver \/ RestartIteration

Spec == Init /\ [][Next]_vars

(* Turns run under a timeout, promise reactions are never dropped, a cron  *)
(* job calls its run, and the restart loop waits and closes under timers.  *)
Fairness ==
  /\ \A r \in Runs : /\ WF_vars(CronDispatch(r))
                     /\ WF_vars(FinishTurn(r))
                     /\ WF_vars(FinishOuter(r))
  /\ WF_vars(DrainOver)
  /\ WF_vars(RestartIteration)

FairSpec == Spec /\ Fairness

-----------------------------------------------------------------------------
(* Properties. *)

TypeOK ==
  /\ lanes \in [Lanes -> LaneState(Entries)]
  /\ gatewayDraining \in BOOLEAN
  /\ stage \in [Entries -> {"idle", "queued", "running"} \cup Over]
  /\ generationOf \in [Entries -> Nat]
  /\ registered \subseteq Runs
  /\ embedded \in [Sessions -> Runs \cup {NoRun}]
  /\ phase \in {"serving", "draining", "closing"}
  /\ drain \in [tasks : SUBSET Entries, tasksDrained : BOOLEAN, runsDrained : BOOLEAN]
  /\ verdict \in {"none", "drained", "timedOut"}

Current(e) == generationOf[e] = lanes[LaneOf(e)].generation

(* The session slot of r was taken since the last restart. *)
AdmittedInThisLife(r) ==
  stage[SessionEntry(r)] \in {"running", "ended"} /\ Current(SessionEntry(r))

(* Within one life of the gateway the session lane keeps a session's runs  *)
(* apart: of the runs whose session slot was taken since the last restart, *)
(* at most one executes its turn.                                          *)
OneRunPerSessionInALife ==
  \A r, q \in Runs :
    /\ r # q /\ SessionOf[r] = SessionOf[q]
    /\ AdmittedInThisLife(r) /\ AdmittedInThisLife(q)
    => ~ (Executing(r) /\ Executing(q))

(* When the restart loop logs "all active work drained", no turn that was  *)
(* admitted in this life is still executing when the server is closed,     *)
(* although queued commands go on being started while the gateway drains.  *)
DrainedMeansQuiet ==
  [][verdict' = "drained" /\ verdict # "drained" =>
       \A r \in Runs : ~ (Executing(r) /\ AdmittedInThisLife(r))]_vars

(* Every command of every run is over in the end: it ends, is refused or   *)
(* cleared.  In particular the nesting of cron, session and global lanes   *)
(* cannot make runs wait for each other for ever, no restart strands one,  *)
(* and a cron job that gives up on its run leaves none behind.             *)
EveryRunEnds ==
  \A e \in Entries : stage[e] \in {"queued", "running"} ~> stage[e] \in Over
=============================================================================

----------------------------- MODULE HeartbeatWake -----------------------------
(***************************************************************************)
(* Heartbeats: the wake layer that coalesces requests for a heartbeat and  *)
(* retries them (src/infra/heartbeat-wake.ts), and the runner that it      *)
(* calls, which keeps the agents' schedules and ticks                      *)
(* (startHeartbeatRunner, src/infra/heartbeat-runner.ts).                  *)
(*                                                                         *)
(* The wake layer is module state that outlives an in-process restart;     *)
(* the runner is made anew by it.  A batch of wakes is awaited one wake    *)
(* after the other, and a restart may come between any two of them.        *)
(*                                                                         *)
(* Time is relative: a timer or a due date is the number of ticks left,    *)
(* and a timer whose ticks are over may fire late.  So behaviours do not   *)
(* end at a bound of the clock.                                            *)
(*                                                                         *)
(* Left out: what a heartbeat does (runHeartbeatOnce is a turn with an     *)
(* outcome), its session keys, changes of an agent's interval, the order   *)
(* of the wakes in a batch and of the agents in a run (any), and the       *)
(* runner's second look at an agent's due date when a wake for everyone    *)
(* reaches it: which agents are due is settled as the wake is taken up.    *)
(***************************************************************************)
EXTENDS Integers, FiniteSets

CONSTANTS
  Agents,     \* the agents that may have a heartbeat
  Reasons,    \* why a wake is requested: "other", "insight", "action"
  Coalesce,   \* DEFAULT_COALESCE_MS, in ticks
  Delays,     \* the coalesceMs that callers ask for, in ticks
  Retry,      \* DEFAULT_RETRY_MS, in ticks
  Interval,   \* the agents' intervalMs, in ticks; their phase is 0
  MaxTurn,    \* bound: ticks that one turn may take
  MaxLives,   \* bound: runners, one after the other
  MaxRequests,  \* bound: wakes requested
  MaxChanges  \* bound: changes of the configuration, and of enabled

ASSUME HeartbeatAssumption ==
  /\ IsFiniteSet(Agents) /\ Agents \cap {"everyone", "nobody"} = {}
  /\ Reasons \subseteq {"other", "insight", "action"}
  /\ Delays \subseteq Nat
  /\ {Coalesce, Retry, MaxTurn, MaxRequests, MaxChanges} \subseteq Nat
  /\ {Interval, MaxLives} \subseteq Nat \ {0}

VARIABLES
  (* the wake layer *)
  pendingWakes,  \* the reason of the pending wake for each target
  timer,         \* its timer
  running,       \* a batch is being awaited, as the layer believes
  scheduled,     \* the timer has fired while running
  batches,       \* the timer callbacks in progress
  enabled,       \* heartbeatsEnabled
  (* the runner whose handler is registered *)
  runner,        \* which one, 0 for none
  agents,        \* its agents
  dueIn,         \* ticks until an agent's nextDueMs
  ticker,        \* ticks left on its own timer, Off when it is not set
  (* history, bounds *)
  clock,         \* the time, modulo Interval
  lives,         \* runners so far
  interrupted,   \* restarts that found a batch in progress
  wanted,        \* the highest priority asked for each target that no call has met since
  requests, changes

layer == <<pendingWakes, timer, running, scheduled, batches>>
schedule == <<agents, dueIn, ticker>>
bounds == <<lives, interrupted, requests, changes>>
vars == <<layer, enabled, runner, schedule, clock, wanted, bounds>>

Everyone == "everyone"
Nobody == "nobody"
NoWake == "none"
Off == -1
NoTimer == [kind |-> "none", left |-> 0, delay |-> 0]

Targets == Agents \cup {Everyone}
Slots == 1 .. MaxLives
Wakes == Reasons \cup {"interval"}

(* resolveReasonPriority *)
Priority == [r \in Wakes \cup {NoWake} |->
  CASE r = "action" -> 3 [] r \in {"other", "insight"} -> 2 [] r = "interval" -> 1 [] OTHER -> 0]

Greater(i, j) == IF i > j THEN i ELSE j

NoWakes == [t \in Targets |-> NoWake]
NoBatch == [by |-> 0, delay |-> 0, todo |-> NoWakes,
            target |-> Nobody, left |-> {}, turn |-> Nobody, elapsed |-> 0, orphan |-> FALSE]

InProgress == {b \in Slots : batches[b] # NoBatch}
FreeSlot == CHOOSE b \in Slots \ InProgress : TRUE

Init ==
  /\ pendingWakes = NoWakes
  /\ timer = NoTimer
  /\ running = FALSE /\ scheduled = FALSE
  /\ batches = [b \in Slots |-> NoBatch]
  /\ enabled = TRUE
  /\ runner = 0
  /\ agents = {} /\ dueIn = [a \in Agents |-> 0] /\ ticker = Off
  /\ clock = 0
  /\ lives = 0 /\ interrupted = 0
  /\ wanted = [t \in Targets |-> 0]
  /\ requests = 0 /\ changes = 0

-----------------------------------------------------------------------------
(* The wake layer. *)

(* Fault: the latest reason wins. *)
FaultQueued(pending, t, reason) == [pending EXCEPT ![t] = reason]

(* queuePendingWakeReason: a reason does not give way to a lower one. *)
Queued(pending, t, reason) ==
  IF Priority[reason] >= Priority[pending[t]] THEN [pending EXCEPT ![t] = reason] ELSE pending

(* schedule: a retry timer stands, and any timer that is not later. *)
Scheduled(tm, delay, kind) ==
  IF tm # NoTimer /\ (tm.kind = "retry" \/ tm.left <= delay)
  THEN tm
  ELSE [kind |-> kind, left |-> delay, delay |-> delay]

Asked(t, reason) == [wanted EXCEPT ![t] = Greater(@, Priority[reason])]

Enqueue(t, reason, coalesce) ==
  /\ pendingWakes' = Queued(pendingWakes, t, reason)
  /\ timer' = Scheduled(timer, coalesce, "normal")
  /\ wanted' = Asked(t, reason)

(* requestHeartbeatNow *)
Request(t, reason, coalesce) ==
  /\ requests < MaxRequests
  /\ requests' = requests + 1
  /\ Enqueue(t, reason, coalesce)
  /\ UNCHANGED <<running, scheduled, batches, enabled, runner, schedule, clock, lives, interrupted,
                 changes>>

(* The timer fires with nobody to call: what is pending stays. *)
FiresInVain ==
  /\ timer' = NoTimer /\ scheduled' = FALSE
  /\ UNCHANGED <<pendingWakes, running, batches>>

(* It fires during a batch: later. *)
FiresTooSoon ==
  /\ scheduled' = TRUE
  /\ timer' = Scheduled(NoTimer, timer.delay, timer.kind)
  /\ UNCHANGED <<pendingWakes, running, batches>>

(* It fires and takes what is pending. *)
TakesBatch ==
  /\ timer' = NoTimer /\ scheduled' = FALSE
  /\ IF pendingWakes = NoWakes
     THEN UNCHANGED <<pendingWakes, running, batches>>
     ELSE /\ batches' = [batches EXCEPT ![FreeSlot] =
               [NoBatch EXCEPT !.by = runner, !.delay = timer.delay, !.todo = pendingWakes]]
          /\ pendingWakes' = NoWakes
          /\ running' = TRUE

(* Fault: the layer does not look whether a batch is being awaited. *)
FaultBusy == FALSE

Busy == running

TimerFires ==
  /\ timer # NoTimer /\ timer.left = 0
  /\ \/ runner = 0 /\ FiresInVain
     \/ runner # 0 /\ Busy /\ FiresTooSoon
     \/ runner # 0 /\ ~ Busy /\ TakesBatch
  /\ UNCHANGED <<enabled, runner, schedule, clock, wanted, bounds>>

-----------------------------------------------------------------------------
(* The runner's schedule. *)

(* Fault: the position in the cycle is added. *)
FaultNextSlot(e) == Greater(0, Interval + ((clock - e) % Interval) - e)

(* computeNextHeartbeatPhaseDueMs, e ticks after the time it is asked for. *)
NextSlot(e) == Greater(0, Interval - ((clock - e) % Interval) - e)

Soonest(live, due) == CHOOSE n \in {due[a] : a \in live} : \A a \in live : n <= due[a]

(* scheduleNext *)
NextTick(live, due) == IF live = {} THEN Off ELSE Soonest(live, due)

(* The runner's timer. *)
Tick ==
  /\ ticker = 0
  /\ ticker' = Off
  /\ Enqueue(Everyone, "interval", 0)
  /\ UNCHANGED <<running, scheduled, batches, enabled, runner, agents, dueIn, clock, bounds>>

(* advanceAgentSchedule, as the turn of agent a in batch b ends: the next  *)
(* slot after a tick, a full interval after any other wake, both counted   *)
(* from the start of the run.  A run that an update of the configuration   *)
(* has overtaken advances an agent nobody looks at any more.               *)
Advanced(b, a) ==
  LET run == batches[b] IN
  IF run.by # runner \/ run.orphan \/ a \notin agents THEN dueIn
  ELSE [dueIn EXCEPT ![a] = IF run.todo[run.target] = "interval" THEN NextSlot(run.elapsed)
                            ELSE Greater(0, Interval - run.elapsed)]

(* run's finally *)
Rearmed(b, due) == IF batches[b].by = runner THEN NextTick(agents, due) ELSE ticker

(* The call for the wake in hand has returned. *)
Returned(b) ==
  [batches EXCEPT ![b] = [@ EXCEPT !.todo[batches[b].target] = NoWake, !.target = Nobody,
                                   !.left = {}, !.turn = Nobody, !.elapsed = 0, !.orphan = FALSE]]

Refuses(b) == batches[b].by # runner \/ ~ enabled \/ agents = {}

(* The agents that a wake makes the runner run. *)
Meant(t, reason) ==
  IF t = Everyone THEN {a \in agents : reason = "interval" => dueIn[a] = 0}
  ELSE IF t \in agents \/ reason = "insight" THEN {t} ELSE {}

(* The batch goes on to the wake for t: the handler refuses it when its    *)
(* runner is stopped, heartbeats are off or no agent has any, and only     *)
(* then leaves its timer as it is; otherwise it runs the agents it is for. *)
Call(b, t) ==
  LET run == batches[b]
      meant == Meant(t, run.todo[t])
  IN
  /\ run.target = Nobody /\ run.todo[t] # NoWake
  /\ wanted' = [wanted EXCEPT ![t] = IF @ <= Priority[run.todo[t]] THEN 0 ELSE @]
  /\ IF Refuses(b) \/ meant = {}
     THEN /\ batches' = [batches EXCEPT ![b].todo[t] = NoWake]
          /\ ticker' = IF Refuses(b) THEN ticker ELSE NextTick(agents, dueIn)
     ELSE /\ \E a \in meant :
               batches' = [batches EXCEPT ![b] =
                 [@ EXCEPT !.target = t, !.left = meant \ {a}, !.turn = a]]
          /\ UNCHANGED ticker
  /\ UNCHANGED <<pendingWakes, timer, running, scheduled, enabled, runner, agents, dueIn, clock,
                 bounds>>

(* Fault: the runner advances the schedule and leaves the retry to it. *)
FaultRequeued(t, reason) == pendingWakes

Requeued(t, reason) == Queued(pendingWakes, t, reason)

(* The turn finds its lane busy: the wake is queued again, for a retry.    *)
(* A run for everyone is given up, and its timer not set.                  *)
TurnFindsLaneBusy(b) ==
  LET run == batches[b]
      targeted == run.target # Everyone
  IN
  /\ run.turn # Nobody
  /\ pendingWakes' = Requeued(run.target, run.todo[run.target])
  /\ wanted' = Asked(run.target, run.todo[run.target])
  /\ timer' = Scheduled(timer, Retry, "retry")
  /\ batches' = Returned(b)
  /\ dueIn' = IF targeted THEN Advanced(b, run.turn) ELSE dueIn
  /\ ticker' = IF targeted THEN Rearmed(b, dueIn') ELSE ticker
  /\ UNCHANGED <<running, scheduled, enabled, runner, agents, clock, bounds>>

(* The turn has run, failed or been skipped: its agent's schedule is       *)
(* advanced, and the next agent gets its turn unless heartbeats have been  *)
(* switched off.                                                           *)
TurnEnds(b) ==
  LET run == batches[b] IN
  /\ run.turn # Nobody
  /\ dueIn' = Advanced(b, run.turn)
  /\ IF run.left = {} \/ ~ enabled
     THEN /\ batches' = Returned(b)
          /\ ticker' = Rearmed(b, dueIn')
     ELSE /\ \E a \in run.left :
               batches' = [batches EXCEPT ![b] = [@ EXCEPT !.left = run.left \ {a}, !.turn = a]]
          /\ UNCHANGED ticker
  /\ UNCHANGED <<pendingWakes, timer, running, scheduled, enabled, runner, agents, clock, wanted,
                 bounds>>

(* The callback's finally, whichever batch it is that ends. *)
BatchEnds(b) ==
  /\ b \in InProgress /\ batches[b].todo = NoWakes
  /\ running' = FALSE
  /\ timer' = IF pendingWakes # NoWakes \/ scheduled
              THEN Scheduled(timer, batches[b].delay, "normal")
              ELSE timer
  /\ batches' = [batches EXCEPT ![b] = NoBatch]
  /\ UNCHANGED <<pendingWakes, scheduled, enabled, runner, schedule, clock, wanted, bounds>>

-----------------------------------------------------------------------------
(* Configuration and restarts. *)

Changing == changes < MaxChanges /\ changes' = changes + 1

(* set-heartbeats *)
SetEnabled(on) ==
  /\ Changing
  /\ enabled' = on
  /\ UNCHANGED <<layer, runner, schedule, clock, wanted, lives, interrupted, requests>>

(* updateConfig: an agent keeps a due date that lies ahead. *)
Configured(live, old) ==
  /\ agents' = live
  /\ dueIn' = [a \in Agents |-> IF a \notin live THEN 0
                                ELSE IF a \in old /\ dueIn[a] > 0 THEN dueIn[a] ELSE NextSlot(0)]
  /\ ticker' = NextTick(live, dueIn')

UpdateConfig(live) ==
  /\ runner # 0
  /\ Changing
  /\ Configured(live, agents)
  /\ batches' = [b \in Slots |-> [batches[b] EXCEPT !.orphan = @ \/ batches[b].turn # Nobody]]
  /\ UNCHANGED <<pendingWakes, timer, running, scheduled, enabled, runner, clock, wanted, lives,
                 interrupted, requests>>

(* The server closes: the runner is stopped, and its handler disposed of.  *)
Stop ==
  /\ runner # 0
  /\ runner' = 0
  /\ agents' = {} /\ dueIn' = [a \in Agents |-> 0] /\ ticker' = Off
  /\ UNCHANGED <<layer, enabled, clock, wanted, bounds>>

(* setHeartbeatWakeHandler's look at what is pending *)
Taken(pending) ==
  IF pending = NoWakes THEN NoTimer ELSE Scheduled(NoTimer, Coalesce, "normal")

(* startHeartbeatRunner: the layer's state is reset and the first schedule made. *)
Start(live) ==
  /\ runner = 0 /\ lives < MaxLives
  /\ lives' = lives + 1 /\ runner' = lives'
  /\ interrupted' = interrupted + (IF InProgress = {} THEN 0 ELSE 1)
  /\ timer' = Taken(pendingWakes)
  /\ running' = FALSE /\ scheduled' = FALSE
  /\ Configured(live, {})
  /\ UNCHANGED <<pendingWakes, batches, enabled, clock, wanted, requests, changes>>

(* Time passes; a turn takes no more of it than MaxTurn. *)
Less(left) == IF left > 0 THEN left - 1 ELSE left
Pass ==
  /\ \A b \in InProgress : batches[b].elapsed < MaxTurn
  /\ clock' = (clock + 1) % Interval
  /\ timer' = [timer EXCEPT !.left = Less(@)]
  /\ ticker' = Less(ticker)
  /\ dueIn' = [a \in Agents |-> Less(dueIn[a])]
  /\ batches' = [b \in Slots |-> IF batches[b].turn = Nobody THEN batches[b]
                                 ELSE [batches[b] EXCEPT !.elapsed = @ + 1]]
  /\ UNCHANGED <<pendingWakes, running, scheduled, enabled, runner, agents, wanted, bounds>>

Next ==
  \/ \E t \in Targets, reason \in Reasons, coalesce \in Delays : Request(t, reason, coalesce)
  \/ TimerFires \/ Tick \/ Pass
  \/ \E b \in Slots :
       \/ \E t \in Targets : Call(b, t)
       \/ TurnFindsLaneBusy(b) \/ TurnEnds(b) \/ BatchEnds(b)
  \/ \E on \in BOOLEAN : SetEnabled(on)
  \/ \E live \in SUBSET Agents : UpdateConfig(live) \/ Start(live)
  \/ Stop

Spec == Init /\ [][Next]_vars

(* Time passes and timers fire, turns end, a batch goes on.  Nothing says  *)
(* that a lane is ever free, that anybody asks, or that a server restarts. *)
Fairness ==
  /\ WF_vars(Pass) /\ WF_vars(Tick)
  /\ WF_vars(TimerFires)
  /\ \A b \in Slots :
       WF_vars(TurnFindsLaneBusy(b) \/ TurnEnds(b) \/ BatchEnds(b) \/ \E t \in Targets : Call(b, t))

FairSpec == Spec /\ Fairness

-----------------------------------------------------------------------------
(* Properties. *)

Waits == UNION {0 .. d : d \in Delays \cup {Coalesce, Retry}}

TypeOK ==
  /\ pendingWakes \in [Targets -> Wakes \cup {NoWake}]
  /\ timer \in [kind : {"none", "normal", "retry"}, left : Waits, delay : Waits]
  /\ running \in BOOLEAN /\ scheduled \in BOOLEAN /\ enabled \in BOOLEAN
  /\ \A b \in Slots :
       /\ batches[b].by \in 0 .. lives /\ batches[b].elapsed \in 0 .. MaxTurn
       /\ batches[b].todo \in [Targets -> Wakes \cup {NoWake}]
       /\ batches[b].target \in Targets \cup {Nobody}
       /\ batches[b].turn \in Agents \cup {Nobody} /\ batches[b].left \subseteq Agents
  /\ runner \in {0, lives} /\ lives \in 0 .. MaxLives /\ interrupted \in 0 .. MaxLives
  /\ agents \subseteq Agents
  /\ dueIn \in [Agents -> 0 .. Interval] /\ ticker \in Off .. Interval
  /\ clock \in 0 .. Interval - 1
  /\ wanted \in [Targets -> 0 .. 3]
  /\ requests \in 0 .. MaxRequests /\ changes \in 0 .. MaxChanges

(* No accepted wake is lost or weakened before the handler is called for   *)
(* its target: what was asked, with the priority it was asked with, is     *)
(* pending or in a batch in progress, through coalescing, retries and      *)
(* restarts; and while a runner is there the pending wakes have their      *)
(* timer.                                                                  *)
NoWakeLost ==
  /\ \A t \in Targets :
       wanted[t] <= Priority[pendingWakes[t]] \/ \E b \in Slots : wanted[t] <= Priority[batches[b].todo[t]]
  /\ runner # 0 /\ pendingWakes # NoWakes => timer # NoTimer

(* Batches do not pile up: there is one at a time, and one more only for   *)
(* each restart that came while one was being awaited.                     *)
BatchesDoNotPile == Cardinality(InProgress) <= 1 + interrupted

(* While heartbeats are not switched off, a runner with agents goes on     *)
(* having turns, although a tick that finds a lane busy leaves its timer   *)
(* unset and relies on the wake layer to call again.                       *)
Beating == runner # 0 /\ agents # {}
TicksGoOn ==
  <>[]Beating /\ []enabled => []<>(\E b \in Slots : batches[b].turn # Nobody)

(* docs/cli/system.md:50, "enable: turn heartbeats back on": when they     *)
(* have been switched on for good, the runner goes on having turns.  It    *)
(* does not: a tick that is refused leaves no timer.                       *)
HeartbeatsComeBack ==
  <>[](Beating /\ enabled) => []<>(\E b \in Slots : batches[b].turn # Nobody)
=============================================================================

---------------------------- MODULE FollowupQueue ----------------------------
(***************************************************************************)
(* The followup queue of one session (src/auto-reply/reply/queue/ and      *)
(* src/utils/queue-helpers.ts): messages that arrive while the agent is    *)
(* busy wait here and are run as further turns by a drain loop.            *)
(*                                                                         *)
(* The loop is an async function: it gives up control in the debounce and  *)
(* while a turn runs, and in between enqueues, clears and settings changes *)
(* see and change the same queue object.  The registry FOLLOWUP_QUEUES     *)
(* maps the session's key to its present object; an object that has been   *)
(* removed from it may still be in the hands of its drain loop, so queue   *)
(* objects have ids here.                                                  *)
(*                                                                         *)
(* Left out: the run settings carried along (lastRun), the drain callbacks *)
(* (they only select the closure that runs a turn), the summary's wording, *)
(* and time: a debounce may end at any moment, and a message comes again   *)
(* only within the dedupe window.  Also left out are the parameters of     *)
(* enqueueFollowupRun that no caller uses: the dedupe modes "prompt" and   *)
(* "none" and restartIfIdle, which would start a drain at once; the reply  *)
(* pipeline passes "message-id" and false.                                 *)
(***************************************************************************)
EXTENDS Naturals, Sequences, FiniteSets

CONSTANTS
  Messages,      \* messages a channel may deliver, also more than once
  RouteOf,       \* RouteOf[m]: where the reply goes; Unkeyed or Unroutable
  Unkeyed,       \* a message without routing metadata
  Unroutable,    \* a channel or target replies cannot be routed to
  Modes,         \* the queue modes in use: "collect" or "followup"
  DropPolicies,  \* the overflow policies in use: "summarize", "old", "new"
  Cap,           \* settings.cap
  MaxQueues,     \* bound: queue objects of the key alive at one time
  MaxFailures,   \* bound: turns that throw
  MaxClears      \* bound: /stop and session resets

ASSUME FollowupAssumption ==
  /\ Modes \subseteq {"collect", "followup"} /\ Modes # {}
  /\ DropPolicies \subseteq {"summarize", "old", "new"} /\ DropPolicies # {}
  /\ Cap \in Nat \ {0}
  /\ {MaxQueues, MaxFailures, MaxClears} \subseteq Nat

VARIABLES
  queues,     \* queues[q]: the queue object q
  drains,     \* drains[q]: its drain loop; `draining' is pc # "idle"
  current,    \* FOLLOWUP_QUEUES.get(key): a queue id, 0 for none
  recent,     \* RECENT_QUEUE_MESSAGE_IDS
  mainRun,    \* a turn of the session outside the drain is executing
  fate,       \* history: what has become of each message
  overflowed, \* history: the overflow policy has dropped a message
  turns,      \* history: how often a message was part of a started turn
  failures, clears   \* counters for the bounds

vars == <<queues, drains, current, recent, mainRun, fate, overflowed, turns, failures, clears>>

QueueIds == 1 .. MaxQueues

(* Fault: the two settings are assigned the wrong way round. *)
FaultSwappedSettings(mode, policy) ==
  [items |-> <<>>, mode |-> policy, dropPolicy |-> mode, dropped |-> {}]

EmptyQueue(mode, policy) ==
  [items |-> <<>>, mode |-> mode, dropPolicy |-> policy, dropped |-> {}]

(* A drain loop: forceIndividualCollect and, while a turn runs, the        *)
(* messages it is for, how many items are to be removed when it has ended, *)
(* and whether it carries a summary.                                       *)
Idle == [pc |-> "idle", force |-> FALSE, turn |-> {}, remove |-> 0, summary |-> FALSE]

Init ==
  /\ queues = [q \in QueueIds |-> EmptyQueue(CHOOSE mode \in Modes : TRUE,
                                              CHOOSE policy \in DropPolicies : TRUE)]
  /\ drains = [q \in QueueIds |-> Idle]
  /\ current = 0
  /\ recent = {}
  /\ mainRun = TRUE
  /\ fate = [m \in Messages |-> "new"]
  /\ overflowed = FALSE
  /\ turns = [m \in Messages |-> 0]
  /\ failures = 0 /\ clears = 0

Items(Q) == {Q.items[i] : i \in DOMAIN Q.items}
Draining(q) == drains[q].pc # "idle"
InUse(q) == q = current \/ Draining(q)
Work(Q) == Q.items # <<>> \/ Q.dropped # {}

(* The suffix of s after n elements, as splice(0, n) leaves it. *)
Splice(s, n) == SubSeq(s, n + 1, Len(s))

-----------------------------------------------------------------------------
(* Scheduling.  The registry and the drain loops as a record, so that the  *)
(* calls finally -> scheduleFollowupDrain -> finally compose.              *)

State(d, c) == [drains |-> d, current |-> c]

(* scheduleFollowupDrain: take the registered object unless it has a loop; *)
(* an object with nothing to do is dropped from the registry at once.      *)
Schedule(st) ==
  IF st.current = 0 \/ st.drains[st.current].pc # "idle" THEN st
  ELSE IF Work(queues'[st.current])
       THEN State([st.drains EXCEPT ![st.current] = [Idle EXCEPT !.pc = "debounce"]], st.current)
       ELSE State(st.drains, 0)

(* Fault: the loop deletes the key when it stops, whatever is left. *)
FaultDeleteAlways(q, st) == State([st.drains EXCEPT ![q] = Idle], 0)

(* The finally block of q's loop: the key is deleted when q has no work,   *)
(* whatever object it maps to by now.                                      *)
Finally(q, st) ==
  LET stopped == [st.drains EXCEPT ![q] = Idle]
  IN IF Work(queues'[q]) THEN Schedule(State(stopped, st.current)) ELSE State(stopped, 0)

(* The head of the while loop; a loop that has seen a mixed batch does not *)
(* collect again.                                                          *)
Loop(q, st) ==
  IF Work(queues'[q])
  THEN State([st.drains EXCEPT ![q] =
               [Idle EXCEPT !.pc = "debounce", !.force = st.drains[q].force]], st.current)
  ELSE Finally(q, st)

Becomes(st) == drains' = st.drains /\ current' = st.current

-----------------------------------------------------------------------------
(* Arrival of messages. *)

(* applyQueueDropPolicy: room is made by dropping from the head. *)
DropCount(Q) == IF Len(Q.items) < Cap THEN 0 ELSE Len(Q.items) - Cap + 1
Refused(Q) == DropCount(Q) > 0 /\ Q.dropPolicy = "new"
Overflow(Q) == {Q.items[i] : i \in 1 .. DropCount(Q)}

(* Fault: the caller relies on the active run it saw to drain the queue. *)
FaultNoRecheck(isRunActive, st) == st

(* The caller looks again after the enqueue and starts a drain itself if   *)
(* no run is active any more.                                              *)
Recheck(isRunActive, st) == IF isRunActive THEN st ELSE Schedule(st)

(* enqueueFollowupRun, as the reply pipeline calls it: the message is not  *)
(* drained at once (restartIfIdle is false); afterwards the caller starts  *)
(* a drain if the run it found active is no longer so.                     *)
Enqueue(m, mode, policy, isRunActive) ==
  LET unused == {p \in QueueIds : ~ InUse(p)}
      q == IF current = 0 THEN CHOOSE p \in unused : TRUE ELSE current
      Q == IF current = 0 THEN EmptyQueue(mode, policy)
           ELSE [queues[q] EXCEPT !.mode = mode, !.dropPolicy = policy]
      accepted == m \notin recent /\ m \notin Items(Q) /\ ~ Refused(Q)
      dropped == IF accepted THEN Overflow(Q) ELSE {}
      reported == IF policy = "summarize" THEN dropped ELSE {}
  IN /\ current = 0 => unused # {}
     /\ isRunActive => mainRun \/ \E p \in QueueIds : drains[p].pc = "running"
     /\ queues' = [queues EXCEPT ![q] =
          IF accepted
          THEN [Q EXCEPT !.items = Append(Splice(@, DropCount(Q)), m),
                         !.dropped = @ \cup reported]
          ELSE Q]
     /\ recent' = IF accepted THEN recent \cup {m} ELSE recent
     /\ fate' = [n \in Messages |->
          CASE n = m /\ accepted -> "waiting"
            [] n \in dropped \ {m} /\ fate[n] = "waiting" ->
                 IF n \in reported THEN "dropped" ELSE "discarded"
            [] OTHER -> fate[n]]
     /\ Becomes(Recheck(isRunActive, State(drains, q)))
     /\ overflowed' = (overflowed \/ dropped # {})
     /\ UNCHANGED <<mainRun, turns, failures, clears>>

(* clearSessionQueues: everything waiting is forgotten and the key is      *)
(* removed; a drain loop keeps its hold on the emptied object.             *)
Clear ==
  /\ current # 0
  /\ clears < MaxClears
  /\ clears' = clears + 1
  /\ queues' = [queues EXCEPT ![current] = [queues[current] EXCEPT !.items = <<>>, !.dropped = {}]]
  /\ fate' = [n \in Messages |->
       IF /\ n \in Items(queues[current]) \cup queues[current].dropped
          /\ fate[n] \in {"waiting", "dropped"}
       THEN "discarded" ELSE fate[n]]
  /\ current' = 0
  /\ UNCHANGED <<drains, recent, mainRun, overflowed, turns, failures>>

-----------------------------------------------------------------------------
(* Turns. *)

(* hasCrossChannelItems: the waiting messages do not share one target. *)
HasCrossChannelItems(Q) ==
  LET routes == {RouteOf[m] : m \in Items(Q)}
  IN Unroutable \in routes \/ Cardinality(routes) > 1

HasSummary(Q) == Q.dropPolicy = "summarize" /\ Q.dropped # {}

(* The loop wakes from the debounce and calls runFollowup for the messages *)
(* ms, with a summary of what was dropped or without; remove entries will  *)
(* be taken off the queue when the turn has ended.                         *)
Run(q, ms, remove, summary, force) ==
  /\ drains' = [drains EXCEPT ![q] = [pc |-> "running", force |-> force, turn |-> ms,
                                      remove |-> remove, summary |-> summary]]
  /\ fate' = [n \in Messages |->
       CASE n \in ms -> "ran"
         [] summary /\ n \in queues[q].dropped \ ms /\ fate[n] = "dropped" -> "announced"
         [] OTHER -> fate[n]]
  /\ turns' = [n \in Messages |-> IF n \in ms THEN turns[n] + 1 ELSE turns[n]]
  /\ UNCHANGED <<queues, current, recent, mainRun, overflowed, failures, clears>>

(* The loop finds nothing it can run and breaks. *)
Break(q) ==
  /\ UNCHANGED <<queues, recent, mainRun, fate, overflowed, turns, failures, clears>>
  /\ Becomes(Finally(q, State(drains, current)))

(* Collect mode, targets differ or differed before in this loop: the head  *)
(* is run by itself.                                                       *)
RunIndividually(q) ==
  LET Q == queues[q]
      force == drains[q].force \/ HasCrossChannelItems(Q)
  IN /\ drains[q].pc = "debounce" /\ Q.mode = "collect"
     /\ force
     /\ IF Q.items = <<>> THEN Break(q) ELSE Run(q, {Head(Q.items)}, 1, FALSE, TRUE)

(* Fault: after a collected turn only the head is removed. *)
FaultRemoveOne(q) ==
  LET Q == queues[q]
  IN /\ drains[q].pc = "debounce" /\ Q.mode = "collect"
     /\ ~ drains[q].force /\ ~ HasCrossChannelItems(Q)
     /\ IF Work(Q) THEN Run(q, Items(Q), 1, HasSummary(Q), FALSE) ELSE Break(q)

(* Collect mode: all that waits becomes one turn, with the summary. *)
RunCollected(q) ==
  LET Q == queues[q]
  IN /\ drains[q].pc = "debounce" /\ Q.mode = "collect"
     /\ ~ drains[q].force /\ ~ HasCrossChannelItems(Q)
     /\ IF Work(Q) THEN Run(q, Items(Q), Len(Q.items), HasSummary(Q), FALSE) ELSE Break(q)

(* Other modes: a summary of the dropped messages is run in the place of   *)
(* the head item, or else the head item itself.                            *)
RunNext(q) ==
  LET Q == queues[q]
  IN /\ drains[q].pc = "debounce" /\ Q.mode # "collect"
     /\ IF Q.items = <<>> THEN Break(q)
        ELSE Run(q, IF HasSummary(Q) THEN {} ELSE {Head(Q.items)}, 1,
                 HasSummary(Q), drains[q].force)

Wake(q) == RunIndividually(q) \/ RunCollected(q) \/ RunNext(q)

(* The turn ends: as many items as it had are removed from the head of     *)
(* the queue as it is now, and with a summary the overflow is forgotten.   *)
TurnEnds(q) ==
  /\ drains[q].pc = "running"
  /\ queues' = [queues EXCEPT ![q] =
       [queues[q] EXCEPT !.items = Splice(@, drains[q].remove),
                         !.dropped = IF drains[q].summary THEN {} ELSE @]]
  /\ Becomes(Loop(q, State(drains, current)))
  /\ UNCHANGED <<recent, mainRun, fate, overflowed, turns, failures, clears>>

(* The turn throws: nothing is removed and the loop is started again; what *)
(* the turn was for is back where it was, unless it has been taken out of  *)
(* the queue meanwhile.                                                    *)
TurnFails(q) ==
  LET Q == queues[q] IN
  /\ drains[q].pc = "running"
  /\ failures < MaxFailures
  /\ failures' = failures + 1
  /\ queues' = queues
  /\ Becomes(Finally(q, State(drains, current)))
  /\ fate' = [n \in Messages |->
       CASE n \in drains[q].turn \cap Items(Q) -> "waiting"
         [] /\ n \in Q.dropped \ (drains[q].turn \cap Items(Q))
            /\ n \in drains[q].turn \/ fate[n] = "announced" -> "dropped"
         [] n \in drains[q].turn \ (Items(Q) \cup Q.dropped) -> "discarded"
         [] OTHER -> fate[n]]
  /\ UNCHANGED <<recent, mainRun, overflowed, turns, clears>>

(* A turn outside the drain ends and starts one (finalizeWithFollowup). *)
MainRunEnds ==
  /\ mainRun
  /\ mainRun' = FALSE
  /\ queues' = queues
  /\ Becomes(Schedule(State(drains, current)))
  /\ UNCHANGED <<recent, fate, overflowed, turns, failures, clears>>

(* A message that found the session idle has a turn of its own. *)
MainRunStarts ==
  /\ ~ mainRun
  /\ \A q \in QueueIds : drains[q].pc # "running"
  /\ mainRun' = TRUE
  /\ UNCHANGED <<queues, drains, current, recent, fate, overflowed, turns, failures, clears>>

Next ==
  \/ \E m \in Messages, mode \in Modes, policy \in DropPolicies, active \in BOOLEAN :
       Enqueue(m, mode, policy, active)
  \/ Clear
  \/ \E q \in QueueIds : Wake(q) \/ TurnEnds(q) \/ TurnFails(q)
  \/ MainRunEnds \/ MainRunStarts

Spec == Init /\ [][Next]_vars

(* Debounces end and turns end, well or badly, under their own timeouts. *)
Fairness ==
  /\ \A q \in QueueIds : WF_vars(Wake(q)) /\ WF_vars(TurnEnds(q) \/ TurnFails(q))
  /\ WF_vars(MainRunEnds)

FairSpec == Spec /\ Fairness

-----------------------------------------------------------------------------
(* Properties. *)

TypeOK ==
  /\ queues \in [QueueIds -> [items : Seq(Messages), mode : Modes,
                              dropPolicy : DropPolicies, dropped : SUBSET Messages]]
  /\ drains \in [QueueIds -> [pc : {"idle", "debounce", "running"}, force : BOOLEAN,
                              turn : SUBSET Messages, remove : Nat, summary : BOOLEAN]]
  /\ current \in QueueIds \cup {0}
  /\ recent \subseteq Messages
  /\ mainRun \in BOOLEAN
  /\ fate \in [Messages -> {"new", "waiting", "ran", "dropped", "announced", "discarded"}]
  /\ overflowed \in BOOLEAN
  /\ turns \in [Messages -> Nat]
  /\ failures \in 0 .. MaxFailures /\ clears \in 0 .. MaxClears

Served(m) == \E q \in QueueIds :
  InUse(q) /\ m \in (IF fate[m] = "waiting" THEN Items(queues[q]) ELSE queues[q].dropped)

(* Every accepted message is accounted for: it still waits in an object    *)
(* that is registered or being drained, or was run, or was dropped and     *)
(* will be or was announced in a summary, or was discarded on purpose, by  *)
(* the policy "old" or by a clear.                                         *)
AllAccountedFor == \A m \in Messages : fate[m] \in {"waiting", "dropped"} => Served(m)

(* Nothing has been dropped or cleared so far. *)
Undisturbed == ~ overflowed /\ clears = 0

(* As long as the cap is not reached and nobody clears the session, no     *)
(* interleaving of enqueues, drains, failing and retried turns, and        *)
(* registry deletions loses a message.                                     *)
NothingLostBelowCap == Undisturbed => AllAccountedFor

(* A message is run again only if a turn has failed: redeliveries, stale   *)
(* batches and restarted drains do not repeat it.                          *)
RunOnceUnlessFailed == \A m \in Messages : turns[m] <= 1 + failures

(* Below the cap every accepted message gets its turn, also when the drain *)
(* ends just before it arrives or a turn fails.                            *)
WaitingRunsBelowCap ==
  \A m \in Messages : fate[m] = "waiting" ~> (fate[m] = "ran" \/ ~ Undisturbed)
=============================================================================

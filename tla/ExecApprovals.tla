---------------------------- MODULE ExecApprovals ----------------------------
(***************************************************************************)
(* One exec approval, from the agent's request to the execution of the     *)
(* command: the gateway's approval manager                                 *)
(* (src/gateway/exec-approval-manager.ts), the handlers of                 *)
(* exec.approval.request, .resolve and .waitDecision, the agent that asks  *)
(* and waits (src/agents/bash-tools.exec-*.ts), and the check of           *)
(* node.invoke against the approval                                        *)
(* (src/gateway/node-invoke-system-run-approval.ts).                       *)
(*                                                                         *)
(* The parties race: an approver with the expiry timer and with the        *)
(* handler that still awaits the delivery of the request, the agent's wait *)
(* and its invocations with the deletion of the resolved entry after a     *)
(* grace period.  A timer is due at its time and may be late.  A call of   *)
(* the agent may fail or time out while the gateway goes on with it.       *)
(*                                                                         *)
(* Approvals do not interact: an id is a random UUID, registered once, so  *)
(* that no registration is refused for an id in use.                       *)
(* Left out: the search by an abbreviated id, the binding of an approval   *)
(* to a node, a client and a command (checked against the record's         *)
(* constant part), allowlists, and strict inline evaluation.               *)
(***************************************************************************)
EXTENDS Naturals

CONSTANTS
  Decisions,  \* what an approver may choose: "allow-once", "allow-always", "deny"
  Hosts,      \* where the command is to run: "gateway", "node"
  Fallbacks,  \* askFallback: "full", "deny"
  Timeout,    \* the approval's timeoutMs
  Grace,      \* RESOLVED_ENTRY_GRACE_MS
  MaxTime,    \* bound: the clock
  MaxInvokes  \* bound: deliveries of the agent's node.invoke

ASSUME ApprovalAssumption ==
  /\ Decisions \subseteq {"allow-once", "allow-always", "deny"}
  /\ Hosts \subseteq {"gateway", "node"}
  /\ Fallbacks \subseteq {"full", "deny"}
  /\ {Timeout, Grace, MaxTime, MaxInvokes} \subseteq Nat

VARIABLES
  now,       \* the clock
  host, fallback, twoPhase,  \* how the agent asks
  clientHasApprovals,  \* its client may use exec approvals
  entry,     \* the manager's entry: its record and timers
  promise,   \* the promise every waiter holds: "pending", a decision or "null"
  handler,   \* the request handler: where it stands, and the route it has seen
  agent,     \* where the agent stands
  answer,    \* what the agent has been told, "none" before
  granted,   \* history: the decision an approver was told is accepted
  unheard,   \* history: the answer was given without looking at the promise
  uses,      \* history: executions of the command
  invokes    \* counter for the bound

vars == <<now, host, fallback, twoPhase, clientHasApprovals, entry, promise, handler, agent,
          answer, granted, unheard, uses, invokes>>
asked == <<host, fallback, twoPhase, clientHasApprovals>>

Nobody == "nobody"
NoEntry == [state |-> "absent", expiresAt |-> 0, decision |-> "none", resolvedBy |-> Nobody,
            deleteAt |-> 0]

Init ==
  /\ now = 0
  /\ host \in Hosts /\ fallback \in Fallbacks /\ twoPhase \in BOOLEAN
  /\ clientHasApprovals \in BOOLEAN
  /\ entry = NoEntry
  /\ promise = "pending"
  /\ handler = [at |-> "none", route |-> FALSE]
  /\ agent = "idle"
  /\ answer = "none"
  /\ granted = "none"
  /\ unheard = FALSE
  /\ uses = 0 /\ invokes = 0

-----------------------------------------------------------------------------
(* The manager. *)

Pending == entry.state = "pending"
Known == entry.state # "absent"

(* Fault: the arguments are taken in the wrong order. *)
FaultResolved(decision, by) ==
  [entry EXCEPT !.state = "resolved", !.decision = by, !.resolvedBy = decision,
                !.deleteAt = now + Grace]

(* The entry with its outcome, kept for the grace period. *)
Resolved(decision, by) ==
  [entry EXCEPT !.state = "resolved", !.decision = decision, !.resolvedBy = by,
                !.deleteAt = now + Grace]

(* Fault: the entry is marked, the promise forgotten. *)
FaultExpire(by) == entry' = Resolved("none", by) /\ UNCHANGED promise

(* expire: no decision.  The timer passes null for the resolver. *)
Expire(by) == entry' = Resolved("none", by) /\ promise' = "null"

(* register's timer *)
ExpiryTimer ==
  /\ Pending /\ now >= entry.expiresAt
  /\ Expire("null")
  /\ UNCHANGED <<now, asked, handler, agent, answer, granted, unheard, uses, invokes>>

(* The timer that resolve and expire leave behind. *)
GraceTimer ==
  /\ entry.state = "resolved" /\ now >= entry.deleteAt
  /\ entry' = NoEntry
  /\ UNCHANGED <<now, asked, promise, handler, agent, answer, granted, unheard, uses, invokes>>

(* Fault: an entry that has expired can still be decided. *)
FaultResolvable == Known

Resolvable == Pending

(* handleApprovalResolve: the approver is told ok when the entry was       *)
(* pending, and "unknown or expired" otherwise.                            *)
Resolve(d) ==
  /\ Resolvable
  /\ entry' = Resolved(d, "approver")
  /\ promise' = IF promise = "pending" THEN d ELSE promise
  /\ granted' = d
  /\ UNCHANGED <<now, asked, handler, agent, answer, unheard, uses, invokes>>

-----------------------------------------------------------------------------
(* The request handler. *)

(* exec.approval.request: the entry is registered, the request broadcast   *)
(* and its delivery begun; whether a client or the channel the command     *)
(* came from could approve is looked up now.                               *)
Request ==
  /\ agent = "idle"
  /\ agent' = "registering"
  /\ entry' = [NoEntry EXCEPT !.state = "pending", !.expiresAt = now + Timeout]
  /\ \E route \in BOOLEAN : handler' = [at |-> "delivering", route |-> route]
  /\ UNCHANGED <<now, asked, promise, answer, granted, unheard, uses, invokes>>

Told(value) == answer' = value /\ agent' = "told"

(* The agent still listens for the response to its request. *)
Listening == agent = "registering"

(* The delivery has ended.  With no route the approval expires, if it is   *)
(* still pending, and the answer is null in any case; otherwise a          *)
(* two-phase request is accepted.                                          *)
DeliveryEnds(delivered) ==
  /\ handler.at = "delivering"
  /\ IF ~ handler.route /\ ~ delivered
     THEN /\ IF Pending THEN Expire("no-approval-route") ELSE UNCHANGED <<entry, promise>>
          /\ handler' = [handler EXCEPT !.at = "done"]
          /\ IF Listening
             THEN Told("null") /\ unheard' = (promise \notin {"pending", "null"})
             ELSE UNCHANGED <<answer, agent, unheard>>
     ELSE /\ handler' = [handler EXCEPT !.at = "awaiting"]
          /\ agent' = IF twoPhase /\ Listening THEN "accepted" ELSE agent
          /\ UNCHANGED <<entry, promise, answer, unheard>>
  /\ UNCHANGED <<now, asked, granted, uses, invokes>>

(* The decision is known and the follow-up, which may fail, is over: the   *)
(* final response, which a two-phase client no longer listens for.         *)
RequestAnswered ==
  /\ handler.at = "awaiting" /\ promise # "pending"
  /\ handler' = [handler EXCEPT !.at = "done"]
  /\ IF Listening /\ ~ twoPhase THEN Told(promise) ELSE UNCHANGED <<answer, agent>>
  /\ UNCHANGED <<now, asked, entry, promise, granted, unheard, uses, invokes>>

-----------------------------------------------------------------------------
(* The agent. *)

(* exec.approval.waitDecision: an entry that is no longer there is an      *)
(* error, which the agent takes for a timeout.                             *)
Wait ==
  /\ agent = "accepted"
  /\ IF Known
     THEN agent' = "waiting" /\ UNCHANGED <<answer, unheard>>
     ELSE Told("null") /\ unheard' = (promise # "null")
  /\ UNCHANGED <<now, asked, entry, promise, handler, granted, uses, invokes>>

WaitAnswered ==
  /\ agent = "waiting" /\ promise # "pending"
  /\ Told(promise)
  /\ UNCHANGED <<now, asked, entry, promise, handler, granted, unheard, uses, invokes>>

(* The call of exec.approval.request or .waitDecision fails or times out:  *)
(* the agent gives up, what it called goes on.                             *)
CallFails ==
  /\ agent \in {"registering", "accepted", "waiting"}
  /\ agent' = "gaveUp"
  /\ UNCHANGED <<now, asked, entry, promise, handler, answer, granted, unheard, uses, invokes>>

Allowing == {"allow-once", "allow-always"}

(* createExecApprovalDecisionState: no decision counts as askFallback says.*)
ApprovedByAsk == answer \in Allowing \/ (answer = "null" /\ fallback = "full")

(* The command is denied, or run here, or node.invoke is called for it.    *)
Act ==
  /\ agent = "told"
  /\ IF ~ ApprovedByAsk
     THEN agent' = "denied" /\ UNCHANGED uses
     ELSE IF host = "gateway"
     THEN agent' = "executed" /\ uses' = uses + 1
     ELSE agent' = "invoking" /\ UNCHANGED uses
  /\ UNCHANGED <<now, asked, entry, promise, handler, answer, granted, unheard, invokes>>

(* Fault: the decision stays what it is. *)
FaultConsumed == entry

(* consumeAllowOnce *)
Consumed == IF entry.decision = "allow-once" THEN [entry EXCEPT !.decision = "none"] ELSE entry

(* sanitizeSystemRunParamsForForwarding: the invocation is forwarded to    *)
(* the node when the entry, not past its expiry, says so; the fallback is  *)
(* for an approval that its timer has ended, and for a client that may use *)
(* approvals.                                                              *)
Forwarded ==
  /\ Known /\ now <= entry.expiresAt
  /\ \/ entry.decision \in Allowing
     \/ /\ entry.state = "resolved" /\ entry.decision = "none" /\ entry.resolvedBy = "null"
        /\ answer = "null" /\ clientHasApprovals

(* node.invoke arrives, also a second time after it has been answered. *)
Invoke ==
  /\ host = "node" /\ agent \in {"invoking", "executed", "refused"}
  /\ invokes < MaxInvokes
  /\ invokes' = invokes + 1
  /\ IF Forwarded
     THEN /\ uses' = uses + 1
          /\ entry' = Consumed
     ELSE UNCHANGED <<uses, entry>>
  /\ agent' = IF agent # "invoking" THEN agent ELSE IF Forwarded THEN "executed" ELSE "refused"
  /\ UNCHANGED <<now, asked, promise, handler, answer, granted, unheard>>

(* The clock starts with the request. *)
Advance ==
  /\ agent # "idle"
  /\ now < MaxTime
  /\ now' = now + 1
  /\ UNCHANGED <<asked, entry, promise, handler, agent, answer, granted, unheard, uses, invokes>>

Next ==
  \/ ExpiryTimer \/ GraceTimer
  \/ \E d \in Decisions : Resolve(d)
  \/ Request \/ RequestAnswered
  \/ \E delivered \in BOOLEAN : DeliveryEnds(delivered)
  \/ Wait \/ WaitAnswered \/ CallFails \/ Act \/ Invoke
  \/ Advance

Spec == Init /\ [][Next]_vars

(* Time passes and timers run; the delivery of the request ends; the       *)
(* gateway answers and the agent goes on.  An approver may never come.     *)
Fairness ==
  /\ WF_vars(Advance)
  /\ WF_vars(ExpiryTimer)
  /\ WF_vars(\E delivered \in BOOLEAN : DeliveryEnds(delivered))
  /\ WF_vars(RequestAnswered)
  /\ WF_vars(Wait \/ WaitAnswered \/ Act \/ (agent = "invoking" /\ Invoke))

FairSpec == Spec /\ Fairness

-----------------------------------------------------------------------------
(* Properties. *)

TypeOK ==
  /\ now \in 0 .. MaxTime
  /\ host \in Hosts /\ fallback \in Fallbacks /\ twoPhase \in BOOLEAN
  /\ clientHasApprovals \in BOOLEAN
  /\ entry \in [state : {"absent", "pending", "resolved"}, expiresAt : 0 .. MaxTime + Timeout,
                decision : Decisions \cup {"none"},
                resolvedBy : {Nobody, "null", "approver", "no-approval-route"},
                deleteAt : 0 .. MaxTime + Grace]
  /\ promise \in Decisions \cup {"pending", "null"}
  /\ handler \in [at : {"none", "delivering", "awaiting", "done"}, route : BOOLEAN]
  /\ agent \in {"idle", "registering", "accepted", "waiting", "told", "denied", "invoking",
                "executed", "refused", "gaveUp"}
  /\ answer \in Decisions \cup {"none", "null"}
  /\ granted \in Decisions \cup {"none"}
  /\ unheard \in BOOLEAN
  /\ uses \in 0 .. MaxInvokes + 1
  /\ invokes \in 0 .. MaxInvokes

(* A decision the gateway has accepted is the one the agent is told, and   *)
(* nothing else is, whichever of the racing timers, handlers and waits     *)
(* comes first.  Two paths do not look at the decision: a request found    *)
(* without a route before its delivery ended, and a wait that comes after  *)
(* the grace period.                                                       *)
AnswersAgree ==
  answer # "none" /\ ~ unheard => answer = IF granted = "none" THEN "null" ELSE granted

(* An approval for one time is used for one execution, however often the   *)
(* invocation is delivered, and a command runs only on an approval given,  *)
(* or on askFallback when the agent was told nothing was decided.          *)
ExecutedAsApproved ==
  /\ granted = "allow-once" => uses <= 1
  /\ uses > 0 => granted \in Allowing \/ (answer = "null" /\ fallback = "full")

(* Every request comes to an end: decided, expired or without a route, the *)
(* agent gets its answer and acts on it, unless its call failed.           *)
RequestsEnd == agent = "registering" ~> agent \in {"denied", "executed", "refused", "gaveUp"}
=============================================================================

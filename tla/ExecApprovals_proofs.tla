------------------------- MODULE ExecApprovals_proofs -------------------------
(***************************************************************************)
(* Proofs about an exec approval, for all timeouts and grace periods, any  *)
(* length of time and any number of invocations.                           *)
(*                                                                         *)
(* Neither invariant is inductive alone.  That the agent's answer stays    *)
(* the decision needs that no decision comes after an answer, which holds  *)
(* because an answer is only given once the promise is settled (Deciding), *)
(* and because the handlers tell the agent once (Phases).  That an         *)
(* approval for one time is not used twice needs that the consumed entry   *)
(* does not pass for one that its timer has ended: the entry remembers the *)
(* approver (Deciding), although its decision is gone (Spending).          *)
(***************************************************************************)
EXTENDS ExecApprovals, TLAPS

Early == {"idle", "registering", "accepted", "waiting", "gaveUp"}
Acting == {"invoking", "executed", "refused"}

(* Who stands where: the agent is told once. *)
Phases ==
  /\ agent = "idle" <=> handler.at = "none"
  /\ agent = "idle" => entry = NoEntry
  /\ handler.at = "delivering" => agent \in {"registering", "gaveUp"}
  /\ handler.at = "awaiting" /\ ~ twoPhase => agent \in {"registering", "gaveUp"}
  /\ agent \in Early <=> answer = "none"

(* The promise, the entry and what the approver was told. *)
Deciding ==
  /\ promise = "pending" <=> agent = "idle" \/ Pending
  /\ granted = "none" => promise \in {"pending", "null"}
  /\ granted # "none" => promise = granted
  /\ answer # "none" => promise # "pending"
  /\ entry.decision # "none" => entry.decision = granted
  /\ entry.state = "resolved" /\ granted # "none" => entry.resolvedBy = "approver"
  /\ unheard => answer = "null"

(* Executions and what allows them. *)
Spending ==
  /\ agent \in Early => uses = 0
  /\ agent \in Acting => ApprovedByAsk
  /\ host = "gateway" => uses = IF agent = "executed" THEN 1 ELSE 0
  /\ host = "node" => uses <= invokes
  /\ host = "node" /\ agent \notin {"executed", "refused"} => uses = 0
  /\ host = "node" /\ granted = "allow-once" =>
       /\ uses <= 1
       /\ uses = 1 => entry.decision = "none"

Inv == TypeOK /\ Phases /\ Deciding /\ Spending /\ AnswersAgree

-----------------------------------------------------------------------------
(* The entries of the manager. *)

Resolvers == {Nobody, "null", "approver", "no-approval-route"}

Entries == [state : {"absent", "pending", "resolved"}, expiresAt : 0 .. MaxTime + Timeout,
            decision : Decisions \cup {"none"}, resolvedBy : Resolvers,
            deleteAt : 0 .. MaxTime + Grace]

LEMMA Bounds == MaxTime \in Nat /\ Timeout \in Nat /\ Grace \in Nat /\ MaxInvokes \in Nat
  BY ApprovalAssumption

LEMMA NoEntryTyped == NoEntry \in Entries
  BY Bounds DEF NoEntry, Entries, Resolvers, Nobody

(* A request's entry. *)
LEMMA RequestedTyped ==
  ASSUME now \in 0 .. MaxTime
  PROVE  [NoEntry EXCEPT !.state = "pending", !.expiresAt = now + Timeout] \in Entries
<1>1. now + Timeout \in 0 .. MaxTime + Timeout
  BY Bounds
<1> QED
  BY <1>1, NoEntryTyped DEF Entries

(* An outcome keeps an entry an entry, and so does its consumption. *)
LEMMA ResolvedTyped ==
  ASSUME entry \in Entries, now \in 0 .. MaxTime,
         NEW d \in Decisions \cup {"none"}, NEW by \in Resolvers
  PROVE  Resolved(d, by) \in Entries
<1>1. now + Grace \in 0 .. MaxTime + Grace
  BY Bounds
<1> QED
  BY <1>1 DEF Resolved, Entries

LEMMA ConsumedTyped == entry \in Entries => Consumed \in Entries
  BY DEF Consumed, Entries

-----------------------------------------------------------------------------
(* The initial states. *)
LEMMA InitInv == Init => Inv
<1> SUFFICES ASSUME Init PROVE Inv
  OBVIOUS
<1> USE DEF Init, Pending
<1>1. entry \in Entries
  BY NoEntryTyped
<1>2. TypeOK
  <2>1. now \in 0 .. MaxTime /\ uses \in 0 .. MaxInvokes + 1 /\ invokes \in 0 .. MaxInvokes
    BY Bounds
  <2> QED
    BY <1>1, <2>1 DEF TypeOK, Entries, Resolvers
<1>3. Phases
  BY DEF Phases, Early
<1>4. Deciding
  BY DEF Deciding, NoEntry
<1>5. Spending
  BY Bounds DEF Spending, Early, Acting
<1>6. AnswersAgree
  BY DEF AnswersAgree
<1> QED
  BY <1>2, <1>3, <1>4, <1>5, <1>6 DEF Inv

(* One lemma per action: each keeps every conjunct of the invariant. *)

(* The expiry timer ends an approval nobody has decided. *)
LEMMA ExpiryStep ==
  ASSUME Inv, ExpiryTimer
  PROVE  Inv'
<1> USE ApprovalAssumption DEF Inv
<1>1. entry' \in Entries
  <2>1. entry \in Entries /\ now \in 0 .. MaxTime
    BY DEF TypeOK, Entries, Resolvers
  <2> QED
    BY <2>1, ResolvedTyped DEF ExpiryTimer, Expire, Resolvers
<1> USE DEF ExpiryTimer, Expire, Resolved, asked
<1>2. TypeOK'
  BY <1>1, Bounds DEF TypeOK, Entries, Resolvers
<1>3. Phases'
  BY DEF Phases, NoEntry, Pending
<1>4. Deciding'
  BY DEF TypeOK, Phases, Deciding, NoEntry, Pending
<1>5. Spending'
  BY DEF Spending, ApprovedByAsk
<1>6. AnswersAgree'
  BY DEF AnswersAgree
<1> QED
  BY <1>2, <1>3, <1>4, <1>5, <1>6

(* The deletion of the entry takes nothing from what was told or used. *)
LEMMA GraceEndsStep ==
  ASSUME Inv, GraceTimer
  PROVE  Inv'
<1> USE ApprovalAssumption DEF Inv
<1>1. entry' \in Entries
  <2>1. entry \in Entries /\ now \in 0 .. MaxTime
    BY DEF TypeOK, Entries, Resolvers
  <2> QED
    BY <2>1, NoEntryTyped DEF GraceTimer
<1> USE DEF GraceTimer, asked
<1>2. TypeOK'
  BY <1>1, Bounds DEF TypeOK, Entries, Resolvers
<1>3. Phases'
  BY DEF Phases
<1>4. Deciding'
  BY DEF Deciding, NoEntry, Pending
<1>5. Spending'
  BY DEF Spending, NoEntry, ApprovedByAsk
<1>6. AnswersAgree'
  BY DEF AnswersAgree
<1> QED
  BY <1>2, <1>3, <1>4, <1>5, <1>6

(* A decision is accepted only while nobody has been told anything. *)
LEMMA ResolveStep ==
  ASSUME NEW d \in Decisions, Inv, Resolve(d)
  PROVE  Inv'
<1> USE ApprovalAssumption DEF Inv
<1>1. entry' \in Entries
  <2>1. entry \in Entries /\ now \in 0 .. MaxTime
    BY DEF TypeOK, Entries, Resolvers
  <2> QED
    BY <2>1, ResolvedTyped DEF Resolve, Resolvers
<1> USE DEF Resolve, Resolvable, Resolved, asked
<1>2. TypeOK'
  BY <1>1, Bounds DEF TypeOK, Entries, Resolvers
<1>3. Phases'
  BY DEF Phases, NoEntry, Pending
<1>4. Deciding'
  BY DEF Phases, Deciding, NoEntry, Pending
<1>5. Spending'
  BY DEF Deciding, Spending, Acting, ApprovedByAsk, Allowing
<1>6. AnswersAgree'
  BY DEF Deciding, AnswersAgree
<1> QED
  BY <1>2, <1>3, <1>4, <1>5, <1>6

(* The request registers a fresh entry. *)
LEMMA RequestStep ==
  ASSUME Inv, Request
  PROVE  Inv'
<1> USE ApprovalAssumption DEF Inv
<1>1. entry' \in Entries
  <2>1. entry \in Entries /\ now \in 0 .. MaxTime
    BY DEF TypeOK, Entries, Resolvers
  <2> QED
    BY <2>1, RequestedTyped DEF Request
<1> USE DEF Request, asked
<1>2. TypeOK'
  BY <1>1, Bounds DEF TypeOK, Entries, Resolvers
<1>3. Phases'
  BY DEF Phases, Early
<1>4. Deciding'
  BY DEF Deciding, NoEntry, Pending
<1>5. Spending'
  BY DEF Spending, Early, Acting
<1>6. AnswersAgree'
  BY DEF AnswersAgree
<1> QED
  BY <1>2, <1>3, <1>4, <1>5, <1>6

(* The delivery's end may tell the agent that nothing was decided. *)
LEMMA DeliveryStep ==
  ASSUME NEW delivered \in BOOLEAN, Inv, DeliveryEnds(delivered)
  PROVE  Inv'
<1> USE ApprovalAssumption DEF Inv
<1>1. entry' \in Entries
  <2>1. entry \in Entries /\ now \in 0 .. MaxTime
    BY DEF TypeOK, Entries, Resolvers
  <2> QED
    BY <2>1, ResolvedTyped DEF DeliveryEnds, Expire, Resolvers
<1> USE DEF DeliveryEnds, Told, Listening, Expire, Resolved, asked
<1>2. TypeOK'
  <2>1. promise' \in Decisions \cup {"pending", "null"} /\ answer' \in Decisions \cup {"none", "null"}
    BY DEF TypeOK
  <2>2. /\ unheard' \in BOOLEAN
        /\ handler' \in [at : {"none", "delivering", "awaiting", "done"}, route : BOOLEAN]
    BY Zenon DEF TypeOK
  <2>3. agent' \in {"idle", "registering", "accepted", "waiting", "told", "denied", "invoking",
                    "executed", "refused", "gaveUp"}
    BY DEF TypeOK
  <2> QED
    BY <1>1, <2>1, <2>2, <2>3, Zenon DEF TypeOK, Entries, Resolvers
<1>3. Phases'
  BY DEF TypeOK, Phases, Early
<1>4. Deciding'
  BY DEF TypeOK, Phases, Deciding, NoEntry, Early, Pending, Known
<1>5. Spending'
  BY DEF Phases, Spending, Early, Acting
<1>6. AnswersAgree'
  BY DEF TypeOK, Deciding, AnswersAgree
<1> QED
  BY <1>2, <1>3, <1>4, <1>5, <1>6

(* The final response tells a one-phase client the promise's value. *)
LEMMA AnsweredStep ==
  ASSUME Inv, RequestAnswered
  PROVE  Inv'
<1> USE ApprovalAssumption DEF Inv
<1>1. entry' \in Entries
  <2>1. entry \in Entries /\ now \in 0 .. MaxTime
    BY DEF TypeOK, Entries, Resolvers
  <2> QED
    BY <2>1 DEF RequestAnswered
<1> USE DEF RequestAnswered, Told, Listening, asked
<1>2. TypeOK'
  BY <1>1, Bounds DEF TypeOK
<1>3. Phases'
  BY DEF TypeOK, Phases, Early
<1>4. Deciding'
  BY DEF Phases, Deciding, Early, Pending
<1>5. Spending'
  BY DEF Phases, Spending, Early, Acting, ApprovedByAsk
<1>6. AnswersAgree'
  BY DEF Deciding, AnswersAgree
<1> QED
  BY <1>2, <1>3, <1>4, <1>5, <1>6

(* A wait that finds no entry is told that nothing was decided. *)
LEMMA WaitStep ==
  ASSUME Inv, Wait
  PROVE  Inv'
<1> USE ApprovalAssumption DEF Inv
<1>1. entry' \in Entries
  <2>1. entry \in Entries /\ now \in 0 .. MaxTime
    BY DEF TypeOK, Entries, Resolvers
  <2> QED
    BY <2>1 DEF Wait
<1> USE DEF Wait, Told, asked
<1>2. TypeOK'
  BY <1>1, Bounds DEF TypeOK, Entries, Resolvers
<1>3. Phases'
  BY DEF Phases, Early
<1>4. Deciding'
  BY DEF Deciding, Pending, Known
<1>5. Spending'
  BY DEF Spending, Early, Acting
<1>6. AnswersAgree'
  BY DEF Deciding, AnswersAgree
<1> QED
  BY <1>2, <1>3, <1>4, <1>5, <1>6

(* A wait is told the promise's value. *)
LEMMA WaitAnsweredStep ==
  ASSUME Inv, WaitAnswered
  PROVE  Inv'
<1> USE ApprovalAssumption DEF Inv
<1>1. entry' \in Entries
  <2>1. entry \in Entries /\ now \in 0 .. MaxTime
    BY DEF TypeOK, Entries, Resolvers
  <2> QED
    BY <2>1 DEF WaitAnswered
<1> USE DEF WaitAnswered, Told, asked
<1>2. TypeOK'
  BY <1>1, Bounds DEF TypeOK
<1>3. Phases'
  BY DEF TypeOK, Phases, Early
<1>4. Deciding'
  BY DEF Phases, Deciding, Early, Pending
<1>5. Spending'
  BY DEF Spending, Early, Acting
<1>6. AnswersAgree'
  BY DEF Deciding, AnswersAgree
<1> QED
  BY <1>2, <1>3, <1>4, <1>5, <1>6

(* An agent that gives up has been told nothing and has executed nothing. *)
LEMMA CallFailsStep ==
  ASSUME Inv, CallFails
  PROVE  Inv'
<1> USE ApprovalAssumption DEF Inv
<1>1. entry' \in Entries
  <2>1. entry \in Entries /\ now \in 0 .. MaxTime
    BY DEF TypeOK, Entries, Resolvers
  <2> QED
    BY <2>1 DEF CallFails
<1> USE DEF CallFails, asked
<1>2. TypeOK'
  BY <1>1, Bounds DEF TypeOK
<1>3. Phases'
  BY DEF Phases, Early
<1>4. Deciding'
  BY DEF Deciding, Pending
<1>5. Spending'
  BY DEF Spending, Early, Acting
<1>6. AnswersAgree'
  BY DEF AnswersAgree
<1> QED
  BY <1>2, <1>3, <1>4, <1>5, <1>6

(* The agent acts on its answer once. *)
LEMMA ActStep ==
  ASSUME Inv, Act
  PROVE  Inv'
<1> USE ApprovalAssumption DEF Inv
<1>1. entry' \in Entries
  <2>1. entry \in Entries /\ now \in 0 .. MaxTime
    BY DEF TypeOK, Entries, Resolvers
  <2> QED
    BY <2>1 DEF Act
<1> USE DEF Act, asked
<1>2. TypeOK'
  BY <1>1, Bounds DEF TypeOK, Spending
<1>3. Phases'
  BY DEF Phases, Early
<1>4. Deciding'
  BY DEF Deciding, Pending
<1>5. Spending'
  BY DEF Spending, Early, Acting, ApprovedByAsk
<1>6. AnswersAgree'
  BY DEF AnswersAgree
<1> QED
  BY <1>2, <1>3, <1>4, <1>5, <1>6

(* An invocation uses the approval, however often it arrives. *)
LEMMA InvokeStep ==
  ASSUME Inv, Invoke
  PROVE  Inv'
<1> USE ApprovalAssumption DEF Inv
<1>1. entry' \in Entries
  <2>1. entry \in Entries /\ now \in 0 .. MaxTime
    BY DEF TypeOK, Entries, Resolvers
  <2> QED
    BY <2>1, ConsumedTyped DEF Invoke
<1> USE DEF Invoke, Consumed, Forwarded, asked
<1>2. TypeOK'
  BY <1>1, Bounds DEF TypeOK, Spending
<1>3. Phases'
  BY DEF Phases, Early
<1>4. Deciding'
  BY DEF TypeOK, Deciding, Pending
<1>5. Spending'
  BY DEF TypeOK, Deciding, Spending, Early, Acting, ApprovedByAsk, Allowing
<1>6. AnswersAgree'
  BY DEF AnswersAgree
<1> QED
  BY <1>2, <1>3, <1>4, <1>5, <1>6

(* Time passes. *)
LEMMA AdvanceStep ==
  ASSUME Inv, Advance
  PROVE  Inv'
<1> USE ApprovalAssumption DEF Inv
<1>1. entry' \in Entries
  <2>1. entry \in Entries /\ now \in 0 .. MaxTime
    BY DEF TypeOK, Entries, Resolvers
  <2> QED
    BY <2>1 DEF Advance
<1> USE DEF Advance, asked
<1>2. TypeOK'
  BY <1>1, Bounds DEF TypeOK
<1>3. Phases'
  BY DEF Phases
<1>4. Deciding'
  BY DEF Deciding, Pending
<1>5. Spending'
  BY DEF Spending, ApprovedByAsk
<1>6. AnswersAgree'
  BY DEF AnswersAgree
<1> QED
  BY <1>2, <1>3, <1>4, <1>5, <1>6

(* Nothing happens. *)
LEMMA StutterStep ==
  ASSUME Inv, UNCHANGED vars
  PROVE  Inv'
<1> USE DEF vars, Inv
<1>1. TypeOK' /\ Phases' /\ Deciding'
  BY DEF TypeOK, Phases, Deciding, Pending
<1>2. Spending' /\ AnswersAgree'
  BY DEF Spending, AnswersAgree, ApprovedByAsk
<1> QED
  BY <1>1, <1>2

-----------------------------------------------------------------------------
(* The theorems. *)

LEMMA InvIsInvariant == Spec => []Inv
<1>1. Inv /\ [Next]_vars => Inv'
  <2> SUFFICES ASSUME Inv, [Next]_vars PROVE Inv'
    OBVIOUS
  <2>1. ASSUME \/ ExpiryTimer \/ GraceTimer
               \/ \E d \in Decisions : Resolve(d)
        PROVE  Inv'
    BY <2>1, ExpiryStep, GraceEndsStep, ResolveStep
  <2>2. ASSUME \/ Request \/ RequestAnswered
               \/ \E delivered \in BOOLEAN : DeliveryEnds(delivered)
        PROVE  Inv'
    BY <2>2, RequestStep, AnsweredStep, DeliveryStep
  <2>3. ASSUME Wait \/ WaitAnswered \/ CallFails \/ Act \/ Invoke
        PROVE  Inv'
    BY <2>3, WaitStep, WaitAnsweredStep, CallFailsStep, ActStep, InvokeStep
  <2>4. ASSUME Advance \/ UNCHANGED vars
        PROVE  Inv'
    BY <2>4, AdvanceStep, StutterStep
  <2> QED
    BY <2>1, <2>2, <2>3, <2>4 DEF Next
<1> QED
  BY InitInv, <1>1, PTL DEF Spec

(* The state of an approval has its types, also the clocks of its entry,   *)
(* for every timeout and grace period.                                     *)
THEOREM TypeCorrect == Spec => []TypeOK
<1>1. Inv => TypeOK
  BY DEF Inv
<1> QED
  BY <1>1, InvIsInvariant, PTL

(* What the agent is told is what the approver was told, whichever of the  *)
(* decision, the timers, the handlers and the agent's wait comes first     *)
(* (handlePendingApprovalRequest, handleApprovalWaitDecision).             *)
THEOREM AnswersAlwaysAgree == Spec => []AnswersAgree
<1>1. Inv => AnswersAgree
  BY DEF Inv
<1> QED
  BY <1>1, InvIsInvariant, PTL

(* A command is executed only on an approval given or the fallback that    *)
(* its configuration allows, and an approval for one time is used once,    *)
(* for any number of invocations (consumeAllowOnce).                       *)
THEOREM ExecutionsAreApproved == Spec => []ExecutedAsApproved
<1>1. Inv => ExecutedAsApproved
  <2> SUFFICES ASSUME Inv PROVE ExecutedAsApproved
    OBVIOUS
  <2>1. host \in {"gateway", "node"} /\ uses \in Nat
    BY ApprovalAssumption, Bounds DEF Inv, TypeOK
  <2>2. granted = "allow-once" => uses <= 1
    BY <2>1 DEF Inv, Spending
  <2>3. ASSUME uses > 0
        PROVE  granted \in Allowing \/ (answer = "null" /\ fallback = "full")
    <3>1. ApprovedByAsk
      BY <2>1, <2>3 DEF Inv, Spending, Acting
    <3>2. CASE unheard
      BY <3>1, <3>2 DEF Inv, Deciding, ApprovedByAsk, Allowing
    <3>3. CASE ~ unheard /\ answer \in Allowing
      BY <3>3 DEF Inv, AnswersAgree, Allowing
    <3> QED
      BY <3>1, <3>2, <3>3 DEF Inv, TypeOK, ApprovedByAsk
  <2> QED
    BY <2>2, <2>3 DEF ExecutedAsApproved
<1> QED
  BY <1>1, InvIsInvariant, PTL
=============================================================================

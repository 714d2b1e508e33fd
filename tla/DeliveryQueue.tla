---------------------------- MODULE DeliveryQueue ----------------------------
(***************************************************************************)
(* The write-ahead queue of outbound deliveries (src/infra/outbound/).     *)
(* deliverOutboundPayloads writes a file before it sends and removes it    *)
(* when the send has ended; each start of the gateway replays what is left *)
(* on disk, and a drain replays the deliveries that met no listener when   *)
(* the channel reconnects.                                                 *)
(*                                                                         *)
(* The actors are the live deliveries (an actor has its delivery's id) and *)
(* the workers: one recovery per start of the gateway, and the drain.  The *)
(* directory outlives a crash, the rest does not.  An in-process restart   *)
(* starts a recovery while the actors of the previous life go on.          *)
(*                                                                         *)
(* Ids are in the order of enqueuedAt.  Left out: payloads, time (a        *)
(* backoff or the recovery's budget may be over at any moment), errors of  *)
(* the file system other than a missing file and a failing first write,    *)
(* and legacy entries.  A scan of the directory is one step: two           *)
(* deliveries share nothing, so a later read of one of them is a scan that *)
(* happened later.                                                         *)
(***************************************************************************)
EXTENDS Naturals, FiniteSets

CONSTANTS
  N,            \* the number of deliveries
  Leftover,     \* deliveries an earlier process has left in the queue
  BestEffort,   \* deliveries in best-effort mode
  Watched,      \* deliveries whose live caller passes onError
  Recoveries,   \* a recovery for each start of the gateway
  Drains,       \* a drain for each time an account of the channel reconnects
  OnAccount,    \* OnAccount[w]: the deliveries of the account of drain w
  MAX_RETRIES,  \* failures after which an entry is given up
  MaxCrashes    \* bound: crashes of the process

Deliveries == 1 .. N
Workers == Recoveries \cup Drains
Actors == Deliveries \cup Workers

ASSUME DeliveryAssumption ==
  /\ N \in Nat /\ MAX_RETRIES \in Nat /\ MaxCrashes \in Nat
  /\ {Leftover, BestEffort} \subseteq SUBSET Deliveries
  /\ Watched \subseteq Deliveries
  /\ OnAccount \in [Drains -> SUBSET Deliveries]
  /\ Recoveries \cap Drains = {}
  /\ Workers \cap Deliveries = {}
  /\ 0 \notin Workers

VARIABLES
  disk,     \* disk[d]: which files of d exist
  entry,    \* entry[d]: what d's .json file says, NewEntry if there is none
  actors,   \* actors[a]: what the async function a is doing
  updates,  \* calls of failDelivery in progress
  entriesInProgress,  \* the claims of the workers
  up,       \* the process runs
  crashes,  \* counter for the bound
  accepted, \* history: deliveries that were written before their send
  settled,  \* history: deliveries sent in full, or aborted by the caller
  closed    \* history: deliveries that had no .json file at some crash

vars == <<disk, entry, actors, updates, entriesInProgress, up, crashes, accepted, settled, closed>>

(* The errors that matter: that the account has no listener, and others. *)
Errors(d) == {"other"} \cup {"no listener" : w \in {v \in Drains : d \in OnAccount[v]}}

NewEntry == [retryCount |-> 0, tried |-> FALSE, lastError |-> "none"]

(* The entries a worker has read and has not looked at yet, by id. *)
Nothing == [d \in {} |-> NewEntry]

(* `id' is the delivery in an actor's hands, 0 for none; `queued' says     *)
(* that a live delivery has a file.                                        *)
Rest(pc) == [pc |-> pc, id |-> 0, queued |-> FALSE, pending |-> Nothing]

(* What an earlier process may have left in the file of a delivery. *)
Tried(n, error) == [retryCount |-> n, tried |-> TRUE, lastError |-> error]
LeftEntries(d) == {NewEntry} \cup {Tried(n, error) : n \in 1 .. MAX_RETRIES, error \in Errors(d)}

Init ==
  /\ disk = [d \in Deliveries |-> IF d \in Leftover THEN {"json"} ELSE {}]
  /\ entry \in [Deliveries -> UNION {LeftEntries(d) : d \in Deliveries}]
  /\ \A d \in Deliveries :
       entry[d] \in IF d \in Leftover THEN LeftEntries(d) ELSE {NewEntry}
  /\ actors = [a \in Actors |-> Rest(IF a \in Leftover THEN "over" ELSE "new")]
  /\ updates = {}
  /\ entriesInProgress = {}
  /\ up = FALSE
  /\ crashes = 0
  /\ accepted = Leftover
  /\ settled = {} /\ closed = {}

Goto(a, pc) == actors' = [actors EXCEPT ![a].pc = pc]

(* Fault: the claim of an entry that was given up is not released. *)
FaultClaimKept(a, id) ==
  /\ actors' = [actors EXCEPT ![a] = IF a \in Deliveries THEN Rest("over")
                                     ELSE [actors[a] EXCEPT !.pc = "next", !.id = 0]]
  /\ entriesInProgress' = IF a \in Workers /\ actors[a].pc # "moving"
                          THEN entriesInProgress \ {id} ELSE entriesInProgress

(* An actor is done with the delivery it has in hand: a live delivery      *)
(* returns or throws, a worker releases its claim and goes on.             *)
Finish(a, id) ==
  /\ actors' = [actors EXCEPT ![a] = IF a \in Deliveries THEN Rest("over")
                                     ELSE [actors[a] EXCEPT !.pc = "next", !.id = 0]]
  /\ entriesInProgress' = IF a \in Workers THEN entriesInProgress \ {id}
                          ELSE entriesInProgress

-----------------------------------------------------------------------------
(* The files of a delivery. *)

(* ackDelivery, phase 1: the rename that makes the delivery complete.  If  *)
(* the entry is gone, a marker that was left is removed and that is all.   *)
AckRename(a) ==
  LET d == actors[a].id
  IN /\ actors[a].pc = "ack"
     /\ IF "json" \in disk[d]
        THEN /\ disk' = [disk EXCEPT ![d] = (@ \ {"json"}) \cup {"delivered"}]
             /\ entry' = [entry EXCEPT ![d] = NewEntry]
             /\ Goto(a, "unlink")
             /\ UNCHANGED entriesInProgress
        ELSE /\ disk' = [disk EXCEPT ![d] = @ \ {"delivered"}]
             /\ Finish(a, d)
             /\ UNCHANGED entry
     /\ UNCHANGED <<updates, up, crashes, accepted, settled, closed>>

(* ackDelivery, phase 2. *)
AckUnlink(a) ==
  LET d == actors[a].id
  IN /\ actors[a].pc = "unlink"
     /\ disk' = [disk EXCEPT ![d] = @ \ {"delivered"}]
     /\ Finish(a, d)
     /\ UNCHANGED <<entry, updates, up, crashes, accepted, settled, closed>>

(* moveToFailed; the callers ignore that the entry is gone. *)
MoveToFailed(a) ==
  LET d == actors[a].id
  IN /\ actors[a].pc = "moving"
     /\ disk' = [disk EXCEPT ![d] = IF "json" \in @ THEN (@ \ {"json"}) \cup {"failed"} ELSE @]
     /\ entry' = [entry EXCEPT ![d] = NewEntry]
     /\ Finish(a, d)
     /\ UNCHANGED <<updates, up, crashes, accepted, settled, closed>>

(* A call of failDelivery(id, error) by `by'; `read' is the entry it has   *)
(* read, NoRead before.  Fault: the id is the caller's.                    *)
NoRead == [NewEntry EXCEPT !.lastError = "not read"]
FaultUpdateOfCaller(a, d, error) == [by |-> a, id |-> a, error |-> error, read |-> NoRead]
Update(a, d, error) == [by |-> a, id |-> d, error |-> error, read |-> NoRead]

(* The caller of an update goes on when its last update has ended. *)
UpdateEnds(u) ==
  IF \E v \in updates \ {u} : v.by = u.by
  THEN UNCHANGED <<actors, entriesInProgress>>
  ELSE Finish(u.by, actors[u.by].id)

(* failDelivery reads the entry; if it is gone it throws and the caller    *)
(* swallows that.                                                          *)
FailRead(u) ==
  /\ u.read = NoRead
  /\ IF "json" \in disk[u.id]
     THEN /\ updates' = (updates \ {u}) \cup {[u EXCEPT !.read = entry[u.id]]}
          /\ UNCHANGED <<actors, entriesInProgress>>
     ELSE /\ updates' = updates \ {u}
          /\ UpdateEnds(u)
  /\ UNCHANGED <<disk, entry, up, crashes, accepted, settled, closed>>

(* Then it writes what it has read, one failure up, whatever has become of *)
(* the entry in between.                                                   *)
FailWrite(u) ==
  /\ u.read # NoRead
  /\ disk' = [disk EXCEPT ![u.id] = @ \cup {"json"}]
  /\ entry' = [entry EXCEPT ![u.id] =
       Tried(u.read.retryCount + 1, u.error)]
  /\ updates' = updates \ {u}
  /\ UpdateEnds(u)
  /\ UNCHANGED <<up, crashes, accepted, settled, closed>>

-----------------------------------------------------------------------------
(* Sending. *)

(* deliverOutboundPayloads: the entry is written first; if that fails the  *)
(* delivery goes on without it.                                            *)
EnqueueDelivery(d, written) ==
  /\ up
  /\ actors[d].pc = "new"
  /\ \A c \in Deliveries : c < d => actors[c].pc # "new"
  /\ actors' = [actors EXCEPT ![d] = [Rest("sending") EXCEPT !.id = d, !.queued = written]]
  /\ disk' = [disk EXCEPT ![d] = IF written THEN {"json"} ELSE {}]
  /\ entry' = [entry EXCEPT ![d] = NewEntry]
  /\ accepted' = IF written THEN accepted \cup {d} ELSE accepted
  /\ UNCHANGED <<updates, entriesInProgress, up, crashes, settled, closed>>

(* How the channel's part ends: every payload sent; some payload failed in *)
(* best-effort mode, which does not throw; or an error.                    *)
Outcomes(d) ==
  {"sent", "aborted", "permanent", "other"}
    \cup (IF d \in BestEffort THEN {"partial"} ELSE {})
    \cup (Errors(d) \ {"other"})

(* Fault: a final error is acknowledged like a send. *)
FaultAckPermanent(a, d, outcome) ==
  \/ outcome \in {"sent", "permanent"}
  \/ outcome = "aborted" /\ a \in Deliveries
  \/ outcome = "partial" /\ ~ (a \in Deliveries /\ d \in Watched)

(* Which outcomes an actor acknowledges.  A partial failure is seen only   *)
(* through the onError of the live caller; a replay passes none.  An abort *)
(* ends a live delivery; in a replay it is an error like any other.        *)
Acknowledges(a, d, outcome) ==
  \/ outcome = "sent"
  \/ outcome = "aborted" /\ a \in Deliveries
  \/ outcome = "partial" /\ ~ (a \in Deliveries /\ d \in Watched)

(* Errors that a replay takes as final. *)
GivesUp(a, outcome) == a \in Workers /\ outcome = "permanent"

SendEnds(a, outcome) ==
  LET d == actors[a].id
      filed == a \in Workers \/ actors[a].queued
  IN /\ actors[a].pc = "sending"
     /\ outcome \in Outcomes(d)
     /\ IF ~ filed
        THEN Finish(a, d) /\ UNCHANGED updates
        ELSE /\ IF Acknowledges(a, d, outcome)
                THEN Goto(a, "ack") /\ UNCHANGED updates
                ELSE IF GivesUp(a, outcome)
                THEN Goto(a, "moving") /\ UNCHANGED updates
                ELSE /\ Goto(a, "failing")
                     /\ updates' = updates \cup
                          {Update(a, d, IF outcome = "no listener" THEN outcome ELSE "other")}
             /\ UNCHANGED entriesInProgress
     /\ settled' = IF outcome = "sent" \/ (outcome = "aborted" /\ a \in Deliveries)
                   THEN settled \cup {d} ELSE settled
     /\ UNCHANGED <<disk, entry, up, crashes, accepted, closed>>

-----------------------------------------------------------------------------
(* The workers. *)

(* The gateway starts: a fresh process, or the next life of this one.  Any *)
(* recovery may be the next, so one is chosen.                             *)
StartGateway(r) ==
  /\ actors[r].pc = "new"
  /\ r = CHOOSE q \in Recoveries : actors[q].pc = "new"
  /\ up' = TRUE
  /\ Goto(r, "load")
  /\ UNCHANGED <<disk, entry, updates, entriesInProgress, crashes, accepted, settled, closed>>

(* drainReconnectQueue, unless one is in progress for the account. *)
StartReconnect(w) ==
  /\ up
  /\ actors[w].pc = "new"
  /\ \A v \in Drains : OnAccount[v] = OnAccount[w] => actors[v].pc \in {"new", "over"}
  /\ Goto(w, "load")
  /\ UNCHANGED <<disk, entry, updates, entriesInProgress, up, crashes, accepted, settled, closed>>

(* Fault: the scan takes markers for entries. *)
FaultMatchMarkers(w) ==
  {d \in Deliveries : disk[d] \cap {"json", "delivered"} # {}}

Matching(w) ==
  {d \in Deliveries :
     /\ "json" \in disk[d]
     /\ w \in Drains => d \in OnAccount[w] /\ entry[d].lastError = "no listener"}

(* loadPendingDeliveries: markers that were left are removed and the       *)
(* entries are read.                                                       *)
LoadPendingDeliveries(w) ==
  /\ actors[w].pc = "load"
  /\ disk' = [d \in Deliveries |-> disk[d] \ {"delivered"}]
  /\ actors' = [actors EXCEPT ![w] =
       [Rest("next") EXCEPT !.pending = [d \in Matching(w) |-> entry[d]]]]
  /\ UNCHANGED <<entry, updates, entriesInProgress, up, crashes, accepted, settled, closed>>

(* The next entry of the loop. *)
Heads(w) == {d \in DOMAIN actors[w].pending : \A c \in DOMAIN actors[w].pending : d <= c}
Without(w, d) == [c \in DOMAIN actors[w].pending \ {d} |-> actors[w].pending[c]]

(* Fault: the backoff holds for entries never tried as well. *)
FaultBackoffAlways(w, e) == w \notin Drains

(* isEntryEligibleForRecoveryRetry may refuse an entry, but not the first  *)
(* replay after a crash; the drain does not ask.                           *)
MayBeDeferred(w, e) == w \notin Drains /\ (e.retryCount > 0 \/ e.tried)

(* The entry is skipped: not eligible yet, or claimed by another worker. *)
SkipEntry(w) ==
  \E d \in Heads(w) :
    LET e == actors[w].pending[d]
    IN /\ actors[w].pc = "next"
       /\ \/ e.retryCount < MAX_RETRIES /\ MayBeDeferred(w, e)
          \/ d \in entriesInProgress
       /\ actors' = [actors EXCEPT ![w].pending = Without(w, d)]
       /\ UNCHANGED <<disk, entry, updates, entriesInProgress, up, crashes, accepted, settled, closed>>

(* Fault: the worker does not ask for the claim. *)
FaultNoClaim(d) == TRUE

Claimable(d) == d \notin entriesInProgress

(* claimRecoveryEntry, and what the entry calls for by the copy the worker *)
(* has read: to be given up or to be sent.                                 *)
TakeEntry(w) ==
  \E d \in Heads(w) :
    LET e == actors[w].pending[d]
    IN /\ actors[w].pc = "next"
       /\ Claimable(d)
       /\ entriesInProgress' = entriesInProgress \cup {d}
       /\ actors' = [actors EXCEPT ![w].pending = Without(w, d), ![w].id = d,
            ![w].pc = IF e.retryCount >= MAX_RETRIES THEN "moving" ELSE "sending"]
       /\ UNCHANGED <<disk, entry, updates, up, crashes, accepted, settled, closed>>

(* The recovery's time budget is over: deferRemainingEntriesForBudget      *)
(* counts a failure on every entry that is left, claimed or not.           *)
DeferRemaining(w) ==
  /\ actors[w].pc = "next"
  /\ w \notin Drains
  /\ actors[w].pending # Nothing
  /\ actors' = [actors EXCEPT ![w].pc = "failing", ![w].pending = Nothing]
  /\ updates' = updates \cup {Update(w, d, "other") : d \in DOMAIN actors[w].pending}
  /\ UNCHANGED <<disk, entry, entriesInProgress, up, crashes, accepted, settled, closed>>

EndWorker(w) ==
  /\ actors[w].pc = "next"
  /\ actors[w].pending = Nothing
  /\ actors' = [actors EXCEPT ![w] = Rest("over")]
  /\ UNCHANGED <<disk, entry, updates, entriesInProgress, up, crashes, accepted, settled, closed>>

-----------------------------------------------------------------------------
(* The process dies at any point: a send that was on its way may or may    *)
(* not have reached the recipient.                                         *)
Crash(arrived) ==
  /\ up
  /\ crashes < MaxCrashes
  /\ arrived \subseteq {actors[a].id : a \in {b \in Actors : actors[b].pc = "sending"}}
  /\ crashes' = crashes + 1
  /\ up' = FALSE
  /\ actors' = [a \in Actors |-> Rest(IF actors[a].pc = "new" THEN "new" ELSE "over")]
  /\ updates' = {}
  /\ entriesInProgress' = {}
  /\ settled' = settled \cup arrived
  /\ closed' = closed \cup {d \in accepted : "json" \notin disk[d]}
  /\ UNCHANGED <<disk, entry, accepted>>

ActorStep(a) ==
  \/ \E outcome \in {"sent", "partial", "aborted", "permanent", "no listener", "other"} :
       SendEnds(a, outcome)
  \/ AckRename(a)
  \/ AckUnlink(a)
  \/ MoveToFailed(a)
  \/ \E u \in updates : u.by = a /\ (FailRead(u) \/ FailWrite(u))

WorkerStep(w) ==
  \/ LoadPendingDeliveries(w)
  \/ SkipEntry(w)
  \/ TakeEntry(w)
  \/ DeferRemaining(w)
  \/ EndWorker(w)

Next ==
  \/ \E d \in Deliveries, written \in BOOLEAN : EnqueueDelivery(d, written)
  \/ \E a \in Actors : ActorStep(a)
  \/ \E r \in Recoveries : StartGateway(r)
  \/ \E w \in Drains : StartReconnect(w)
  \/ \E w \in Workers : WorkerStep(w)
  \/ \E arrived \in SUBSET Deliveries : Crash(arrived)

(* The event loop runs what is ready, and a channel's send ends; what is   *)
(* asked of the system needs that of the workers only, and a worker ends   *)
(* after finitely many steps, so fairness to them together is enough.      *)
Fairness == WF_vars(\E w \in Workers : ActorStep(w) \/ WorkerStep(w))

Spec == Init /\ [][Next]_vars /\ Fairness

-----------------------------------------------------------------------------
(* Properties. *)

Entries == [retryCount : Nat, tried : BOOLEAN, lastError : {"none", "no listener", "other", "not read"}]
Pcs == {"new", "load", "next", "sending", "ack", "unlink", "moving", "failing", "over"}

TypeOK ==
  /\ disk \in [Deliveries -> SUBSET {"json", "delivered", "failed"}]
  /\ entry \in [Deliveries -> Entries]
  /\ DOMAIN actors = Actors
  /\ \A a \in Actors :
       /\ actors[a].pc \in Pcs
       /\ actors[a].id \in Deliveries \cup {0}
       /\ actors[a].queued \in BOOLEAN
       /\ \A d \in DOMAIN actors[a].pending :
            d \in Deliveries /\ actors[a].pending[d] \in Entries
  /\ updates \subseteq [by : Actors, id : Deliveries, error : {"no listener", "other"}, read : Entries]
  /\ entriesInProgress \subseteq Deliveries
  /\ up \in BOOLEAN
  /\ crashes \in 0 .. MaxCrashes
  /\ {accepted, settled, closed} \subseteq SUBSET Deliveries

(* A delivery is lost when neither the queue nor failed/ has it any more,  *)
(* although the recipient has not got it and no caller has aborted it.     *)
Lost(d) == disk[d] \cap {"json", "failed"} = {} /\ d \notin settled

(* A delivery that was written and is not in best-effort mode is never     *)
(* lost: not by a crash at any point of a send or of an acknowledgement,   *)
(* and not by a replay that runs at the same time as the live delivery.    *)
NothingLost == \A d \in accepted \ BestEffort : ~ Lost(d)

(* Two workers never replay one delivery at the same time.                 *)
ReplaysExclusive ==
  \A v, w \in Workers :
    v # w /\ actors[v].id # 0 => actors[v].id # actors[w].id

(* The claims are those of the deliveries in the workers' hands: none      *)
(* leaks, on any way out of the loop's body, to make later recoveries skip *)
(* the delivery for the rest of the process's life.                        *)
ClaimsAreHeld ==
  entriesInProgress = {actors[w].id : w \in Workers} \ {0}

(* What the process had acknowledged or given up when it crashed, be it    *)
(* by the rename alone, is never sent again.                               *)
AckSurvivesCrash ==
  \A w \in Workers : actors[w].pc = "sending" => actors[w].id \notin closed

(* A delivery that an earlier process left behind before its first failure *)
(* is attempted, or counted as deferred, once a worker has read it,        *)
(* whatever the other workers do, unless the process crashes again.        *)
LeftBehind(d) ==
  \E w \in Workers :
    /\ d \in DOMAIN actors[w].pending
    /\ ~ actors[w].pending[d].tried
Untried(d) == "json" \in disk[d] /\ ~ entry[d].tried
LeftoversAreTried ==
  \A d \in Leftover : LeftBehind(d) ~> ~ (up /\ Untried(d))

=============================================================================

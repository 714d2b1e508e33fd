------------------------- MODULE DeliveryQueue_proofs -------------------------
(***************************************************************************)
(* Proofs about the delivery queue, for all deliveries, recoveries, drains *)
(* and numbers of crashes: what was written is not lost, two workers never *)
(* replay one delivery, claims do not leak, and what had been acknowledged *)
(* when the process crashed stays so.                                      *)
(*                                                                         *)
(* The claims are right because an actor has a delivery in its hands just  *)
(* in the states in which it works on one (Hands), and because only the    *)
(* caller of an update goes on when it ends (Updating).  A delivery is not *)
(* lost because whoever acknowledges has seen it sent (Acked).  And what   *)
(* was acknowledged when the process crashed is buried: no file, no copy   *)
(* that a worker has read and no update could bring it back (Buried).      *)
(***************************************************************************)
EXTENDS DeliveryQueue, TLAPS

Pendings == UNION {[S -> Entries] : S \in SUBSET Deliveries}

ActorRecords == [pc : Pcs, id : Deliveries \cup {0}, queued : BOOLEAN, pending : Pendings]
UpdateRecords == [by : Actors, id : Deliveries, error : {"no listener", "other"}, read : Entries]

Typed ==
  /\ disk \in [Deliveries -> SUBSET {"json", "delivered", "failed"}]
  /\ entry \in [Deliveries -> Entries]
  /\ actors \in [Actors -> ActorRecords]
  /\ updates \subseteq UpdateRecords
  /\ entriesInProgress \subseteq Deliveries
  /\ up \in BOOLEAN
  /\ crashes \in 0 .. MaxCrashes
  /\ {accepted, settled, closed} \subseteq SUBSET Deliveries

Resting == {"new", "load", "next", "over"}
Working == {"sending", "ack", "unlink", "moving"}

Hands ==
  \A a \in Actors :
    /\ actors[a].pc \in Resting => actors[a].id = 0
    /\ actors[a].pc \in Working => actors[a].id # 0

Updating == \A u \in updates : actors[u.by].pc = "failing"

(* A delivery that has not begun has never been written. *)
NewOnes == \A d \in Deliveries : actors[d].pc = "new" => d \notin accepted

Acked ==
  \A a \in Actors : actors[a].pc \in {"ack", "unlink"} => actors[a].id \in settled \cup BestEffort

Buried ==
  /\ closed \subseteq accepted
  /\ \A d \in closed :
       /\ "json" \notin disk[d]
       /\ \A a \in Actors : actors[a].id # d /\ d \notin DOMAIN actors[a].pending
       /\ \A u \in updates : u.id # d

Inv ==
  /\ Typed /\ Hands /\ Updating /\ NewOnes /\ Acked /\ Buried
  /\ ReplaysExclusive /\ ClaimsAreHeld /\ NothingLost
-----------------------------------------------------------------------------
(* What the steps do to an actor.                                          *)

(* The actor a goes to pc with id in its hands; what it remembers to have  *)
(* read it has read before, or reads now.                                  *)
Moved(a, pc, id) ==
  /\ actors' \in [Actors -> ActorRecords]
  /\ \A b \in Actors : b # a => actors'[b] = actors[b]
  /\ actors'[a].pc = pc /\ actors'[a].id = id
  /\ \A d \in DOMAIN actors'[a].pending :
       d \in DOMAIN actors[a].pending \/ (d \in Deliveries /\ "json" \in disk[d])

(* It puts down what it has in its hands, and the claim if it is a worker. *)
Finished(a) ==
  /\ \E pc \in {"over", "next"} : Moved(a, pc, 0)
  /\ entriesInProgress' = IF a \in Workers THEN entriesInProgress \ {actors[a].id}
                          ELSE entriesInProgress

LEMMA Sorts ==
  /\ \A d \in Deliveries : d \in Actors /\ d # 0 /\ d \notin Workers
  /\ \A w \in Workers : w \in Actors /\ w # 0
  /\ \A a \in Actors : a \in Deliveries \/ a \in Workers
  BY DeliveryAssumption DEF Deliveries, Actors

LEMMA Records ==
  /\ NewEntry \in Entries /\ NoRead \in Entries
  /\ Nothing \in Pendings /\ DOMAIN Nothing = {}
  /\ \A pc \in Pcs : Rest(pc) \in ActorRecords /\ Rest(pc).pc = pc /\ Rest(pc).id = 0
                     /\ Rest(pc).pending = Nothing
  /\ Pcs = Resting \cup Working \cup {"failing"}
<1>1. NewEntry \in Entries /\ NoRead \in Entries
  BY DEF NewEntry, NoRead, Entries
<1>2. Nothing \in [{} -> Entries] /\ DOMAIN Nothing = {}
  BY DEF Nothing
<1>3. Nothing \in Pendings
  BY <1>2 DEF Pendings
<1>4. \A pc \in Pcs : Rest(pc) \in ActorRecords /\ Rest(pc).pc = pc /\ Rest(pc).id = 0
                      /\ Rest(pc).pending = Nothing
  BY <1>3 DEF Rest, ActorRecords
<1>5. Pcs = Resting \cup Working \cup {"failing"}
  BY DEF Pcs, Resting, Working
<1> QED
  BY <1>1, <1>2, <1>3, <1>4, <1>5

LEMMA GotoMoves ==
  ASSUME Typed, NEW a \in Actors, NEW pc \in Pcs, Goto(a, pc)
  PROVE  Moved(a, pc, actors[a].id)
  BY DEF Typed, Goto, Moved, ActorRecords

LEMMA FinishMoves ==
  ASSUME Typed, NEW a \in Actors, Finish(a, actors[a].id)
  PROVE  Finished(a)
<1>1. CASE a \in Deliveries
  <2>1. actors' = [actors EXCEPT ![a] = Rest("over")] /\ "over" \in Pcs
    BY <1>1 DEF Finish, Pcs
  <2>2. Moved(a, "over", 0)
    BY <2>1, Records DEF Typed, Moved
  <2> QED
    BY <2>2 DEF Finish, Finished
<1>2. CASE a \notin Deliveries
  <2>1. actors' = [actors EXCEPT ![a] = [actors[a] EXCEPT !.pc = "next", !.id = 0]]
        /\ "next" \in Pcs
    BY <1>2 DEF Finish, Pcs
  <2>2. Moved(a, "next", 0)
    BY <2>1 DEF Typed, Moved, ActorRecords
  <2> QED
    BY <2>2 DEF Finish, Finished
<1> QED
  BY <1>1, <1>2

-----------------------------------------------------------------------------
(* A step is one actor's, and it begins a delivery, takes one in its       *)
(* hands, goes on with what it has, or puts it down.                       *)

Owned(a) ==
  /\ updates' \subseteq UpdateRecords
  /\ \A u \in updates' :
       /\ \/ u.by = a /\ actors'[a].pc = "failing"
          \/ u.by # a /\ \E v \in updates : v.by = u.by
       /\ \/ u.id = actors[a].id
          \/ u.id \in DOMAIN actors[a].pending
          \/ \E v \in updates : v.id = u.id

Begun(d) ==
  /\ d \in Deliveries /\ actors[d].pc = "new" /\ Moved(d, "sending", d)
  /\ UNCHANGED entriesInProgress /\ accepted' \in {accepted, accepted \cup {d}}

Taken(w) ==
  /\ w \in Workers /\ actors[w].pc = "next"
  /\ \E d \in DOMAIN actors[w].pending, pc \in {"moving", "sending"} :
       d \in Deliveries \ entriesInProgress /\ entriesInProgress' = entriesInProgress \cup {d}
       /\ Moved(w, pc, d)
  /\ UNCHANGED accepted

Gone(a) ==
  /\ \E pc \in Pcs \ {"new"} :
       /\ Moved(a, pc, actors[a].id)
       /\ pc \in Resting => actors[a].id = 0
       /\ pc \in Working => actors[a].id # 0
       /\ pc \in {"ack", "unlink"} => actors[a].id \in settled' \cup BestEffort
  /\ UNCHANGED <<entriesInProgress, accepted>>

Put(a) == Finished(a) /\ UNCHANGED accepted

Stepped(a) ==
  /\ Begun(a) \/ Taken(a) \/ Gone(a) \/ Put(a)
  /\ Owned(a)
  /\ settled \subseteq settled' /\ settled' \subseteq Deliveries
  /\ UNCHANGED <<closed, crashes>>

LEMMA OwnedUnchanged ==
  ASSUME Inv, NEW a \in Actors, actors[a].pc # "failing", UNCHANGED updates
  PROVE  Owned(a)
  BY DEF Inv, Typed, Updating, Owned

(* The update u ends, and its caller goes on unless it has another one.    *)
LEMMA EndedUpdate ==
  ASSUME Inv, NEW u \in updates, UpdateEnds(u), updates' = updates \ {u},
         UNCHANGED <<settled, accepted, closed, crashes>>
  PROVE  \/ Stepped(u.by)
         \/ UNCHANGED <<actors, entriesInProgress>>
<1> USE DEF Inv
<1>1. u.by \in Actors /\ updates \subseteq UpdateRecords /\ Typed
  BY DEF Typed, UpdateRecords
<1>2. CASE \E v \in updates \ {u} : v.by = u.by
  BY <1>2 DEF UpdateEnds
<1>3. CASE ~ \E v \in updates \ {u} : v.by = u.by
  <2>1. Finish(u.by, actors[u.by].id)
    BY <1>3 DEF UpdateEnds
  <2>2. Finished(u.by)
    BY <1>1, <2>1, FinishMoves
  <2>3. Owned(u.by)
    BY <1>1, <1>3 DEF Owned
  <2>4. settled \subseteq Deliveries
    BY DEF Typed
  <2> QED
    BY <2>2, <2>3, <2>4 DEF Stepped, Put
<1> QED
  BY <1>2, <1>3

LEMMA EnqueueSteps ==
  ASSUME Inv, NEW d \in Deliveries, NEW written \in BOOLEAN, EnqueueDelivery(d, written)
  PROVE  Stepped(d)
<1> USE DEF Inv
<1>1. d \in Actors /\ actors[d].pc = "new" /\ Typed
  BY Sorts DEF EnqueueDelivery
<1>2. [Rest("sending") EXCEPT !.id = d, !.queued = written] \in ActorRecords
  BY Records DEF ActorRecords, Rest, Pcs
<1>3. Moved(d, "sending", d)
  BY <1>1, <1>2, Records DEF EnqueueDelivery, Typed, Moved, Rest
<1>4. Owned(d)
  BY <1>1, OwnedUnchanged DEF EnqueueDelivery
<1>5. UNCHANGED <<entriesInProgress, settled, closed, crashes>>
      /\ accepted' \in {accepted, accepted \cup {d}}
  BY DEF EnqueueDelivery
<1>6. settled \subseteq Deliveries
  BY DEF Typed
<1> QED
  BY <1>1, <1>3, <1>4, <1>5, <1>6 DEF Stepped, Begun

LEMMA SendSteps ==
  ASSUME Inv, NEW a \in Actors, NEW outcome, SendEnds(a, outcome)
  PROVE  Stepped(a)
<1> USE DEF Inv
<1> DEFINE d == actors[a].id
<1>1. actors[a].pc = "sending" /\ d # 0 /\ d \in Deliveries /\ Typed
  BY DEF SendEnds, Hands, Working, Typed, ActorRecords
<1>2. /\ settled' \in {settled, settled \cup {d}}
      /\ outcome = "sent" \/ (outcome = "aborted" /\ a \in Deliveries) => d \in settled'
      /\ UNCHANGED <<accepted, closed, crashes>>
  BY DEF SendEnds
<1>3. settled \subseteq settled' /\ settled' \subseteq Deliveries
  BY <1>1, <1>2 DEF Typed
<1>4. {"ack", "moving", "failing"} \subseteq Pcs \ {"new"}
  BY DEF Pcs
<1>5. CASE Finish(a, d) /\ UNCHANGED updates
  <2>1. Finished(a) /\ Owned(a)
    BY <1>1, <1>5, FinishMoves, OwnedUnchanged
  <2> QED
    BY <1>2, <1>3, <2>1 DEF Stepped, Put
<1>6. CASE Goto(a, "ack") /\ UNCHANGED <<updates, entriesInProgress>>
           /\ Acknowledges(a, d, outcome) /\ outcome \in Outcomes(d)
  <2>1. Moved(a, "ack", d) /\ Owned(a)
    BY <1>1, <1>4, <1>6, GotoMoves, OwnedUnchanged
  <2>2. d \in settled' \cup BestEffort
    BY <1>2, <1>6 DEF Acknowledges, Outcomes, Errors
  <2> QED
    BY <1>1, <1>2, <1>3, <1>4, <1>6, <2>1, <2>2 DEF Stepped, Gone, Resting
<1>7. CASE Goto(a, "moving") /\ UNCHANGED <<updates, entriesInProgress>>
  <2>1. Moved(a, "moving", d) /\ Owned(a)
    BY <1>1, <1>4, <1>7, GotoMoves, OwnedUnchanged
  <2> QED
    BY <1>1, <1>2, <1>3, <1>4, <1>7, <2>1 DEF Stepped, Gone, Resting
<1>8. CASE /\ Goto(a, "failing") /\ UNCHANGED entriesInProgress
           /\ \E error \in {"no listener", "other"} : updates' = updates \cup {Update(a, d, error)}
  <2>1. Moved(a, "failing", d) /\ a \in Actors
    BY <1>1, <1>4, <1>8, GotoMoves
  <2>2. PICK error \in {"no listener", "other"} : updates' = updates \cup {Update(a, d, error)}
    BY <1>8
  <2>3. Update(a, d, error) \in UpdateRecords /\ Update(a, d, error).by = a
        /\ Update(a, d, error).id = d
    BY <1>1, Records DEF Update, UpdateRecords
  <2>4. \A u \in updates : u.by # a
    BY <1>1 DEF Updating
  <2>5. Owned(a)
    BY <1>1, <2>1, <2>2, <2>3, <2>4 DEF Owned, Moved, Typed
  <2> QED
    BY <1>1, <1>2, <1>3, <1>4, <1>8, <2>1, <2>5 DEF Stepped, Gone, Resting, Working
<1> QED
  BY <1>5, <1>6, <1>7, <1>8 DEF SendEnds

LEMMA AckSteps ==
  ASSUME Inv, NEW a \in Actors, AckRename(a) \/ AckUnlink(a) \/ MoveToFailed(a)
  PROVE  Stepped(a) /\ actors[a].id \in Deliveries
<1> USE DEF Inv
<1> DEFINE d == actors[a].id
<1>1. /\ actors[a].pc \in {"ack", "unlink", "moving"} /\ d # 0 /\ d \in Deliveries
      /\ Typed /\ settled \subseteq Deliveries
  BY DEF AckRename, AckUnlink, MoveToFailed, Hands, Working, Typed, ActorRecords
<1>2. UNCHANGED <<updates, accepted, settled, closed, crashes>>
  BY DEF AckRename, AckUnlink, MoveToFailed
<1>3. Owned(a)
  BY <1>1, <1>2, OwnedUnchanged
<1>4. CASE Finish(a, d)
  <2>1. Finished(a)
    BY <1>1, <1>4, FinishMoves
  <2> QED
    BY <1>1, <1>2, <1>3, <2>1 DEF Stepped, Put
<1>5. CASE actors[a].pc = "ack" /\ Goto(a, "unlink") /\ UNCHANGED entriesInProgress
  <2>1. "unlink" \in Pcs \ {"new"}
    BY DEF Pcs
  <2>2. Moved(a, "unlink", d)
    BY <1>1, <1>5, <2>1, GotoMoves
  <2>3. d \in settled \cup BestEffort
    BY <1>5 DEF Acked
  <2> QED
    BY <1>1, <1>2, <1>3, <1>5, <2>1, <2>2, <2>3 DEF Stepped, Gone, Resting
<1> QED
  BY <1>1, <1>4, <1>5 DEF AckRename, AckUnlink, MoveToFailed

LEMMA StartSteps ==
  ASSUME Inv, NEW w \in Workers, StartGateway(w) \/ StartReconnect(w)
  PROVE  Stepped(w)
<1> USE DEF Inv
<1>1. /\ w \in Actors /\ actors[w].pc = "new" /\ Goto(w, "load") /\ Typed
      /\ settled \subseteq Deliveries
      /\ UNCHANGED <<updates, entriesInProgress, accepted, settled, closed, crashes>>
  BY Sorts DEF StartGateway, StartReconnect, Typed
<1>2. "load" \in Pcs \ {"new"} /\ "load" \notin Working /\ actors[w].id = 0
  BY <1>1 DEF Pcs, Working, Hands, Resting
<1>3. Moved(w, "load", actors[w].id) /\ Owned(w)
  BY <1>1, <1>2, GotoMoves, OwnedUnchanged
<1> QED
  BY <1>1, <1>2, <1>3 DEF Stepped, Gone

(* What a worker has read, and what is left of it. *)
LEMMA PendingTyped ==
  ASSUME Typed, NEW w \in Workers
  PROVE  /\ DOMAIN actors[w].pending \subseteq Deliveries
         /\ \A d : Without(w, d) \in Pendings
                   /\ DOMAIN Without(w, d) = DOMAIN actors[w].pending \ {d}
         /\ [d \in Matching(w) |-> entry[d]] \in Pendings
<1>1. actors[w].pending \in Pendings
  BY Sorts DEF Typed, ActorRecords
<1>2. PICK S \in SUBSET Deliveries : actors[w].pending \in [S -> Entries]
  BY <1>1 DEF Pendings
<1>3. ASSUME NEW d
      PROVE  Without(w, d) \in Pendings /\ DOMAIN Without(w, d) = DOMAIN actors[w].pending \ {d}
  <2>1. Without(w, d) \in [S \ {d} -> Entries] /\ S \ {d} \in SUBSET Deliveries
    BY <1>2 DEF Without
  <2> QED
    BY <1>2, <2>1 DEF Pendings
<1>4. [d \in Matching(w) |-> entry[d]] \in [Matching(w) -> Entries]
      /\ Matching(w) \in SUBSET Deliveries
  BY DEF Matching, Typed
<1> QED
  BY <1>2, <1>3, <1>4 DEF Pendings

LEMMA PendingMoves ==
  ASSUME Typed, NEW w \in Actors, NEW p \in Pendings, DOMAIN p \subseteq DOMAIN actors[w].pending,
         NEW pc \in Pcs, NEW id \in Deliveries \cup {0}
  PROVE  /\ actors' = [actors EXCEPT ![w].pending = p] => Moved(w, actors[w].pc, actors[w].id)
         /\ actors' = [actors EXCEPT ![w].pc = pc, ![w].pending = p] =>
              Moved(w, pc, actors[w].id)
         /\ actors' = [actors EXCEPT ![w].pending = p, ![w].id = id, ![w].pc = pc] =>
              Moved(w, pc, id)
<1>1. actors \in [Actors -> ActorRecords]
  BY DEF Typed
<1>2. ASSUME actors' = [actors EXCEPT ![w].pending = p]
      PROVE  Moved(w, actors[w].pc, actors[w].id)
  BY <1>1, <1>2 DEF Moved, ActorRecords
<1>3. ASSUME actors' = [actors EXCEPT ![w].pc = pc, ![w].pending = p]
      PROVE  Moved(w, pc, actors[w].id)
  BY <1>1, <1>3 DEF Moved, ActorRecords
<1>4. ASSUME actors' = [actors EXCEPT ![w].pending = p, ![w].id = id, ![w].pc = pc]
      PROVE  Moved(w, pc, id)
  BY <1>1, <1>4 DEF Moved, ActorRecords
<1> QED
  BY <1>2, <1>3, <1>4

LEMMA WorkerSteps ==
  ASSUME Inv, NEW w \in Workers, WorkerStep(w)
  PROVE  Stepped(w)
<1> USE DEF Inv
<1>1. /\ w \in Actors /\ Typed /\ settled \subseteq Deliveries
      /\ DOMAIN actors[w].pending \subseteq Deliveries
      /\ {"next", "sending", "moving", "failing", "over"} \subseteq Pcs \ {"new"}
      /\ "over" \in Resting /\ "next" \in Resting /\ "load" \in Resting
      /\ "over" \notin Working /\ "next" \notin Working /\ "failing" \notin Working
      /\ "failing" \notin Resting
  BY Sorts, PendingTyped DEF Pcs, Typed, Resting, Working
<1>2. CASE LoadPendingDeliveries(w)
  <2> DEFINE read == [d \in Matching(w) |-> entry[d]]
  <2>1. /\ actors[w].pc = "load" /\ actors[w].id = 0
        /\ UNCHANGED <<updates, entriesInProgress, accepted, settled, closed, crashes>>
    BY <1>1, <1>2 DEF LoadPendingDeliveries, Hands
  <2>2. actors' = [actors EXCEPT ![w] = [Rest("next") EXCEPT !.pending = read]]
    BY <1>2 DEF LoadPendingDeliveries
  <2>3. read \in Pendings /\ \A d \in DOMAIN read : d \in Deliveries /\ "json" \in disk[d]
    BY PendingTyped DEF Matching
  <2> HIDE DEF read
  <2>4. [Rest("next") EXCEPT !.pending = read] \in ActorRecords
    BY <1>1, <2>3, Records DEF Rest, ActorRecords
  <2>5. Moved(w, "next", 0)
    BY <1>1, <2>2, <2>3, <2>4 DEF Typed, Moved, Rest
  <2>6. Owned(w)
    BY <1>1, <2>1, OwnedUnchanged
  <2> QED
    BY <1>1, <2>1, <2>5, <2>6 DEF Stepped, Gone
<1>3. CASE SkipEntry(w)
  <2>1. /\ actors[w].pc = "next" /\ actors[w].id = 0
        /\ UNCHANGED <<updates, entriesInProgress, accepted, settled, closed, crashes>>
    BY <1>1, <1>3 DEF SkipEntry, Hands
  <2>2. PICK d \in Heads(w) : actors' = [actors EXCEPT ![w].pending = Without(w, d)]
    BY <1>3 DEF SkipEntry
  <2>3. Moved(w, "next", 0)
    <3>1. Without(w, d) \in Pendings /\ DOMAIN Without(w, d) \subseteq DOMAIN actors[w].pending
      BY <1>1, PendingTyped
    <3> QED
      BY <1>1, <2>1, <2>2, <3>1, PendingMoves
  <2>4. Owned(w)
    BY <1>1, <2>1, OwnedUnchanged
  <2> QED
    BY <1>1, <2>1, <2>3, <2>4 DEF Stepped, Gone
<1>4. CASE TakeEntry(w)
  <2>1. /\ actors[w].pc = "next"
        /\ UNCHANGED <<updates, accepted, settled, closed, crashes>>
    BY <1>4 DEF TakeEntry
  <2>2. PICK d \in Heads(w), pc \in {"moving", "sending"} :
          /\ d \notin entriesInProgress /\ entriesInProgress' = entriesInProgress \cup {d}
          /\ actors' = [actors EXCEPT ![w].pending = Without(w, d), ![w].id = d, ![w].pc = pc]
    BY <1>4 DEF TakeEntry, Claimable
  <2>3. d \in DOMAIN actors[w].pending /\ d \in Deliveries
    BY <1>1 DEF Heads
  <2>4. Moved(w, pc, d)
    <3>1. Without(w, d) \in Pendings /\ DOMAIN Without(w, d) \subseteq DOMAIN actors[w].pending
      BY <1>1, PendingTyped
    <3> QED
      BY <1>1, <2>2, <2>3, <3>1, PendingMoves
  <2>5. Owned(w)
    BY <1>1, <2>1, OwnedUnchanged
  <2> QED
    BY <1>1, <2>1, <2>2, <2>3, <2>4, <2>5 DEF Stepped, Taken
<1>5. CASE DeferRemaining(w)
  <2>1. /\ actors[w].pc = "next" /\ actors[w].id = 0
        /\ UNCHANGED <<entriesInProgress, accepted, settled, closed, crashes>>
    BY <1>1, <1>5 DEF DeferRemaining, Hands
  <2>2. actors' = [actors EXCEPT ![w].pc = "failing", ![w].pending = Nothing]
    BY <1>5 DEF DeferRemaining
  <2>3. Moved(w, "failing", 0)
    <3>1. Nothing \in Pendings /\ DOMAIN Nothing \subseteq DOMAIN actors[w].pending
      BY Records
    <3> QED
      BY <1>1, <2>1, <2>2, <3>1, PendingMoves
  <2>4. ASSUME NEW u \in updates', u \notin updates
        PROVE  u \in UpdateRecords /\ u.by = w /\ u.id \in DOMAIN actors[w].pending
    <3>1. PICK d \in DOMAIN actors[w].pending : u = Update(w, d, "other")
      BY <1>5, <2>4 DEF DeferRemaining
    <3> QED
      BY <1>1, <3>1, Records DEF Update, UpdateRecords
  <2>5. updates' \subseteq UpdateRecords /\ \A u \in updates : u.by # w
    BY <1>1, <2>1, <2>4 DEF Typed, Updating
  <2>6. Owned(w)
    BY <2>3, <2>4, <2>5 DEF Owned, Moved
  <2> QED
    BY <1>1, <2>1, <2>3, <2>6 DEF Stepped, Gone
<1>6. CASE EndWorker(w)
  <2>1. /\ actors[w].pc = "next" /\ actors[w].id = 0
        /\ UNCHANGED <<updates, entriesInProgress, accepted, settled, closed, crashes>>
    BY <1>1, <1>6 DEF EndWorker, Hands
  <2>2. actors' = [actors EXCEPT ![w] = Rest("over")]
    BY <1>6 DEF EndWorker
  <2>3. Moved(w, "over", 0)
    BY <1>1, <2>2, Records DEF Typed, Moved
  <2>4. Owned(w)
    BY <1>1, <2>1, OwnedUnchanged
  <2> QED
    BY <1>1, <2>1, <2>3, <2>4 DEF Stepped, Gone
<1> QED
  BY <1>2, <1>3, <1>4, <1>5, <1>6 DEF WorkerStep

Still ==
  /\ UNCHANGED <<actors, entriesInProgress, accepted, settled, closed, crashes>>
  /\ updates' \subseteq UpdateRecords
  /\ \A u \in updates' : \E v \in updates : v.by = u.by /\ v.id = u.id

LEMMA UpdateSteps ==
  ASSUME Inv, NEW u \in updates, FailRead(u) \/ FailWrite(u)
  PROVE  Stepped(u.by) \/ Still
<1> USE DEF Inv
<1>1. updates \subseteq UpdateRecords /\ UNCHANGED <<accepted, settled, closed, crashes>>
  BY DEF Typed, FailRead, FailWrite
<1>2. CASE updates' = updates \ {u} /\ UpdateEnds(u)
  <2>1. Stepped(u.by) \/ UNCHANGED <<actors, entriesInProgress>>
    BY <1>1, <1>2, EndedUpdate
  <2> QED
    BY <1>1, <1>2, <2>1 DEF Still
<1>3. CASE /\ updates' = (updates \ {u}) \cup {[u EXCEPT !.read = entry[u.id]]}
           /\ UNCHANGED <<actors, entriesInProgress>>
  <2>1. /\ [u EXCEPT !.read = entry[u.id]] \in UpdateRecords
        /\ [u EXCEPT !.read = entry[u.id]].by = u.by /\ [u EXCEPT !.read = entry[u.id]].id = u.id
    BY <1>1 DEF UpdateRecords, Typed
  <2> QED
    BY <1>1, <1>3, <2>1 DEF Still
<1> QED
  BY <1>2, <1>3 DEF FailRead, FailWrite

LEMMA Steps ==
  ASSUME Inv, [Next]_vars
  PROVE  \/ \E a \in Actors : Stepped(a)
         \/ Still
         \/ \E arrived \in SUBSET Deliveries : Crash(arrived)
<1> USE DEF Inv
<1>1. ASSUME NEW d \in Deliveries, NEW written \in BOOLEAN, EnqueueDelivery(d, written)
      PROVE  \E a \in Actors : Stepped(a)
  BY <1>1, EnqueueSteps, Sorts
<1>2. ASSUME NEW a \in Actors, ActorStep(a)
      PROVE  (\E b \in Actors : Stepped(b)) \/ Still
  <2>1. ASSUME NEW outcome, SendEnds(a, outcome)
        PROVE  Stepped(a)
    BY <2>1, SendSteps
  <2>2. CASE AckRename(a) \/ AckUnlink(a) \/ MoveToFailed(a)
    BY <2>2, AckSteps
  <2>3. CASE \E u \in updates : u.by = a /\ (FailRead(u) \/ FailWrite(u))
    BY <2>3, UpdateSteps
  <2> QED
    BY <1>2, <2>1, <2>2, <2>3 DEF ActorStep
<1>3. ASSUME NEW w \in Workers, StartGateway(w) \/ StartReconnect(w) \/ WorkerStep(w)
      PROVE  \E a \in Actors : Stepped(a)
  BY <1>3, StartSteps, WorkerSteps, Sorts
<1>4. CASE UNCHANGED vars
  BY <1>4 DEF vars, Still, Typed
<1>5. \A w \in Recoveries \cup Drains : w \in Workers
  BY DEF Workers
<1> QED
  BY <1>1, <1>2, <1>3, <1>4, <1>5 DEF Next

(* What the steps do to the files: an entry comes into being when a        *)
(* delivery begins, or when an update is written; it goes when the         *)
(* delivery was sent, or to failed/.                                       *)
Filed ==
  /\ disk' \in [Deliveries -> SUBSET {"json", "delivered", "failed"}]
  /\ entry' \in [Deliveries -> Entries]
  /\ \A d \in Deliveries :
       /\ "json" \in disk'[d] =>
            "json" \in disk[d] \/ (\E u \in updates : u.id = d) \/ actors[d].pc = "new"
       /\ disk[d] \cap {"json", "failed"} # {} =>
            \/ disk'[d] \cap {"json", "failed"} # {}
            \/ d \in settled \cup BestEffort \/ actors[d].pc = "new"
       /\ d \in accepted' \ accepted => "json" \in disk'[d]

LEMMA FileSteps ==
  ASSUME Inv, [Next]_vars
  PROVE  Filed
<1> USE DEF Inv
<1>1. /\ disk \in [Deliveries -> SUBSET {"json", "delivered", "failed"}]
      /\ entry \in [Deliveries -> Entries] /\ NewEntry \in Entries
  BY Records DEF Typed
<1>2. ASSUME NEW d \in Deliveries, NEW written \in BOOLEAN, EnqueueDelivery(d, written)
      PROVE  Filed
  BY <1>1, <1>2 DEF EnqueueDelivery, Filed
<1>3. CASE UNCHANGED <<disk, entry, accepted>>
  BY <1>1, <1>3 DEF Filed
<1>4. ASSUME NEW a \in Actors, AckRename(a)
      PROVE  Filed
  <2>1. PICK d \in Deliveries : d = actors[a].id /\ d \in settled \cup BestEffort
    BY <1>4, AckSteps DEF AckRename, Acked
  <2>2. UNCHANGED accepted
    BY <1>4 DEF AckRename
  <2>3. CASE "json" \in disk[d]
    <3>1. /\ disk' = [disk EXCEPT ![d] = (@ \ {"json"}) \cup {"delivered"}]
          /\ entry' = [entry EXCEPT ![d] = NewEntry]
      BY <1>4, <2>1, <2>3 DEF AckRename
    <3> QED
      BY <1>1, <2>1, <2>2, <3>1 DEF Filed
  <2>4. CASE "json" \notin disk[d]
    <3>1. disk' = [disk EXCEPT ![d] = @ \ {"delivered"}] /\ UNCHANGED entry
      BY <1>4, <2>1, <2>4 DEF AckRename
    <3> QED
      BY <1>1, <2>1, <2>2, <3>1 DEF Filed
  <2> QED
    BY <2>3, <2>4
<1>5. ASSUME NEW a \in Actors, AckUnlink(a)
      PROVE  Filed
  <2>1. PICK d \in Deliveries : d = actors[a].id
    BY <1>5, AckSteps
  <2>2. disk' = [disk EXCEPT ![d] = @ \ {"delivered"}] /\ UNCHANGED <<entry, accepted>>
    BY <1>5, <2>1 DEF AckUnlink
  <2> QED
    BY <1>1, <2>1, <2>2 DEF Filed
<1>6. ASSUME NEW a \in Actors, MoveToFailed(a)
      PROVE  Filed
  <2>1. PICK d \in Deliveries : d = actors[a].id
    BY <1>6, AckSteps
  <2>2. /\ disk' = [disk EXCEPT ![d] =
                      IF "json" \in @ THEN (@ \ {"json"}) \cup {"failed"} ELSE @]
        /\ entry' = [entry EXCEPT ![d] = NewEntry] /\ UNCHANGED accepted
    BY <1>6, <2>1 DEF MoveToFailed
  <2> QED
    BY <1>1, <2>1, <2>2 DEF Filed
<1>7. ASSUME NEW u \in updates, FailRead(u) \/ FailWrite(u)
      PROVE  Filed
  <2>1. u \in UpdateRecords
    BY DEF Typed
  <2>2. CASE FailRead(u)
    BY <1>3, <2>2 DEF FailRead
  <2>3. CASE FailWrite(u)
    <3>1. Tried(u.read.retryCount + 1, u.error) \in Entries
      <4>1. u.read.retryCount \in Nat /\ u.error \in {"no listener", "other"}
        BY <2>1 DEF UpdateRecords, Entries
      <4>2. \A n \in Nat : n + 1 \in Nat
        OBVIOUS
      <4>3. \A n \in Nat : Tried(n, u.error) \in Entries
        BY <4>1 DEF Tried, Entries
      <4> QED
        BY <4>1, <4>2, <4>3
    <3>2. /\ disk' = [disk EXCEPT ![u.id] = @ \cup {"json"}]
          /\ entry' = [entry EXCEPT ![u.id] = Tried(u.read.retryCount + 1, u.error)]
          /\ u.id \in Deliveries /\ UNCHANGED accepted
      BY <2>1, <2>3 DEF FailWrite, UpdateRecords
    <3> QED
      BY <1>1, <3>1, <3>2 DEF Filed
  <2> QED
    BY <1>7, <2>2, <2>3
<1>8. ASSUME NEW w \in Workers, WorkerStep(w) \/ StartGateway(w) \/ StartReconnect(w)
      PROVE  Filed
  <2>1. CASE LoadPendingDeliveries(w)
    <3>1. /\ disk' = [d \in Deliveries |-> disk[d] \ {"delivered"}]
          /\ UNCHANGED <<entry, accepted>>
      BY <2>1 DEF LoadPendingDeliveries
    <3> QED
      BY <1>1, <3>1 DEF Filed
  <2>2. ~ LoadPendingDeliveries(w) => UNCHANGED <<disk, entry, accepted>>
    BY <1>8 DEF WorkerStep, SkipEntry, TakeEntry, DeferRemaining, EndWorker, StartGateway,
                StartReconnect
  <2> QED
    BY <1>3, <2>1, <2>2
<1>9. ASSUME NEW a, NEW outcome, SendEnds(a, outcome)
      PROVE  UNCHANGED <<disk, entry, accepted>>
  BY <1>9 DEF SendEnds
<1>10. ASSUME NEW arrived, Crash(arrived)
       PROVE  UNCHANGED <<disk, entry, accepted>>
  BY <1>10 DEF Crash
<1>11. CASE UNCHANGED vars
  BY <1>3, <1>11 DEF vars
<1> QED
  BY <1>2, <1>3, <1>4, <1>5, <1>6, <1>7, <1>8, <1>9, <1>10, <1>11 DEF Next, ActorStep, Workers

-----------------------------------------------------------------------------
(* The invariant, conjunct by conjunct. *)

(* A crash leaves nobody with anything in its hands. *)
LEMMA AfterCrash ==
  ASSUME Inv, NEW arrived \in SUBSET Deliveries, Crash(arrived)
  PROVE  /\ actors' \in [Actors -> ActorRecords]
         /\ \A a \in Actors : /\ actors'[a].pc \in {"new", "over"} /\ actors'[a].id = 0
                              /\ actors'[a].pc = "new" => actors[a].pc = "new"
                              /\ DOMAIN actors'[a].pending = {}
         /\ updates' = {} /\ entriesInProgress' = {} /\ UNCHANGED <<disk, accepted>>
         /\ settled \subseteq settled' /\ settled' \subseteq Deliveries
         /\ closed' = closed \cup {d \in accepted : "json" \notin disk[d]}
         /\ crashes' \in 0 .. MaxCrashes
<1> USE DEF Inv
<1>1. /\ "new" \in Pcs /\ "over" \in Pcs
      /\ \A a \in Actors :
           actors'[a] = Rest("over") \/ (actors'[a] = Rest("new") /\ actors[a].pc = "new")
      /\ actors' = [a \in Actors |-> Rest(IF actors[a].pc = "new" THEN "new" ELSE "over")]
  BY DEF Crash, Pcs
<1>2. /\ actors' \in [Actors -> ActorRecords]
      /\ \A a \in Actors : /\ actors'[a].pc \in {"new", "over"} /\ actors'[a].id = 0
                           /\ actors'[a].pc = "new" => actors[a].pc = "new"
                           /\ DOMAIN actors'[a].pending = {}
  BY <1>1, Records
<1>3. crashes \in 0 .. MaxCrashes /\ MaxCrashes \in Nat /\ settled \subseteq Deliveries
  BY DeliveryAssumption DEF Typed
<1>4. crashes' \in 0 .. MaxCrashes
  BY <1>3 DEF Crash
<1> QED
  BY <1>2, <1>3, <1>4 DEF Crash

LEMMA StepTyped ==
  ASSUME Inv, [Next]_vars
  PROVE  Typed'
<1> USE DEF Inv
<1>1. /\ disk' \in [Deliveries -> SUBSET {"json", "delivered", "failed"}]
      /\ entry' \in [Deliveries -> Entries]
  BY FileSteps DEF Filed
<1>2. up' \in BOOLEAN
  BY DEF Typed, Next, EnqueueDelivery, ActorStep, SendEnds, AckRename, AckUnlink, MoveToFailed,
         FailRead, FailWrite, StartGateway, StartReconnect, WorkerStep, LoadPendingDeliveries,
         SkipEntry, TakeEntry, DeferRemaining, EndWorker, Crash, vars
<1>3. /\ actors' \in [Actors -> ActorRecords]
      /\ updates' \subseteq UpdateRecords
      /\ entriesInProgress' \subseteq Deliveries
      /\ crashes' \in 0 .. MaxCrashes
      /\ accepted' \subseteq Deliveries /\ settled' \subseteq Deliveries /\ closed' \subseteq Deliveries
  <2>1. CASE \E a \in Actors : Stepped(a)
    <3>1. PICK a \in Actors : Stepped(a)
      BY <2>1
    <3>2. actors' \in [Actors -> ActorRecords]
      BY <3>1 DEF Stepped, Begun, Taken, Gone, Put, Finished, Moved
    <3>3. entriesInProgress' \subseteq Deliveries /\ accepted' \subseteq Deliveries
      BY <3>1 DEF Stepped, Begun, Taken, Gone, Put, Finished, Typed
    <3> QED
      BY <3>1, <3>2, <3>3 DEF Stepped, Owned, Typed
  <2>2. CASE Still
    BY <2>2 DEF Still, Typed
  <2>3. CASE \E arrived \in SUBSET Deliveries : Crash(arrived)
    BY <2>3, AfterCrash DEF Typed
  <2> QED
    BY <2>1, <2>2, <2>3, Steps
<1> QED
  BY <1>1, <1>2, <1>3 DEF Typed

LEMMA StepHands ==
  ASSUME Inv, [Next]_vars
  PROVE  Hands' /\ Updating' /\ NewOnes' /\ Acked'
<1> USE DEF Inv
<1>1. CASE \E a \in Actors : Stepped(a)
  <2>1. PICK a \in Actors : Stepped(a)
    BY <1>1
  <2>2. PICK pc \in Pcs \ {"new"}, id \in Deliveries \cup {0} :
          /\ Moved(a, pc, id)
          /\ pc \in Resting => id = 0
          /\ pc \in Working => id # 0
          /\ pc \in {"ack", "unlink"} => id \in settled' \cup BestEffort
    <3>1. /\ {"sending", "moving", "over", "next"} \subseteq Pcs \ {"new"}
          /\ {"sending", "moving"} \cap Resting = {} /\ {"over", "next"} \cap Working = {}
      BY DEF Pcs, Resting, Working
    <3>2. actors[a].id \in Deliveries \cup {0}
      BY DEF Typed, ActorRecords
    <3>3. CASE Begun(a)
      BY <3>1, <3>3, Sorts DEF Begun
    <3>4. CASE Taken(a)
      BY <3>1, <3>4, Sorts DEF Taken
    <3>5. CASE Gone(a)
      BY <3>2, <3>5 DEF Gone
    <3>6. CASE Put(a)
      BY <3>1, <3>6 DEF Put, Finished
    <3> QED
      BY <2>1, <3>3, <3>4, <3>5, <3>6 DEF Stepped
  <2>3. Hands'
    BY <2>2 DEF Hands, Moved
  <2>4. Updating'
    <3>1. ASSUME NEW u \in updates'
          PROVE  actors'[u.by].pc = "failing"
      <4>1. CASE u.by = a /\ actors'[a].pc = "failing"
        BY <4>1
      <4>2. CASE u.by # a /\ \E v \in updates : v.by = u.by
        <5>1. u.by \in Actors /\ actors[u.by].pc = "failing"
          BY <4>2 DEF Updating, Typed, UpdateRecords
        <5> QED
          BY <2>2, <4>2, <5>1 DEF Moved
      <4> QED
        BY <2>1, <4>1, <4>2 DEF Stepped, Owned
    <3> QED
      BY <3>1 DEF Updating
  <2>5. NewOnes'
    <3>1. ASSUME NEW d \in Deliveries, actors'[d].pc = "new"
          PROVE  d \notin accepted'
      <4>1. d # a /\ actors[d].pc = "new"
        BY <2>2, <3>1, Sorts DEF Moved
      <4> QED
        BY <2>1, <4>1 DEF NewOnes, Stepped, Begun, Taken, Gone, Put
    <3> QED
      BY <3>1 DEF NewOnes
  <2>6. Acked'
    BY <2>1, <2>2 DEF Acked, Moved, Stepped
  <2> QED
    BY <2>3, <2>4, <2>5, <2>6
<1>2. CASE Still
  BY <1>2 DEF Still, Hands, Updating, NewOnes, Acked
<1>3. CASE \E arrived \in SUBSET Deliveries : Crash(arrived)
  <2>1. PICK arrived \in SUBSET Deliveries : Crash(arrived)
    BY <1>3
  <2>2. Hands' /\ Updating' /\ Acked'
    BY <2>1, AfterCrash DEF Hands, Updating, Acked, Resting, Working
  <2>3. NewOnes'
    BY <2>1, AfterCrash, Sorts DEF NewOnes
  <2> QED
    BY <2>2, <2>3
<1> QED
  BY <1>1, <1>2, <1>3, Steps

LEMMA StepBuried ==
  ASSUME Inv, [Next]_vars
  PROVE  Buried'
<1> USE DEF Inv
<1>1. closed \subseteq accepted /\ accepted \subseteq Deliveries /\ accepted \subseteq accepted'
  <2>1. accepted \subseteq accepted'
    BY Steps, AfterCrash DEF Stepped, Begun, Taken, Gone, Put, Still
  <2> QED
    BY <2>1 DEF Buried, Typed
<1>2. ASSUME NEW d \in closed
      PROVE  "json" \notin disk'[d]
  BY <1>1, <1>2, FileSteps DEF Filed, Buried, NewOnes
<1>3. CASE \E a \in Actors : Stepped(a)
  <2>1. PICK a \in Actors : Stepped(a)
    BY <1>3
  <2>2. PICK pc \in Pcs, id \in Deliveries \cup {0} :
          /\ Moved(a, pc, id)
          /\ \/ id \in {0, actors[a].id} \/ id \in DOMAIN actors[a].pending
             \/ id \in Deliveries /\ actors[id].pc = "new"
    <3>1. {"sending", "moving", "over", "next"} \subseteq Pcs
      BY DEF Pcs
    <3>2. actors[a].id \in Deliveries \cup {0}
      BY DEF Typed, ActorRecords
    <3>3. CASE Begun(a)
      BY <3>1, <3>3 DEF Begun
    <3>4. CASE Taken(a)
      BY <3>1, <3>4 DEF Taken
    <3>5. CASE Gone(a)
      BY <3>2, <3>5 DEF Gone
    <3>6. CASE Put(a)
      BY <3>1, <3>6 DEF Put, Finished
    <3> QED
      BY <2>1, <3>3, <3>4, <3>5, <3>6 DEF Stepped
  <2>3. ASSUME NEW d \in closed
        PROVE  /\ \A b \in Actors : actors'[b].id # d /\ d \notin DOMAIN actors'[b].pending
               /\ \A u \in updates' : u.id # d
    <3>1. /\ "json" \notin disk[d] /\ d \in Deliveries /\ d # 0 /\ actors[d].pc # "new"
          /\ \A b \in Actors : actors[b].id # d /\ d \notin DOMAIN actors[b].pending
          /\ \A u \in updates : u.id # d
      BY <1>1, Sorts DEF Buried, NewOnes
    <3>2. actors'[a].id # d /\ d \notin DOMAIN actors'[a].pending
      BY <2>2, <3>1 DEF Moved
    <3>3. \A b \in Actors : actors'[b].id # d /\ d \notin DOMAIN actors'[b].pending
      BY <2>2, <3>1, <3>2 DEF Moved
    <3>4. \A u \in updates' : u.id # d
      BY <2>1, <3>1 DEF Stepped, Owned
    <3> QED
      BY <3>3, <3>4
  <2>4. closed' = closed
    BY <2>1 DEF Stepped
  <2> QED
    BY <1>1, <1>2, <2>3, <2>4 DEF Buried
<1>4. CASE Still
  <2>1. \A d \in closed : \A u \in updates' : u.id # d
    BY <1>4 DEF Still, Buried
  <2> QED
    BY <1>1, <1>2, <1>4, <2>1 DEF Still, Buried
<1>5. CASE \E arrived \in SUBSET Deliveries : Crash(arrived)
  <2>1. PICK arrived \in SUBSET Deliveries : Crash(arrived)
    BY <1>5
  <2>2. closed' \subseteq accepted' /\ \A d \in closed' : "json" \notin disk'[d] /\ d # 0
    BY <1>1, <2>1, AfterCrash, Sorts DEF Buried
  <2> QED
    BY <2>1, <2>2, AfterCrash DEF Buried
<1> QED
  BY <1>3, <1>4, <1>5, Steps

(* A worker takes what nobody has, and puts down only what it has itself. *)
LEMMA StepClaims ==
  ASSUME Inv, [Next]_vars
  PROVE  ReplaysExclusive' /\ ClaimsAreHeld'
<1> USE DEF Inv
<1>1. entriesInProgress = {actors[w].id : w \in Workers} \ {0}
  BY DEF ClaimsAreHeld
<1>2. \A v, w \in Workers : v # w /\ actors[v].id # 0 => actors[v].id # actors[w].id
  BY DEF ReplaysExclusive
<1>3. SUFFICES /\ \A v, w \in Workers :
                    v # w /\ actors'[v].id # 0 => actors'[v].id # actors'[w].id
               /\ entriesInProgress' = {actors'[w].id : w \in Workers} \ {0}
  BY DEF ReplaysExclusive, ClaimsAreHeld
<1>4. CASE UNCHANGED entriesInProgress /\ \A w \in Workers : actors'[w].id = actors[w].id
  BY <1>1, <1>2, <1>4
<1>5. CASE \E a \in Actors : Stepped(a)
  <2>1. PICK a \in Actors : Stepped(a)
    BY <1>5
  <2>2. CASE Begun(a)
    BY <1>4, <2>2, Sorts DEF Begun, Moved
  <2>3. CASE Taken(a)
    <3>1. PICK d \in Deliveries \ entriesInProgress, pc \in {"moving", "sending"} :
            entriesInProgress' = entriesInProgress \cup {d} /\ Moved(a, pc, d)
      BY <2>3 DEF Taken
    <3>2. /\ a \in Workers /\ actors[a].id = 0 /\ d # 0 /\ actors'[a].id = d
          /\ \A w \in Workers : w # a => actors'[w].id = actors[w].id
          /\ \A w \in Workers : actors[w].id # d
      BY <1>1, <2>3, <3>1, Sorts DEF Taken, Hands, Resting, Moved
    <3>3. entriesInProgress' = {actors'[w].id : w \in Workers} \ {0}
      BY <1>1, <3>1, <3>2
    <3> QED
      BY <1>2, <3>2, <3>3
  <2>4. CASE Gone(a)
    BY <1>4, <2>4, Sorts DEF Gone, Moved
  <2>5. CASE Put(a)
    <3>1. /\ actors'[a].id = 0 /\ \A b \in Actors : b # a => actors'[b] = actors[b]
          /\ entriesInProgress' = IF a \in Workers THEN entriesInProgress \ {actors[a].id}
                                  ELSE entriesInProgress
      BY <2>5 DEF Put, Finished, Moved
    <3>2. CASE a \notin Workers
      BY <1>4, <3>1, <3>2, Sorts
    <3>3. CASE a \in Workers
      <4>1. /\ entriesInProgress' = entriesInProgress \ {actors[a].id}
            /\ \A w \in Workers : w # a => actors'[w].id = actors[w].id
        BY <3>1, <3>3, Sorts
      <4>2. \A w \in Workers : w # a /\ actors[w].id # 0 => actors[w].id # actors[a].id
        BY <1>2, <3>3
      <4>3. entriesInProgress' = {actors'[w].id : w \in Workers} \ {0}
        BY <1>1, <3>1, <3>3, <4>1, <4>2
      <4> QED
        BY <1>2, <3>1, <4>1, <4>3
    <3> QED
      BY <3>2, <3>3
  <2> QED
    BY <2>1, <2>2, <2>3, <2>4, <2>5 DEF Stepped
<1>6. CASE Still
  BY <1>4, <1>6 DEF Still
<1>7. CASE \E arrived \in SUBSET Deliveries : Crash(arrived)
  BY <1>7, AfterCrash, Sorts
<1> QED
  BY <1>5, <1>6, <1>7, Steps

LEMMA StepLost ==
  ASSUME Inv, [Next]_vars
  PROVE  NothingLost'
<1> USE DEF Inv
<1>1. /\ accepted' \subseteq Deliveries /\ settled \subseteq settled'
      /\ disk \in [Deliveries -> SUBSET {"json", "delivered", "failed"}]
  BY Steps, StepTyped, AfterCrash DEF Stepped, Still, Typed
<1>2. ASSUME NEW d \in accepted' \ BestEffort
      PROVE  disk'[d] \cap {"json", "failed"} # {} \/ d \in settled'
  <2>1. CASE d \in accepted
    BY <1>1, <1>2, <2>1, FileSteps DEF Filed, NewOnes, NothingLost, Lost
  <2>2. CASE d \notin accepted
    BY <1>1, <1>2, <2>2, FileSteps DEF Filed
  <2> QED
    BY <2>1, <2>2
<1> QED
  BY <1>2 DEF NothingLost, Lost

LEMMA InitInv ==
  Init => Inv
<1> SUFFICES ASSUME Init
             PROVE  Inv
  OBVIOUS
<1>1. /\ "new" \in Pcs /\ "over" \in Pcs
      /\ \A a \in Actors : actors[a] = Rest("over") \/ (actors[a] = Rest("new") /\ a \notin Leftover)
      /\ actors = [a \in Actors |-> Rest(IF a \in Leftover THEN "over" ELSE "new")]
  BY DEF Init, Pcs
<1>2. actors \in [Actors -> ActorRecords]
  BY <1>1, Records
<1>3. \A a \in Actors : /\ actors[a].pc \in {"new", "over"} /\ actors[a].id = 0
                        /\ actors[a].pc = "new" => a \notin Leftover
                        /\ DOMAIN actors[a].pending = {}
  BY <1>1, Records
<1>4. entry \in [Deliveries -> Entries]
  <2>1. \A d \in Deliveries : LeftEntries(d) \subseteq Entries
    <3>1. \A n \in 1 .. MAX_RETRIES : n \in Nat
      BY DeliveryAssumption
    <3>2. \A d \in Deliveries : Errors(d) \subseteq {"no listener", "other"}
      BY DEF Errors
    <3>3. \A n \in Nat, error \in {"no listener", "other"} : Tried(n, error) \in Entries
      BY DEF Tried, Entries
    <3>4. ASSUME NEW d \in Deliveries, NEW n \in 1 .. MAX_RETRIES, NEW error \in Errors(d)
          PROVE  Tried(n, error) \in Entries
      BY <3>1, <3>2, <3>3
    <3> QED
      BY <3>4, Records DEF LeftEntries
  <2> QED
    BY <2>1 DEF Init
<1>5. Typed
  <2>1. disk \in [Deliveries -> SUBSET {"json", "delivered", "failed"}]
    BY DEF Init
  <2>2. crashes \in 0 .. MaxCrashes
    BY DeliveryAssumption DEF Init
  <2>3. {accepted, settled, closed} \subseteq SUBSET Deliveries
    BY DeliveryAssumption DEF Init
  <2> QED
    BY <1>2, <1>4, <2>1, <2>2, <2>3 DEF Init, Typed
<1>6. Hands /\ Updating /\ NewOnes /\ Acked /\ Buried
  BY <1>3, Sorts DEF Init, Hands, Updating, NewOnes, Acked, Buried, Resting, Working
<1>7. ReplaysExclusive /\ ClaimsAreHeld
  BY <1>3, Sorts DEF Init, ReplaysExclusive, ClaimsAreHeld
<1>8. NothingLost
  <2>1. ASSUME NEW d \in Leftover
        PROVE  disk[d] = {"json"}
    BY DeliveryAssumption DEF Init
  <2> QED
    BY <2>1 DEF Init, NothingLost, Lost
<1> QED
  BY <1>5, <1>6, <1>7, <1>8 DEF Inv

LEMMA StepInv ==
  Inv /\ [Next]_vars => Inv'
<1> SUFFICES ASSUME Inv, [Next]_vars
             PROVE  Inv'
  OBVIOUS
<1>1. Typed'
  BY StepTyped
<1>2. Hands' /\ Updating' /\ NewOnes' /\ Acked'
  BY StepHands
<1>3. Buried'
  BY StepBuried
<1>4. ReplaysExclusive' /\ ClaimsAreHeld'
  BY StepClaims
<1>5. NothingLost'
  BY StepLost
<1> QED
  BY <1>1, <1>2, <1>3, <1>4, <1>5 DEF Inv

LEMMA InvHolds == Spec => []Inv
<1>1. Init => Inv
  BY InitInv
<1>2. Inv /\ [Next]_vars => Inv'
  BY StepInv
<1> QED
  BY <1>1, <1>2, PTL DEF Spec

-----------------------------------------------------------------------------
(* The variables keep their types; in particular no update is ever made    *)
(* of, or by, something that is not a delivery.                            *)
THEOREM TypesHold == Spec => []TypeOK
<1>1. ASSUME Inv
      PROVE  TypeOK
  <2>1. actors \in [Actors -> ActorRecords] /\ Typed
    BY <1>1 DEF Inv, Typed
  <2>2. ASSUME NEW a \in Actors
        PROVE  /\ actors[a].pc \in Pcs
               /\ actors[a].id \in Deliveries \cup {0}
               /\ actors[a].queued \in BOOLEAN
               /\ \A d \in DOMAIN actors[a].pending :
                    d \in Deliveries /\ actors[a].pending[d] \in Entries
    <3>1. actors[a].pending \in Pendings
      BY <2>1 DEF ActorRecords
    <3>2. PICK S \in SUBSET Deliveries : actors[a].pending \in [S -> Entries]
      BY <3>1 DEF Pendings
    <3> QED
      BY <2>1, <3>2 DEF ActorRecords
  <2> QED
    BY <2>1, <2>2 DEF Typed, TypeOK, UpdateRecords
<1> QED
  BY <1>1, InvHolds, PTL

(* A delivery that was written before its send is in the queue or in       *)
(* failed/ until it has been sent or aborted by its caller, wherever the   *)
(* process dies, and however many replays meet the live delivery.          *)
THEOREM NoDeliveryIsLost == Spec => []NothingLost
<1>1. Inv => NothingLost
  BY DEF Inv
<1> QED
  BY <1>1, InvHolds, PTL

(* The recoveries of two lives and a reconnect never have the same         *)
(* delivery in their hands.                                                *)
THEOREM ReplaysAreExclusive == Spec => []ReplaysExclusive
<1>1. Inv => ReplaysExclusive
  BY DEF Inv
<1> QED
  BY <1>1, InvHolds, PTL

(* The set of claims is the set of the deliveries in the workers' hands,   *)
(* on every way out of the loop's body.                                    *)
THEOREM ClaimsDoNotLeak == Spec => []ClaimsAreHeld
<1>1. Inv => ClaimsAreHeld
  BY DEF Inv
<1> QED
  BY <1>1, InvHolds, PTL

(* What was acknowledged or given up, by the rename alone, when the        *)
(* process crashed is not sent again: no file, no copy and no update of it *)
(* is left that could make it pending.                                     *)
THEOREM AcknowledgedStaysSo == Spec => []AckSurvivesCrash
<1>1. ASSUME Inv
      PROVE  AckSurvivesCrash
  BY <1>1, Sorts DEF Inv, Buried, AckSurvivesCrash
<1> QED
  BY <1>1, InvHolds, PTL

=============================================================================

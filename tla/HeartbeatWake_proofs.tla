------------------------- MODULE HeartbeatWake_proofs -------------------------
(***************************************************************************)
(* Proofs about the wake layer under its runners, for all agents, waits,   *)
(* intervals and numbers of lives and requests: no wake is lost, and       *)
(* batches do not pile up.                                                 *)
(*                                                                         *)
(* Neither is inductive alone.  A wake that is in a batch stays there only *)
(* until the handler has been called for it, so what keeps a promise is a  *)
(* batch that has not come to that target (Kept).  A pending wake keeps    *)
(* its timer because a timer that is set never looks like none (Typed).    *)
(* That a batch finds a slot, and that there is one more only after an     *)
(* interruption, needs what running says: when it is FALSE, every batch in *)
(* progress is one that an interruption left behind (Piling).              *)
(***************************************************************************)
EXTENDS HeartbeatWake, FiniteSetTheorems, WellFoundedInduction, TLAPS

Pendings == [Targets -> Wakes \cup {NoWake}]

Timers == [kind : {"normal", "retry"}, left : Nat, delay : Nat] \cup {NoTimer}

Batches == [by : Nat, delay : Nat, todo : Pendings, target : Targets \cup {Nobody},
            left : SUBSET Agents, turn : Agents \cup {Nobody}, elapsed : Nat, orphan : BOOLEAN]

Typed ==
  /\ pendingWakes \in Pendings
  /\ wanted \in [Targets -> 0 .. 3]
  /\ timer \in Timers
  /\ running \in BOOLEAN
  /\ agents \subseteq Agents
  /\ batches \in [Slots -> Batches]
  /\ \A b \in Slots : batches[b].turn # Nobody => batches[b].target \in Targets

(* What was asked is pending, or in a batch that has not come to it. *)
Held(b, t) == batches[b].target # t /\ wanted[t] <= Priority[batches[b].todo[t]]

Kept ==
  \A t \in Targets : wanted[t] <= Priority[pendingWakes[t]] \/ \E b \in Slots : Held(b, t)

Timed == runner # 0 /\ pendingWakes # NoWakes => timer # NoTimer

(* Lives, interruptions and batches. *)
Piling ==
  /\ lives \in 0 .. MaxLives /\ interrupted \in Nat /\ runner \in {0, lives}
  /\ lives = 0 => InProgress = {} /\ interrupted = 0
  /\ lives # 0 => interrupted < lives
  /\ Cardinality(InProgress) <= 1 + interrupted
  /\ ~ running => Cardinality(InProgress) <= interrupted

Inv == Typed /\ Kept /\ Timed /\ Piling
-----------------------------------------------------------------------------
(* The operators of the wake layer. *)

LEMMA PriorityBounds ==
  /\ \A r \in Wakes \cup {NoWake} : Priority[r] \in 0 .. 3
  /\ Priority[NoWake] = 0
  BY DEF Priority, NoWake

LEMMA GreaterBounds ==
  \A i, j \in 0 .. 3 : Greater(i, j) \in 0 .. 3 /\ i <= Greater(i, j) /\ j <= Greater(i, j)
                       /\ Greater(i, j) \in {i, j}
  BY DEF Greater

LEMMA DelaysAreNat ==
  Coalesce \in Nat /\ Retry \in Nat /\ 0 \in Nat /\ \A d \in Delays : d \in Nat
  BY HeartbeatAssumption

LEMMA NoWakesTyped == NoWakes \in Pendings /\ NoBatch \in Batches
  BY DEF NoWakes, NoBatch, Pendings, Batches, Nobody, NoWake

(* What schedule leaves is a timer that is set. *)
LEMMA ScheduledTyped ==
  ASSUME NEW tm \in Timers, NEW delay \in Nat, NEW kind \in {"normal", "retry"}
  PROVE  Scheduled(tm, delay, kind) \in Timers /\ Scheduled(tm, delay, kind) # NoTimer
  BY DEF Scheduled, Timers, NoTimer

(* A reason that is queued is kept with at least its priority, and so is   *)
(* the one that was there.                                                 *)
LEMMA QueuedKeeps ==
  ASSUME NEW pending \in Pendings, NEW t \in Targets,
         NEW reason \in Wakes \cup {NoWake}
  PROVE  LET q == Queued(pending, t, reason) IN
         /\ q \in Pendings
         /\ Priority[reason] <= Priority[q[t]]
         /\ \A u \in Targets : Priority[pending[u]] <= Priority[q[u]]
<1>1. Queued(pending, t, reason) \in Pendings
  BY DEF Queued, Pendings
<1>2. \A u \in Targets : Priority[pending[u]] \in 0 .. 3
  BY PriorityBounds DEF Pendings
<1>3. Priority[reason] \in 0 .. 3
  BY PriorityBounds
<1>4. CASE Priority[reason] >= Priority[pending[t]]
  BY <1>1, <1>2, <1>3, <1>4 DEF Queued, Pendings
<1>5. CASE ~ Priority[reason] >= Priority[pending[t]]
  BY <1>1, <1>2, <1>3, <1>5 DEF Queued
<1> QED
  BY <1>4, <1>5

(* What a queued wake does to the pending wakes, the timer and the history *)
(* keeps the promises, as long as no batch that held one goes on from it.  *)
LEMMA QueuedInv ==
  ASSUME Typed, Kept, NEW t \in Targets, NEW reason \in Wakes \cup {NoWake},
         pendingWakes' = Queued(pendingWakes, t, reason),
         wanted' = Asked(t, reason),
         \A u \in Targets, b \in Slots :
           batches[b].target # u /\ wanted[u] <= Priority[batches[b].todo[u]]
           => batches'[b].target # u /\ batches'[b].todo[u] = batches[b].todo[u]
  PROVE  pendingWakes' \in Pendings /\ wanted' \in [Targets -> 0 .. 3] /\ Kept'
<1>1. pendingWakes \in Pendings /\ wanted \in [Targets -> 0 .. 3]
  BY DEF Typed
<1>2. Priority[reason] \in 0 .. 3
  BY PriorityBounds
<1>3. pendingWakes' \in Pendings
  BY <1>1, QueuedKeeps
<1>4. wanted' \in [Targets -> 0 .. 3]
  BY <1>1, <1>2, GreaterBounds DEF Asked
<1>5. ASSUME NEW u \in Targets
      PROVE  wanted'[u] <= Priority[pendingWakes'[u]] \/ \E b \in Slots : Held(b, u)'
  <2>1. /\ Priority[pendingWakes[u]] \in 0 .. 3 /\ Priority[pendingWakes'[u]] \in 0 .. 3
        /\ Priority[pendingWakes[u]] <= Priority[pendingWakes'[u]]
        /\ u = t => Priority[reason] <= Priority[pendingWakes'[u]]
    BY <1>1, <1>3, QueuedKeeps, PriorityBounds DEF Pendings
  <2>2. wanted'[u] = wanted[u] \/ (u = t /\ wanted'[u] = Priority[reason])
    BY <1>1, <1>2, GreaterBounds DEF Asked
  <2>3. CASE wanted'[u] # wanted[u]
    BY <2>1, <2>2, <2>3
  <2>4. CASE wanted'[u] = wanted[u] /\ wanted[u] <= Priority[pendingWakes[u]]
    BY <1>1, <2>1, <2>4
  <2>5. CASE wanted'[u] = wanted[u] /\ \E b \in Slots : Held(b, u)
    BY <2>5 DEF Held
  <2> QED
    BY <2>3, <2>4, <2>5 DEF Kept
<1> QED
  BY <1>3, <1>4, <1>5 DEF Kept

-----------------------------------------------------------------------------
(* Counting batches. *)

LEMMA SlotsAreFinite ==
  /\ IsFiniteSet(Slots) /\ Cardinality(Slots) = MaxLives
  /\ \A S \in SUBSET Slots : IsFiniteSet(S) /\ Cardinality(S) \in Nat
<1>1. MaxLives \in Nat \ {0}
  BY HeartbeatAssumption
<1>2. IsFiniteSet(Slots) /\ Cardinality(Slots) = MaxLives
  BY <1>1, FS_Interval DEF Slots
<1> QED
  BY <1>2, FS_Subset, FS_CardinalityType

(* Most steps start no batch. *)
LEMMA PilingWithoutNew ==
  ASSUME Piling, InProgress' \subseteq InProgress, InProgress \subseteq Slots,
         UNCHANGED <<lives, interrupted, running>>, runner' \in {0, lives}
  PROVE  Piling'
<1>1. Cardinality(InProgress') <= Cardinality(InProgress)
      /\ Cardinality(InProgress') \in Nat /\ Cardinality(InProgress) \in Nat
  BY SlotsAreFinite, FS_Subset
<1>2. lives' \in 0 .. MaxLives /\ interrupted' \in Nat /\ runner' \in {0, lives'}
  BY DEF Piling
<1>3. (lives = 0 => InProgress' = {} /\ interrupted = 0) /\ (lives # 0 => interrupted < lives)
  BY DEF Piling
<1>4. Cardinality(InProgress') <= 1 + interrupted
  BY <1>1 DEF Piling
<1>5. ~ running => Cardinality(InProgress') <= interrupted
  BY <1>1 DEF Piling
<1> QED
  BY <1>2, <1>3, <1>4, <1>5 DEF Piling

(* While nothing runs there is a slot for the next batch. *)
LEMMA SlotIsFree ==
  ASSUME Piling, ~ running, runner # 0
  PROVE  FreeSlot \in Slots \ InProgress
<1>1. Cardinality(InProgress) < MaxLives
  <2>1. Cardinality(InProgress) <= interrupted /\ interrupted < lives /\ lives <= MaxLives
    BY DEF Piling
  <2>2. Cardinality(InProgress) \in Nat /\ MaxLives \in Nat /\ lives \in Nat /\ interrupted \in Nat
    BY SlotsAreFinite, HeartbeatAssumption DEF InProgress, Piling
  <2> QED
    BY <2>1, <2>2
<1>2. InProgress # Slots
  BY <1>1, SlotsAreFinite, HeartbeatAssumption
<1>3. Slots \ InProgress # {}
  BY <1>2 DEF InProgress
<1> QED
  BY <1>3 DEF FreeSlot

-----------------------------------------------------------------------------
(* What the steps have in common. *)

LEMMA InitInv == Init => Inv
<1> SUFFICES ASSUME Init PROVE Inv
  OBVIOUS
<1>1. Typed
  <2>1. NoBatch.turn = Nobody
    BY DEF NoBatch
  <2>2. batches \in [Slots -> Batches] /\ \A b \in Slots : batches[b].turn = Nobody
    BY <2>1, NoWakesTyped DEF Init
  <2>3. wanted \in [Targets -> 0 .. 3]
    BY DEF Init
  <2> QED
    BY <2>2, <2>3, NoWakesTyped DEF Init, Typed, Timers
<1>2. Kept
  BY PriorityBounds DEF Init, Kept, NoWakes
<1>3. Timed
  BY DEF Init, Timed
<1>4. InProgress = {}
  BY DEF Init, InProgress
<1>5. Piling
  BY <1>4, FS_EmptySet, HeartbeatAssumption DEF Init, Piling
<1> QED
  BY <1>1, <1>2, <1>3, <1>5 DEF Inv

(* A batch goes on in a way that gives up nothing it holds. *)
LEMMA KeptStays ==
  ASSUME Kept, UNCHANGED <<pendingWakes, wanted>>,
         \A t \in Targets, b \in Slots :
           Held(b, t) => Held(b, t)' \/ wanted[t] <= Priority[pendingWakes[t]]
  PROVE  Kept'
  BY DEF Kept

(* A request and a tick queue a wake and set the timer. *)
LEMMA EnqueueStep ==
  ASSUME Inv, NEW t \in Targets, NEW reason \in Wakes, NEW delay \in Nat,
         Enqueue(t, reason, delay), UNCHANGED <<running, batches, runner, agents, lives, interrupted>>
  PROVE  Inv'
<1>1. pendingWakes' \in Pendings /\ wanted' \in [Targets -> 0 .. 3] /\ Kept'
  BY QueuedInv DEF Inv, Enqueue
<1>2. timer' \in Timers /\ timer' # NoTimer
  BY ScheduledTyped DEF Inv, Typed, Enqueue
<1>3. Typed'
  BY <1>1, <1>2 DEF Inv, Typed
<1>4. Timed'
  BY <1>2 DEF Timed
<1>5. Piling'
  BY PilingWithoutNew DEF Inv, Piling, InProgress
<1> QED
  BY <1>1, <1>3, <1>4, <1>5 DEF Inv

(* Nothing that the invariant speaks of changes. *)
LEMMA SameInv ==
  ASSUME Inv, UNCHANGED <<pendingWakes, wanted, timer, running, batches, lives, interrupted>>,
         runner' \in {0, runner}, agents' \subseteq Agents
  PROVE  Inv'
<1>1. Typed' /\ Kept'
  BY DEF Inv, Typed, Kept, Held
<1>2. Timed'
  BY DEF Inv, Timed
<1>3. Piling'
  BY PilingWithoutNew DEF Inv, Piling, InProgress
<1> QED
  BY <1>1, <1>2, <1>3 DEF Inv

-----------------------------------------------------------------------------
(* The timer fires. *)

LEMMA FiresInVainStep ==
  ASSUME Inv, runner = 0, FiresInVain, UNCHANGED <<runner, agents, wanted, lives, interrupted>>
  PROVE  Inv'
<1>1. Typed'
  BY DEF Inv, Typed, FiresInVain, Timers
<1>2. Kept'
  BY DEF Inv, Kept, Held, FiresInVain
<1>3. Timed'
  BY DEF Timed
<1>4. Piling'
  BY PilingWithoutNew DEF Inv, Piling, InProgress, FiresInVain
<1> QED
  BY <1>1, <1>2, <1>3, <1>4 DEF Inv

LEMMA FiresTooSoonStep ==
  ASSUME Inv, timer # NoTimer, FiresTooSoon, UNCHANGED <<runner, agents, wanted, lives, interrupted>>
  PROVE  Inv'
<1>1. timer' \in Timers /\ timer' # NoTimer
  <2>1. NoTimer \in Timers /\ timer.delay \in Nat /\ timer.kind \in {"normal", "retry"}
    BY DEF Inv, Typed, Timers
  <2> QED
    BY <2>1, ScheduledTyped DEF FiresTooSoon
<1>2. Typed'
  BY <1>1 DEF Inv, Typed, FiresTooSoon
<1>3. Kept'
  BY DEF Inv, Kept, Held, FiresTooSoon
<1>4. Timed'
  BY <1>1 DEF Timed
<1>5. Piling'
  BY PilingWithoutNew DEF Inv, Piling, InProgress, FiresTooSoon
<1> QED
  BY <1>2, <1>3, <1>4, <1>5 DEF Inv

(* What was pending goes into a free slot. *)
LEMMA TakesBatchStep ==
  ASSUME Inv, timer # NoTimer, runner # 0, ~ running, TakesBatch,
         UNCHANGED <<runner, agents, wanted, lives, interrupted>>
  PROVE  Inv'
<1> DEFINE new == [NoBatch EXCEPT !.by = runner, !.delay = timer.delay, !.todo = pendingWakes]
<1>1. CASE pendingWakes = NoWakes
  <2>1. UNCHANGED <<pendingWakes, running, batches>> /\ timer' = NoTimer
    BY <1>1 DEF TakesBatch
  <2>2. Typed'
    BY <2>1 DEF Inv, Typed, Timers
  <2>3. Kept'
    BY <2>1 DEF Inv, Kept, Held
  <2>4. Timed'
    BY <1>1, <2>1 DEF Timed
  <2>5. Piling'
    BY <2>1, PilingWithoutNew DEF Inv, Piling, InProgress
  <2> QED
    BY <2>2, <2>3, <2>4, <2>5 DEF Inv
<1>2. CASE pendingWakes # NoWakes
  <2>1. PICK slot \in Slots \ InProgress : slot = FreeSlot
    BY SlotIsFree DEF Inv
  <2>2. batches' = [batches EXCEPT ![slot] = new] /\ pendingWakes' = NoWakes /\ running' = TRUE
        /\ timer' = NoTimer
    BY <1>2, <2>1 DEF TakesBatch
  <2>3. new \in Batches /\ new.target = Nobody /\ new.turn = Nobody /\ new.todo = pendingWakes
    <3>1. runner \in Nat /\ timer.delay \in Nat /\ pendingWakes \in Pendings
      BY HeartbeatAssumption DEF Inv, Piling, Typed, Timers
    <3> QED
      BY <3>1, NoWakesTyped DEF NoBatch, Batches
  <2>4. batches \in [Slots -> Batches] /\ batches[slot] = NoBatch
    BY <2>1 DEF Inv, Typed, InProgress
  <2>5. Typed'
    BY <2>1, <2>2, <2>3, <2>4, NoWakesTyped DEF Inv, Typed, Timers
  <2>6. ASSUME NEW t \in Targets
        PROVE  \E b \in Slots : Held(b, t)'
    <3>1. CASE wanted[t] <= Priority[pendingWakes[t]]
      <4>1. Held(slot, t)'
        BY <2>1, <2>2, <2>3, <2>4, <3>1, HeartbeatAssumption
           DEF Held, Targets, Nobody, Everyone
      <4> QED
        BY <4>1, <2>1
    <3>2. ASSUME NEW b \in Slots, Held(b, t) PROVE \E c \in Slots : Held(c, t)'
      <4>1. CASE b # slot
        BY <2>1, <2>2, <2>4, <3>2, <4>1 DEF Held
      <4>2. CASE b = slot
        <5>1. wanted[t] <= Priority[pendingWakes[t]]
          <6>1. wanted[t] <= 0
            BY <2>4, <3>2, <4>2, PriorityBounds DEF Held, NoBatch, NoWakes
          <6>2. Priority[pendingWakes[t]] \in 0 .. 3 /\ wanted[t] \in 0 .. 3
            BY PriorityBounds DEF Inv, Typed, Pendings
          <6> QED
            BY <6>1, <6>2
        <5> QED
          BY <3>1, <5>1
      <4> QED
        BY <4>1, <4>2
    <3> QED
      BY <3>1, <3>2 DEF Inv, Kept
  <2>7. Kept'
    BY <2>6 DEF Kept
  <2>8. Timed'
    BY <2>2 DEF Timed
  <2>9. Piling'
    <3>1. InProgress' \subseteq InProgress \cup {slot}
      BY <2>1, <2>2, <2>4 DEF InProgress
    <3>2. Cardinality(InProgress) <= interrupted /\ Cardinality(InProgress) \in Nat
          /\ Cardinality(InProgress \cup {slot}) = Cardinality(InProgress) + 1
          /\ IsFiniteSet(InProgress \cup {slot})
      BY <2>1, SlotsAreFinite, FS_AddElement DEF Inv, Piling, InProgress
    <3>3. Cardinality(InProgress') <= 1 + interrupted
      BY <3>1, <3>2, FS_Subset, FS_CardinalityType DEF Inv, Piling
    <3> QED
      BY <2>2, <3>3 DEF Inv, Piling
  <2> QED
    BY <2>5, <2>7, <2>8, <2>9 DEF Inv
<1> QED
  BY <1>1, <1>2

-----------------------------------------------------------------------------
(* A batch goes on. *)

(* A record takes the place of the one in slot b. *)
LEMMA BatchReplaced ==
  ASSUME Inv, NEW b \in Slots, NEW new \in Batches, batches' = [batches EXCEPT ![b] = new],
         new.turn # Nobody => new.target \in Targets
  PROVE  /\ batches' \in [Slots -> Batches]
         /\ \A c \in Slots : batches'[c].turn # Nobody => batches'[c].target \in Targets
         /\ b \in InProgress => InProgress' \subseteq InProgress
  BY DEF Inv, Typed, InProgress

LEMMA CallStep ==
  ASSUME Inv, NEW b \in Slots, NEW t \in Targets, Call(b, t)
  PROVE  Inv'
<1> DEFINE run == batches[b]
           meant == Meant(t, run.todo[t])
<1>1. /\ run \in Batches /\ run.target = Nobody /\ run.todo[t] # NoWake
      /\ run.todo[t] \in Wakes
      /\ wanted \in [Targets -> 0 .. 3]
  <2>1. run \in Batches /\ run.todo \in Pendings /\ wanted \in [Targets -> 0 .. 3]
    BY DEF Inv, Typed, Batches
  <2>2. run.target = Nobody /\ run.todo[t] # NoWake
    BY DEF Call
  <2> QED
    BY <2>1, <2>2 DEF Pendings
<1>2. b \in InProgress
  BY <1>1 DEF InProgress, NoBatch, NoWakes
<1>3. wanted' \in [Targets -> 0 .. 3] /\ wanted'[t] \in {0, wanted[t]}
      /\ (wanted'[t] # 0 => ~ wanted[t] <= Priority[run.todo[t]])
      /\ \A u \in Targets \ {t} : wanted'[u] = wanted[u]
  <2>1. wanted' = [wanted EXCEPT ![t] = IF @ <= Priority[run.todo[t]] THEN 0 ELSE @]
    BY DEF Call
  <2>2. wanted' \in [Targets -> 0 .. 3]
    BY <1>1, <2>1
  <2> QED
    BY <1>1, <2>1, <2>2
<1>4. PICK new \in Batches :
        /\ batches' = [batches EXCEPT ![b] = new]
        /\ new.target \in {Nobody, t} /\ (new.turn # Nobody => new.target \in Targets)
        /\ \A u \in Targets \ {t} : new.todo[u] = run.todo[u]
  <2>1. CASE Refuses(b) \/ meant = {}
    <3> DEFINE new == [run EXCEPT !.todo[t] = NoWake]
    <3>1. batches' = [batches EXCEPT ![b] = new]
      BY <2>1 DEF Call, Inv, Typed
    <3>2. new \in Batches /\ new.target = Nobody /\ new.turn = run.turn
          /\ \A u \in Targets \ {t} : new.todo[u] = run.todo[u]
      BY <1>1 DEF Batches, Pendings
    <3>3. new.turn # Nobody => new.target \in Targets
      BY <1>1, <3>2 DEF Inv, Typed
    <3> QED
      BY <3>1, <3>2, <3>3
  <2>2. CASE ~ (Refuses(b) \/ meant = {})
    <3>1. PICK a \in meant :
            batches' = [batches EXCEPT ![b] =
              [@ EXCEPT !.target = t, !.left = meant \ {a}, !.turn = a]]
      BY <2>2 DEF Call
    <3> DEFINE new == [run EXCEPT !.target = t, !.left = meant \ {a}, !.turn = a]
    <3>2. batches' = [batches EXCEPT ![b] = new]
      BY <3>1
    <3>3. meant \subseteq Agents
      BY <1>1 DEF Meant, Targets, Inv, Typed
    <3>4. new \in Batches /\ new.target = t /\ new.todo = run.todo
      BY <1>1, <3>3 DEF Batches, Targets
    <3> QED
      BY <3>2, <3>4
  <2> QED
    BY <2>1, <2>2
<1>5. UNCHANGED <<pendingWakes, timer, running, runner, agents, lives, interrupted>>
  BY DEF Call, bounds
<1>6. Typed'
  BY <1>3, <1>4, <1>5, BatchReplaced DEF Inv, Typed
<1>7. Kept'
  <2>1. \A c \in Slots : c # b => batches'[c] = batches[c]
    BY <1>4 DEF Inv, Typed
  <2>2. batches'[b] = new
    BY <1>4 DEF Inv, Typed
  <2>3. ASSUME NEW u \in Targets, u # t, NEW c \in Slots, Held(c, u)
        PROVE  Held(c, u)'
    BY <1>1, <1>3, <1>4, <2>1, <2>2, <2>3, HeartbeatAssumption
       DEF Held, Targets, Nobody, Everyone
  <2>4. ASSUME NEW c \in Slots, Held(c, t), wanted'[t] # 0
        PROVE  Held(c, t)'
    BY <1>3, <2>1, <2>4 DEF Held
  <2>5. \A u \in Targets : Priority[pendingWakes[u]] \in 0 .. 3
    BY PriorityBounds DEF Inv, Typed, Pendings
  <2>6. ASSUME NEW u \in Targets
        PROVE  wanted'[u] <= Priority[pendingWakes'[u]] \/ \E c \in Slots : Held(c, u)'
    <3>1. CASE wanted'[u] = 0
      BY <1>5, <2>5, <3>1
    <3>2. CASE wanted'[u] # 0
      BY <1>3, <1>5, <2>3, <2>4, <3>2 DEF Inv, Kept
    <3> QED
      BY <3>1, <3>2
  <2> QED
    BY <2>6 DEF Kept
<1>8. Timed'
  BY <1>5 DEF Inv, Timed
<1>9. Piling'
  BY <1>2, <1>4, <1>5, BatchReplaced, PilingWithoutNew DEF Inv, Piling, InProgress
<1> QED
  BY <1>6, <1>7, <1>8, <1>9 DEF Inv

(* Returned leaves a batch that has not come to any target. *)
LEMMA ReturnedTyped ==
  ASSUME Inv, NEW b \in Slots, batches[b].turn # Nobody, batches' = Returned(b)
  PROVE  \E new \in Batches :
           /\ batches' = [batches EXCEPT ![b] = new]
           /\ new.target = Nobody /\ new.turn = Nobody
           /\ \A u \in Targets : batches[b].target # u => new.todo[u] = batches[b].todo[u]
<1> DEFINE run == batches[b]
           new == [run EXCEPT !.todo[run.target] = NoWake, !.target = Nobody,
                              !.left = {}, !.turn = Nobody, !.elapsed = 0, !.orphan = FALSE]
<1>1. run \in Batches /\ run.target \in Targets
  BY DEF Inv, Typed
<1>2. batches' = [batches EXCEPT ![b] = new]
  BY DEF Returned
<1>3. new \in Batches /\ new.target = Nobody /\ new.turn = Nobody
      /\ \A u \in Targets : run.target # u => new.todo[u] = run.todo[u]
  BY <1>1 DEF Batches, Pendings
<1> QED
  BY <1>2, <1>3

(* The others keep what they hold, and so does a batch that returns. *)
LEMMA ReturnedHolds ==
  ASSUME Inv, NEW b \in Slots, NEW new \in Batches, batches' = [batches EXCEPT ![b] = new],
         new.target = Nobody,
         \A u \in Targets : batches[b].target # u => new.todo[u] = batches[b].todo[u]
  PROVE  \A u \in Targets, c \in Slots :
           batches[c].target # u /\ wanted[u] <= Priority[batches[c].todo[u]]
           => batches'[c].target # u /\ batches'[c].todo[u] = batches[c].todo[u]
<1>1. batches'[b] = new /\ \A c \in Slots : c # b => batches'[c] = batches[c]
  BY DEF Inv, Typed
<1>2. Nobody \notin Targets
  BY HeartbeatAssumption DEF Targets, Nobody, Everyone
<1> QED
  BY <1>1, <1>2

LEMMA TurnFindsLaneBusyStep ==
  ASSUME Inv, NEW b \in Slots, TurnFindsLaneBusy(b)
  PROVE  Inv'
<1> DEFINE run == batches[b]
           t == run.target
           reason == run.todo[t]
<1>1. t \in Targets /\ run.todo \in Pendings /\ run.turn # Nobody
  BY DEF Inv, Typed, TurnFindsLaneBusy, Batches
<1>2. PICK new \in Batches :
        /\ batches' = [batches EXCEPT ![b] = new]
        /\ new.target = Nobody /\ new.turn = Nobody
        /\ \A u \in Targets : batches[b].target # u => new.todo[u] = batches[b].todo[u]
  BY <1>1, ReturnedTyped DEF TurnFindsLaneBusy
<1>3. pendingWakes' = Queued(pendingWakes, t, reason) /\ wanted' = Asked(t, reason)
  BY DEF TurnFindsLaneBusy, Requeued
<1>4. pendingWakes' \in Pendings /\ wanted' \in [Targets -> 0 .. 3] /\ Kept'
  <2>1. reason \in Wakes \cup {NoWake}
    BY <1>1 DEF Pendings
  <2> QED
    BY <1>2, <1>1, <1>3, <2>1, QueuedInv, ReturnedHolds DEF Inv
<1>5. timer' \in Timers /\ timer' # NoTimer
  BY DelaysAreNat, ScheduledTyped DEF TurnFindsLaneBusy, Inv, Typed
<1>6. UNCHANGED <<running, runner, agents, lives, interrupted>>
  BY DEF TurnFindsLaneBusy, bounds
<1>7. Typed'
  BY <1>2, <1>4, <1>5, <1>6, BatchReplaced DEF Inv, Typed
<1>8. Timed'
  BY <1>5 DEF Timed
<1>9. b \in InProgress
  BY <1>1 DEF InProgress, NoBatch
<1>10. Piling'
  BY <1>2, <1>6, <1>9, BatchReplaced, PilingWithoutNew DEF Inv, Piling, InProgress
<1> QED
  BY <1>4, <1>7, <1>8, <1>10 DEF Inv

LEMMA TurnEndsStep ==
  ASSUME Inv, NEW b \in Slots, TurnEnds(b)
  PROVE  Inv'
<1> DEFINE run == batches[b]
<1>1. run \in Batches /\ run.target \in Targets /\ run.turn # Nobody
  BY DEF Inv, Typed, TurnEnds
<1>2. b \in InProgress
  BY <1>1 DEF InProgress, NoBatch
<1>3. UNCHANGED <<pendingWakes, wanted, timer, running, runner, agents, lives, interrupted>>
  BY DEF TurnEnds, bounds
<1>4. PICK new \in Batches :
        /\ batches' = [batches EXCEPT ![b] = new]
        /\ new.target \in {Nobody, run.target} /\ (new.turn # Nobody => new.target \in Targets)
        /\ \A u \in Targets : run.target # u => new.todo[u] = run.todo[u]
  <2>1. CASE run.left = {} \/ ~ enabled
    BY <1>1, <2>1, ReturnedTyped DEF TurnEnds
  <2>2. CASE ~ (run.left = {} \/ ~ enabled)
    <3>1. PICK a \in run.left :
            batches' = [batches EXCEPT ![b] =
              [@ EXCEPT !.left = run.left \ {a}, !.turn = a]]
      BY <2>2 DEF TurnEnds
    <3> DEFINE new == [run EXCEPT !.left = run.left \ {a}, !.turn = a]
    <3>2. batches' = [batches EXCEPT ![b] = new]
      BY <3>1
    <3>3. new \in Batches /\ new.target = run.target /\ new.todo = run.todo
      BY <1>1 DEF Batches
    <3> QED
      BY <1>1, <3>2, <3>3
  <2> QED
    BY <2>1, <2>2
<1>5. Typed'
  BY <1>3, <1>4, BatchReplaced DEF Inv, Typed
<1>6. Kept'
  <2>1. batches'[b] = new /\ \A c \in Slots : c # b => batches'[c] = batches[c]
    BY <1>4 DEF Inv, Typed
  <2>2. Nobody \notin Targets
    BY HeartbeatAssumption DEF Targets, Nobody, Everyone
  <2>3. ASSUME NEW u \in Targets, NEW c \in Slots, Held(c, u)
        PROVE  Held(c, u)'
    BY <1>3, <1>4, <2>1, <2>2, <2>3 DEF Held
  <2> QED
    BY <1>3, <2>3, KeptStays DEF Inv
<1>7. Timed'
  BY <1>3 DEF Inv, Timed
<1>8. Piling'
  BY <1>2, <1>3, <1>4, BatchReplaced, PilingWithoutNew DEF Inv, Piling, InProgress
<1> QED
  BY <1>5, <1>6, <1>7, <1>8 DEF Inv

(* The batch that ends holds nothing any more; it says that nothing runs,  *)
(* although another may.                                                   *)
LEMMA BatchEndsStep ==
  ASSUME Inv, NEW b \in Slots, BatchEnds(b)
  PROVE  Inv'
<1>1. batches' = [batches EXCEPT ![b] = NoBatch] /\ b \in InProgress /\ batches[b].todo = NoWakes
      /\ running' = FALSE
  BY DEF BatchEnds
<1>2. UNCHANGED <<pendingWakes, wanted, runner, agents, lives, interrupted>>
  BY DEF BatchEnds, bounds, schedule
<1>3. timer' \in Timers /\ (pendingWakes # NoWakes => timer' # NoTimer)
  <2>1. timer \in Timers /\ batches[b].delay \in Nat
    BY DEF Inv, Typed, Batches
  <2> QED
    BY <2>1, ScheduledTyped DEF BatchEnds
<1>4. NoBatch \in Batches /\ NoBatch.turn = Nobody
  BY NoWakesTyped DEF NoBatch
<1>5. Typed'
  BY <1>1, <1>2, <1>3, <1>4, BatchReplaced DEF Inv, Typed
<1>6. Kept'
  <2>1. \A c \in Slots : c # b => batches'[c] = batches[c]
    BY <1>1 DEF Inv, Typed
  <2>2. ASSUME NEW u \in Targets, NEW c \in Slots, Held(c, u)
        PROVE  Held(c, u)' \/ wanted[u] <= Priority[pendingWakes[u]]
    <3>1. CASE c # b
      BY <1>2, <2>1, <2>2, <3>1 DEF Held
    <3>2. CASE c = b
      <4>1. wanted[u] <= 0
        BY <1>1, <2>2, <3>2, PriorityBounds DEF Held, NoWakes
      <4>2. Priority[pendingWakes[u]] \in 0 .. 3 /\ wanted[u] \in 0 .. 3
        BY PriorityBounds DEF Inv, Typed, Pendings
      <4> QED
        BY <4>1, <4>2
    <3> QED
      BY <3>1, <3>2
  <2> QED
    BY <1>2, <2>2, KeptStays DEF Inv
<1>7. Timed'
  BY <1>2, <1>3 DEF Timed
<1>8. Piling'
  <2>1. InProgress' = InProgress \ {b} /\ InProgress \in SUBSET Slots
    BY <1>1 DEF Inv, Typed, InProgress
  <2>2. Cardinality(InProgress') = Cardinality(InProgress) - 1
        /\ Cardinality(InProgress) \in Nat
    BY <1>1, <2>1, SlotsAreFinite, FS_RemoveElement
  <2>3. Cardinality(InProgress) <= 1 + interrupted /\ interrupted \in Nat
        /\ (lives = 0 => InProgress = {})
    BY DEF Inv, Piling
  <2>4. Cardinality(InProgress') <= interrupted /\ Cardinality(InProgress') <= 1 + interrupted
    BY <2>2, <2>3
  <2> QED
    BY <1>2, <2>1, <2>3, <2>4 DEF Inv, Piling
<1> QED
  BY <1>5, <1>6, <1>7, <1>8 DEF Inv

-----------------------------------------------------------------------------
(* The configuration, restarts and time. *)

(* Batches change in nothing that the invariant tells apart. *)
LEMMA BatchesAlike ==
  ASSUME Inv, UNCHANGED <<pendingWakes, wanted, running, runner, lives, interrupted>>,
         agents' \subseteq Agents, timer' \in Timers, timer # NoTimer => timer' # NoTimer,
         batches' \in [Slots -> Batches],
         \A b \in Slots : /\ batches[b] = NoBatch => batches'[b] = NoBatch
                          /\ batches'[b].target = batches[b].target
                          /\ batches'[b].todo = batches[b].todo
                          /\ batches'[b].turn = batches[b].turn
  PROVE  Inv'
<1>1. Typed'
  BY DEF Inv, Typed
<1>2. Kept'
  BY KeptStays DEF Inv, Held
<1>3. Timed'
  BY DEF Inv, Timed
<1>4. Piling'
  BY PilingWithoutNew DEF Inv, Piling, InProgress
<1> QED
  BY <1>1, <1>2, <1>3, <1>4 DEF Inv

LEMMA UpdateConfigStep ==
  ASSUME Inv, NEW live \in SUBSET Agents, UpdateConfig(live)
  PROVE  Inv'
<1>1. UNCHANGED <<pendingWakes, wanted, timer, running, runner, lives, interrupted>>
      /\ agents' \subseteq Agents
  BY DEF UpdateConfig, Configured
<1>2. batches' = [b \in Slots |-> [batches[b] EXCEPT !.orphan = @ \/ batches[b].turn # Nobody]]
  BY DEF UpdateConfig
<1>3. ASSUME NEW b \in Slots
      PROVE  /\ batches'[b] \in Batches
             /\ batches[b] = NoBatch => batches'[b] = NoBatch
             /\ batches'[b].target = batches[b].target
             /\ batches'[b].todo = batches[b].todo
             /\ batches'[b].turn = batches[b].turn
  <2> DEFINE o == batches[b].orphan \/ batches[b].turn # Nobody
  <2>1. batches'[b] = [batches[b] EXCEPT !.orphan = o]
    BY <1>2
  <2>2. batches[b] \in Batches /\ o \in BOOLEAN
    BY DEF Inv, Typed, Batches
  <2>3. batches[b] = NoBatch => o = batches[b].orphan
    <3>1. NoBatch.orphan = FALSE /\ NoBatch.turn = Nobody
      BY DEF NoBatch
    <3> QED
      BY <3>1
  <2>4. o = batches[b].orphan => [batches[b] EXCEPT !.orphan = o] = batches[b]
    BY <2>2 DEF Batches
  <2> HIDE DEF o
  <2> QED
    BY <2>1, <2>2, <2>3, <2>4 DEF Batches
<1>4. batches' \in [Slots -> Batches]
  BY <1>2, <1>3
<1> QED
  BY <1>1, <1>3, <1>4, BatchesAlike DEF Inv, Typed

LEMMA PassStep ==
  ASSUME Inv, Pass
  PROVE  Inv'
<1>1. UNCHANGED <<pendingWakes, wanted, running, runner, agents, lives, interrupted>>
  BY DEF Pass, bounds
<1>2. timer' \in Timers /\ (timer # NoTimer => timer' # NoTimer)
  <2>1. timer' = [timer EXCEPT !.left = Less(timer.left)]
    BY DEF Pass
  <2>2. CASE timer = NoTimer
    BY <2>1, <2>2 DEF Less, NoTimer, Timers
  <2>3. CASE timer # NoTimer
    <3>1. timer \in [kind : {"normal", "retry"}, left : Nat, delay : Nat]
      BY <2>3 DEF Inv, Typed, Timers
    <3>2. Less(timer.left) \in Nat
      BY <3>1 DEF Less
    <3> QED
      BY <2>1, <3>1, <3>2 DEF Timers, NoTimer
  <2> QED
    BY <2>2, <2>3
<1>3. batches' = [b \in Slots |-> IF batches[b].turn = Nobody THEN batches[b]
                                  ELSE [batches[b] EXCEPT !.elapsed = @ + 1]]
  BY DEF Pass
<1>4. ASSUME NEW b \in Slots
      PROVE  /\ batches'[b] \in Batches
             /\ batches[b] = NoBatch => batches'[b] = NoBatch
             /\ batches'[b].target = batches[b].target
             /\ batches'[b].todo = batches[b].todo
             /\ batches'[b].turn = batches[b].turn
  <2>1. batches[b] \in Batches /\ NoBatch.turn = Nobody
    BY DEF Inv, Typed, NoBatch
  <2>2. [batches[b] EXCEPT !.elapsed = @ + 1] \in Batches
    BY <2>1 DEF Batches
  <2> QED
    BY <1>3, <2>1, <2>2 DEF Batches
<1>5. batches' \in [Slots -> Batches]
  BY <1>3, <1>4
<1>6. agents' \subseteq Agents
  BY <1>1 DEF Inv, Typed
<1> QED
  BY <1>1, <1>2, <1>4, <1>5, <1>6, BatchesAlike

(* A start that finds a batch in progress counts it as an interruption.    *)
LEMMA StartStep ==
  ASSUME Inv, NEW live \in SUBSET Agents, Start(live)
  PROVE  Inv'
<1>1. /\ UNCHANGED <<pendingWakes, wanted, batches>> /\ agents' = live
      /\ running' = FALSE /\ timer' = Taken(pendingWakes)
      /\ lives < MaxLives /\ lives' = lives + 1 /\ runner' = lives'
      /\ interrupted' = interrupted + (IF InProgress = {} THEN 0 ELSE 1)
  BY DEF Start, Configured
<1>2. timer' \in Timers /\ (pendingWakes # NoWakes => timer' # NoTimer)
  <2>1. NoTimer \in Timers
    BY DEF Timers
  <2> QED
    BY <1>1, <2>1, DelaysAreNat, ScheduledTyped DEF Taken
<1>3. Typed'
  BY <1>1, <1>2 DEF Inv, Typed
<1>4. Kept'
  BY <1>1, KeptStays DEF Inv, Held
<1>5. Timed'
  BY <1>1, <1>2 DEF Timed
<1>6. Piling'
  <2>1. InProgress' = InProgress /\ InProgress \in SUBSET Slots
    BY <1>1 DEF InProgress
  <2>2. Cardinality(InProgress) \in Nat /\ (InProgress = {} => Cardinality(InProgress) = 0)
    BY <2>1, SlotsAreFinite, FS_EmptySet
  <2>3. lives \in Nat /\ MaxLives \in Nat /\ interrupted \in Nat
    BY HeartbeatAssumption DEF Inv, Piling
  <2>4. lives' \in 0 .. MaxLives /\ lives' # 0 /\ interrupted' \in Nat
    BY <1>1, <2>3
  <2>5. interrupted' < lives'
    BY <1>1, <2>3 DEF Inv, Piling
  <2>6. Cardinality(InProgress) <= interrupted'
    BY <1>1, <2>2, <2>3 DEF Inv, Piling
  <2>7. Cardinality(InProgress) <= 1 + interrupted'
    BY <2>2, <2>4, <2>6
  <2> QED
    BY <1>1, <2>1, <2>4, <2>5, <2>6, <2>7 DEF Piling
<1> QED
  BY <1>3, <1>4, <1>5, <1>6 DEF Inv

-----------------------------------------------------------------------------

LEMMA NextInv ==
  ASSUME Inv, [Next]_vars
  PROVE  Inv'
<1>1. ASSUME NEW t \in Targets, NEW reason \in Reasons, NEW coalesce \in Delays,
             Request(t, reason, coalesce)
      PROVE  Inv'
  <2>1. reason \in Wakes /\ coalesce \in Nat
    BY DelaysAreNat DEF Wakes
  <2> QED
    BY <1>1, <2>1, EnqueueStep DEF Request, schedule
<1>2. ASSUME Tick PROVE Inv'
  <2>1. Everyone \in Targets /\ "interval" \in Wakes
    BY DEF Targets, Wakes
  <2> QED
    BY <1>2, <2>1, EnqueueStep DEF Tick, bounds
<1>3. ASSUME TimerFires PROVE Inv'
  <2>1. UNCHANGED <<runner, agents, wanted, lives, interrupted>> /\ timer # NoTimer
    BY <1>3 DEF TimerFires, schedule, bounds
  <2> QED
    BY <1>3, <2>1, FiresInVainStep, FiresTooSoonStep, TakesBatchStep DEF TimerFires, Busy
<1>4. ASSUME NEW b \in Slots, NEW t \in Targets, Call(b, t) PROVE Inv'
  BY <1>4, CallStep
<1>5. ASSUME NEW b \in Slots, TurnFindsLaneBusy(b) \/ TurnEnds(b) \/ BatchEnds(b) PROVE Inv'
  BY <1>5, TurnFindsLaneBusyStep, TurnEndsStep, BatchEndsStep
<1>6. ASSUME NEW on \in BOOLEAN, SetEnabled(on) PROVE Inv'
  <2>1. UNCHANGED <<pendingWakes, wanted, timer, running, batches, lives, interrupted, runner,
                    agents>>
    BY <1>6 DEF SetEnabled, layer, schedule
  <2> QED
    BY <2>1, SameInv DEF Inv, Typed
<1>7. ASSUME Stop PROVE Inv'
  BY <1>7, SameInv DEF Stop, layer, bounds
<1>8. ASSUME UNCHANGED vars PROVE Inv'
  <2>1. UNCHANGED <<pendingWakes, wanted, timer, running, batches, lives, interrupted, runner,
                    agents>>
    BY <1>8 DEF vars, layer, schedule, bounds
  <2> QED
    BY <2>1, SameInv DEF Inv, Typed
<1> QED
  BY <1>1, <1>2, <1>3, <1>4, <1>5, <1>6, <1>7, <1>8, PassStep, UpdateConfigStep, StartStep
     DEF Next

LEMMA InvAlways == Spec => []Inv
<1>1. Init => Inv
  BY InitInv
<1>2. Inv /\ [Next]_vars => Inv'
  BY NextInv
<1> QED
  BY <1>1, <1>2, PTL DEF Spec

(* No wake that was accepted is lost or weakened before the handler has    *)
(* been called for its target, through coalescing, retries and restarts,   *)
(* and what is pending has its timer while there is a runner.              *)
THEOREM NoWakeIsLost == Spec => []NoWakeLost
<1>1. Inv => NoWakeLost
  BY DEF Inv, Kept, Held, Timed, NoWakeLost
<1> QED
  BY <1>1, InvAlways, PTL

(* There is one batch at a time, and one more only for each restart that   *)
(* came while one was being awaited.                                       *)
THEOREM OneBatchPerInterruption == Spec => []BatchesDoNotPile
<1>1. Inv => BatchesDoNotPile
  BY DEF Inv, Piling, BatchesDoNotPile
<1> QED
  BY <1>1, InvAlways, PTL

-----------------------------------------------------------------------------
(* Bounds of the clocks and counters, which the type invariant adds.       *)

BatchBounds(batch, n) ==
  batch.by \in 0 .. n /\ batch.delay \in Waits /\ batch.elapsed \in 0 .. MaxTurn

Dues == [Agents -> 0 .. Interval]

Bounded ==
  /\ timer.left \in Waits /\ timer.delay \in Waits
  /\ scheduled \in BOOLEAN /\ enabled \in BOOLEAN
  /\ \A b \in Slots : BatchBounds(batches[b], lives)
  /\ dueIn \in Dues /\ ticker \in Off .. Interval
  /\ clock \in 0 .. Interval - 1
  /\ requests \in 0 .. MaxRequests /\ changes \in 0 .. MaxChanges

LEMMA WaitsBounds ==
  /\ 0 \in Waits /\ Coalesce \in Waits /\ Retry \in Waits /\ Delays \subseteq Waits
  /\ Waits \subseteq Nat
  /\ \A n \in Waits : Less(n) \in Waits
<1>1. \A d \in Delays \cup {Coalesce, Retry} : d \in Nat
  BY HeartbeatAssumption
<1>2. \A n : n \in Waits <=> \E d \in Delays \cup {Coalesce, Retry} : n \in 0 .. d
  BY DEF Waits
<1>3. ASSUME NEW d \in Nat
      PROVE  /\ 0 \in 0 .. d /\ d \in 0 .. d /\ 0 .. d \subseteq Nat
             /\ \A n \in 0 .. d : Less(n) \in 0 .. d
  BY DEF Less
<1> QED
  BY <1>1, <1>2, <1>3

(* Less stays within a bound, and what is off stays off. *)
LEMMA LessBounds ==
  /\ \A n \in 0 .. Interval : Less(n) \in 0 .. Interval
  /\ \A n \in Off .. Interval : Less(n) \in Off .. Interval
  BY HeartbeatAssumption DEF Less, Off

LEMMA ScheduledBounds ==
  ASSUME NEW tm, tm.left \in Waits, tm.delay \in Waits, NEW delay \in Waits, NEW kind
  PROVE  Scheduled(tm, delay, kind).left \in Waits /\ Scheduled(tm, delay, kind).delay \in Waits
  BY DEF Scheduled

(* The next slot is at most an interval away. *)
LEMMA NextSlotBounds ==
  ASSUME clock \in 0 .. Interval - 1, NEW e \in Nat
  PROVE  NextSlot(e) \in 0 .. Interval /\ Greater(0, Interval - e) \in 0 .. Interval
<1>1. Interval \in Nat \ {0} /\ clock - e \in Int
  BY HeartbeatAssumption
<1> DEFINE m == (clock - e) % Interval
<1>2. m \in 0 .. Interval - 1
  BY <1>1
<1> HIDE DEF m
<1>3. NextSlot(e) = Greater(0, Interval - m - e)
  BY DEF NextSlot, m
<1> QED
  BY <1>1, <1>2, <1>3 DEF Greater

(* Of agents there is one that is due first. *)
LEMMA NextTickBounds ==
  ASSUME NEW live \in SUBSET Agents, NEW due \in Dues
  PROVE  NextTick(live, due) \in Off .. Interval
<1> DEFINE T == {due[a] : a \in live}
           R == OpToRel(<, Nat)
<1>1. Interval \in Nat
  BY HeartbeatAssumption
<1>2. CASE live = {}
  BY <1>1, <1>2 DEF NextTick, Off
<1>3. CASE live # {}
  <2>1. T \subseteq Nat /\ T # {} /\ T \subseteq 0 .. Interval
    BY <1>1, <1>3 DEF Dues
  <2>2. IsWellFoundedOn(R, Nat)
    BY NatLessThanWellFounded
  <2> HIDE DEF T, R
  <2>3. PICK n \in T : \A m \in T : ~ (<<m, n>> \in R)
    BY <2>1, <2>2, WFMin
  <2>4. ASSUME NEW m \in T
        PROVE  n <= m
    <3>1. ~ (<<m, n>> \in R) /\ m \in Nat /\ n \in Nat
      BY <2>1, <2>3
    <3>2. ~ (m < n)
      BY <3>1 DEF R, OpToRel
    <3> QED
      BY <3>1, <3>2
  <2>5. \A a \in live : n <= due[a]
    BY <2>4 DEF T
  <2>6. Soonest(live, due) \in T
    BY <2>3, <2>5 DEF Soonest, T
  <2>7. Soonest(live, due) \in 0 .. Interval
    BY <2>1, <2>6
  <2>8. NextTick(live, due) = Soonest(live, due)
    BY <1>3 DEF NextTick
  <2> QED
    BY <1>1, <2>7, <2>8 DEF Off
<1> QED
  BY <1>2, <1>3

LEMMA ConfiguredBounds ==
  ASSUME Bounded, NEW live \in SUBSET Agents, NEW old, Configured(live, old)
  PROVE  dueIn' \in Dues /\ ticker' \in Off .. Interval
<1>1. NextSlot(0) \in 0 .. Interval /\ 0 \in 0 .. Interval
  BY NextSlotBounds, HeartbeatAssumption DEF Bounded
<1>2. dueIn' = [a \in Agents |-> IF a \notin live THEN 0
                                 ELSE IF a \in old /\ dueIn[a] > 0 THEN dueIn[a] ELSE NextSlot(0)]
      /\ ticker' = NextTick(live, dueIn')
  BY DEF Configured
<1>3. dueIn' \in Dues
  BY <1>1, <1>2 DEF Bounded, Dues
<1>4. \A due \in Dues : NextTick(live, due) \in Off .. Interval
  BY NextTickBounds
<1> QED
  BY <1>2, <1>3, <1>4

(* What the end of a turn leaves of the schedule. *)
LEMMA AdvancedBounds ==
  ASSUME Inv, Bounded, NEW b \in Slots, NEW a
  PROVE  /\ Advanced(b, a) \in Dues
         /\ \A due \in Dues : Rearmed(b, due) \in Off .. Interval
<1>1. batches[b].elapsed \in Nat /\ agents \in SUBSET Agents
  BY DEF Inv, Typed, Batches
<1>2. /\ NextSlot(batches[b].elapsed) \in 0 .. Interval
      /\ Greater(0, Interval - batches[b].elapsed) \in 0 .. Interval
  BY <1>1, NextSlotBounds DEF Bounded
<1>3. Advanced(b, a) \in Dues
  BY <1>1, <1>2 DEF Advanced, Bounded, Dues
<1>4. \A due \in Dues : NextTick(agents, due) \in Off .. Interval
  BY <1>1, NextTickBounds
<1> QED
  BY <1>3, <1>4 DEF Rearmed, Bounded

(* A batch that goes on keeps who took it and its delay; a new one has the *)
(* runner's number and the timer's delay.                                  *)
LEMMA BatchBounded ==
  ASSUME Inv, Bounded, NEW b \in Slots, NEW new, batches' = [batches EXCEPT ![b] = new],
         new.by \in {0, runner, batches[b].by}, new.delay \in {0, timer.delay, batches[b].delay},
         new.elapsed \in {0, batches[b].elapsed}, lives' = lives
  PROVE  \A c \in Slots : BatchBounds(batches'[c], lives')
<1>1. /\ \A c \in Slots : batches[c].by \in 0 .. lives /\ batches[c].delay \in Waits
                          /\ batches[c].elapsed \in 0 .. MaxTurn
      /\ timer.delay \in Waits /\ lives \in Nat /\ runner \in {0, lives}
      /\ batches \in [Slots -> Batches] /\ 0 \in 0 .. MaxTurn
  BY HeartbeatAssumption DEF Inv, Piling, Typed, Bounded, BatchBounds
<1>2. \A c \in Slots : batches'[c] = IF c = b THEN new ELSE batches[c]
  BY <1>1
<1>3. BatchBounds(new, lives)
  BY <1>1, WaitsBounds DEF BatchBounds
<1> QED
  BY <1>2, <1>3 DEF Bounded

LEMMA InitBounded == Init => Bounded
<1> SUFFICES ASSUME Init PROVE Bounded
  OBVIOUS
<1>1. 0 \in 0 .. MaxTurn /\ 0 \in 0 .. Interval /\ 0 \in 0 .. Interval - 1 /\ Off \in Off .. Interval
      /\ 0 \in 0 .. MaxRequests /\ 0 \in 0 .. MaxChanges
  BY HeartbeatAssumption DEF Off
<1>2. \A b \in Slots : BatchBounds(batches[b], lives)
  <2>1. NoBatch.by = 0 /\ NoBatch.delay = 0 /\ NoBatch.elapsed = 0
    BY DEF NoBatch
  <2> QED
    BY <1>1, <2>1, WaitsBounds DEF Init, BatchBounds
<1>3. timer.left \in Waits /\ timer.delay \in Waits
  BY WaitsBounds DEF Init, NoTimer
<1> QED
  BY <1>1, <1>2, <1>3 DEF Init, Bounded, Dues

LEMMA NextBounded ==
  ASSUME Inv, Bounded, [Next]_vars
  PROVE  Bounded'
<1> DEFINE Clocks == dueIn \in Dues /\ ticker \in Off .. Interval /\ clock \in 0 .. Interval - 1
           Counts == /\ scheduled \in BOOLEAN /\ enabled \in BOOLEAN
                     /\ requests \in 0 .. MaxRequests /\ changes \in 0 .. MaxChanges
           Timer == timer.left \in Waits /\ timer.delay \in Waits
           Taking == \A b \in Slots : BatchBounds(batches[b], lives)
<1>1. Clocks /\ Counts /\ Timer /\ Taking
  BY DEF Bounded
<1>2. SUFFICES Clocks' /\ Counts' /\ Timer' /\ Taking'
  BY DEF Bounded
<1>3. UNCHANGED <<dueIn, ticker, clock>> => Clocks'
  BY <1>1
<1>4. UNCHANGED <<scheduled, enabled, requests, changes>> => Counts'
  BY <1>1
<1>5. UNCHANGED timer => Timer'
  BY <1>1
<1>6. UNCHANGED <<batches, lives>> => Taking'
  BY <1>1
<1>7. ASSUME NEW t \in Targets, NEW reason \in Reasons, NEW coalesce \in Delays,
             Request(t, reason, coalesce)
      PROVE  Clocks' /\ Counts' /\ Timer' /\ Taking'
  <2>1. Timer'
    BY <1>1, <1>7, ScheduledBounds, WaitsBounds DEF Request, Enqueue
  <2>2. Counts'
    BY <1>1, <1>7, HeartbeatAssumption DEF Request
  <2> QED
    BY <1>3, <1>6, <1>7, <2>1, <2>2 DEF Request, schedule
<1>8. ASSUME Tick PROVE Clocks' /\ Counts' /\ Timer' /\ Taking'
  <2>1. Timer'
    BY <1>1, <1>8, ScheduledBounds, WaitsBounds DEF Tick, Enqueue
  <2>2. Clocks'
    BY <1>1, <1>8, HeartbeatAssumption DEF Tick, Off
  <2> QED
    BY <1>4, <1>6, <1>8, <2>1, <2>2 DEF Tick, bounds
<1>9. ASSUME TimerFires PROVE Clocks' /\ Counts' /\ Timer' /\ Taking'
  <2>1. UNCHANGED <<dueIn, ticker, clock, enabled, requests, changes, lives>>
    BY <1>9 DEF TimerFires, schedule, bounds
  <2>2. NoTimer.left \in Waits /\ NoTimer.delay \in Waits
    BY WaitsBounds DEF NoTimer
  <2>3. CASE FiresInVain
    BY <1>1, <1>3, <1>6, <2>1, <2>2, <2>3 DEF FiresInVain
  <2>4. CASE FiresTooSoon
    BY <1>1, <1>3, <1>6, <2>1, <2>2, <2>4, ScheduledBounds DEF FiresTooSoon
  <2>5. CASE TakesBatch
    <3>1. Taking'
      <4> DEFINE b == FreeSlot
                 new == [NoBatch EXCEPT !.by = runner, !.delay = timer.delay, !.todo = pendingWakes]
      <4>1. CASE UNCHANGED batches
        BY <1>6, <2>1, <4>1
      <4>2. CASE batches' = [batches EXCEPT ![b] = new]
        <5>1. new.by = runner /\ new.delay = timer.delay /\ new.elapsed = 0
          BY DEF NoBatch
        <5>2. CASE b \in Slots
          <6> HIDE DEF b, new
          <6> QED
            BY <2>1, <4>2, <5>1, <5>2, BatchBounded
        <5>3. CASE b \notin Slots
          <6>1. batches' = batches
            BY <4>2, <5>3 DEF Inv, Typed
          <6> QED
            BY <1>6, <2>1, <6>1
        <5> QED
          BY <5>2, <5>3
      <4> QED
        BY <2>5, <4>1, <4>2 DEF TakesBatch
    <3> QED
      BY <1>1, <1>3, <2>1, <2>2, <2>5, <3>1 DEF TakesBatch
  <2> QED
    BY <1>9, <2>3, <2>4, <2>5 DEF TimerFires
<1>10. ASSUME NEW b \in Slots, NEW t \in Targets, Call(b, t)
       PROVE  Clocks' /\ Counts' /\ Timer' /\ Taking'
  <2> DEFINE meant == Meant(t, batches[b].todo[t])
             refused == [batches[b] EXCEPT !.todo[t] = NoWake]
             called(a) == [batches[b] EXCEPT !.target = t, !.left = meant \ {a}, !.turn = a]
  <2>1. UNCHANGED <<timer, scheduled, enabled, dueIn, clock, requests, changes, lives>>
    BY <1>10 DEF Call, bounds
  <2>2. batches \in [Slots -> Batches] /\ agents \in SUBSET Agents
    BY DEF Inv, Typed
  <2>3. PICK new : /\ batches' = [batches EXCEPT ![b] = new] /\ new.by = batches[b].by
                   /\ new.delay = batches[b].delay /\ new.elapsed = batches[b].elapsed
    <3>1. CASE batches' = [batches EXCEPT ![b].todo[t] = NoWake]
      <4>1. batches' = [batches EXCEPT ![b] = refused]
        BY <2>2, <3>1
      <4>2. refused.by = batches[b].by /\ refused.delay = batches[b].delay
            /\ refused.elapsed = batches[b].elapsed
        BY <2>2 DEF Batches
      <4> QED
        BY <4>1, <4>2
    <3>2. ASSUME NEW a, batches' = [batches EXCEPT ![b] =
                   [@ EXCEPT !.target = t, !.left = meant \ {a}, !.turn = a]]
          PROVE  \E new : /\ batches' = [batches EXCEPT ![b] = new] /\ new.by = batches[b].by
                          /\ new.delay = batches[b].delay /\ new.elapsed = batches[b].elapsed
      <4>1. batches' = [batches EXCEPT ![b] = called(a)]
        BY <2>2, <3>2
      <4>2. called(a).by = batches[b].by /\ called(a).delay = batches[b].delay
            /\ called(a).elapsed = batches[b].elapsed
        BY <2>2 DEF Batches
      <4> QED
        BY <4>1, <4>2
    <3> QED
      BY <1>10, <3>1, <3>2 DEF Call
  <2>4. Taking'
    BY <2>1, <2>3, BatchBounded
  <2>5. ticker' \in Off .. Interval
    <3>1. NextTick(agents, dueIn) \in Off .. Interval
      BY <1>1, <2>2, NextTickBounds
    <3> QED
      BY <1>1, <1>10, <3>1 DEF Call
  <2> QED
    BY <1>1, <1>4, <1>5, <2>1, <2>4, <2>5
<1>11. ASSUME NEW b \in Slots, batches' = Returned(b), lives' = lives
       PROVE  Taking'
  <2> DEFINE new == [batches[b] EXCEPT !.todo[batches[b].target] = NoWake, !.target = Nobody,
                                       !.left = {}, !.turn = Nobody, !.elapsed = 0, !.orphan = FALSE]
  <2>1. batches \in [Slots -> Batches]
    BY DEF Inv, Typed
  <2>2. batches' = [batches EXCEPT ![b] = new]
    BY <1>11, <2>1 DEF Returned
  <2>3. new.by = batches[b].by /\ new.delay = batches[b].delay /\ new.elapsed = 0
    BY <2>1 DEF Batches
  <2> HIDE DEF new
  <2> QED
    BY <1>11, <2>2, <2>3, BatchBounded
<1>12. ASSUME NEW b \in Slots, TurnFindsLaneBusy(b) PROVE Clocks' /\ Counts' /\ Timer' /\ Taking'
  <2>1. UNCHANGED <<scheduled, enabled, clock, requests, changes, lives>>
    BY <1>12 DEF TurnFindsLaneBusy, bounds
  <2>2. dueIn' \in Dues
    BY <1>1, <1>12, AdvancedBounds DEF TurnFindsLaneBusy
  <2>3. ticker' \in Off .. Interval
    BY <1>1, <1>12, <2>2, AdvancedBounds DEF TurnFindsLaneBusy
  <2>4. Timer'
    BY <1>1, <1>12, ScheduledBounds, WaitsBounds DEF TurnFindsLaneBusy
  <2>5. Taking'
    BY <1>11, <1>12, <2>1 DEF TurnFindsLaneBusy
  <2> QED
    BY <1>1, <1>4, <2>1, <2>2, <2>3, <2>4, <2>5
<1>13. ASSUME NEW b \in Slots, TurnEnds(b) PROVE Clocks' /\ Counts' /\ Timer' /\ Taking'
  <2>1. UNCHANGED <<timer, scheduled, enabled, clock, requests, changes, lives>>
    BY <1>13 DEF TurnEnds, bounds
  <2>2. dueIn' \in Dues
    BY <1>13, AdvancedBounds DEF TurnEnds
  <2>3. ticker' \in Off .. Interval
    BY <1>1, <1>13, <2>2, AdvancedBounds DEF TurnEnds
  <2>4. Taking'
    <3>1. CASE batches' = Returned(b)
      BY <1>11, <2>1, <3>1
    <3>2. ASSUME NEW a, batches' = [batches EXCEPT ![b] =
                   [@ EXCEPT !.left = batches[b].left \ {a}, !.turn = a]]
          PROVE  Taking'
      <4> DEFINE new == [batches[b] EXCEPT !.left = batches[b].left \ {a}, !.turn = a]
      <4>1. batches \in [Slots -> Batches]
        BY DEF Inv, Typed
      <4>2. batches' = [batches EXCEPT ![b] = new]
        BY <3>2, <4>1
      <4>3. new.by = batches[b].by /\ new.delay = batches[b].delay /\ new.elapsed = batches[b].elapsed
        BY <4>1 DEF Batches
      <4> HIDE DEF new
      <4> QED
        BY <2>1, <4>2, <4>3, BatchBounded
    <3> QED
      BY <1>13, <3>1, <3>2 DEF TurnEnds
  <2> QED
    BY <1>1, <1>4, <1>5, <2>1, <2>2, <2>3, <2>4
<1>14. ASSUME NEW b \in Slots, BatchEnds(b) PROVE Clocks' /\ Counts' /\ Timer' /\ Taking'
  <2>1. UNCHANGED <<scheduled, enabled, dueIn, ticker, clock, requests, changes, lives>>
    BY <1>14 DEF BatchEnds, schedule, bounds
  <2>2. batches[b].delay \in Waits
    BY DEF Bounded, BatchBounds
  <2>3. Timer'
    BY <1>1, <1>14, <2>2, ScheduledBounds DEF BatchEnds
  <2>4. NoBatch.by = 0 /\ NoBatch.delay = 0 /\ NoBatch.elapsed = 0
    BY DEF NoBatch
  <2>5. Taking'
    <3>1. batches' = [batches EXCEPT ![b] = NoBatch]
      BY <1>14 DEF BatchEnds
    <3> QED
      BY <2>1, <2>4, <3>1, BatchBounded
  <2> QED
    BY <1>3, <1>4, <2>1, <2>3, <2>5
<1>15. ASSUME NEW on \in BOOLEAN, SetEnabled(on) PROVE Clocks' /\ Counts' /\ Timer' /\ Taking'
  BY <1>1, <1>3, <1>5, <1>6, <1>15, HeartbeatAssumption DEF SetEnabled, Changing, layer, schedule
<1>16. ASSUME NEW live \in SUBSET Agents, UpdateConfig(live)
       PROVE  Clocks' /\ Counts' /\ Timer' /\ Taking'
  <2>1. UNCHANGED <<timer, scheduled, enabled, clock, requests, lives>>
    BY <1>16 DEF UpdateConfig
  <2>2. Counts'
    BY <1>1, <1>16, <2>1, HeartbeatAssumption DEF UpdateConfig, Changing
  <2>3. Clocks'
    BY <1>1, <1>16, <2>1, ConfiguredBounds DEF UpdateConfig
  <2>4. Taking'
    <3> SUFFICES ASSUME NEW b \in Slots
                 PROVE  BatchBounds(batches'[b], lives)
      BY <2>1
    <3> DEFINE o == batches[b].orphan \/ batches[b].turn # Nobody
    <3>1. batches'[b] = [batches[b] EXCEPT !.orphan = o]
      BY <1>16 DEF UpdateConfig
    <3>2. batches[b] \in Batches /\ BatchBounds(batches[b], lives)
      BY DEF Inv, Typed, Bounded
    <3> HIDE DEF o
    <3> QED
      BY <3>1, <3>2 DEF BatchBounds, Batches
  <2> QED
    BY <1>5, <2>1, <2>2, <2>3, <2>4
<1>17. ASSUME Stop PROVE Clocks' /\ Counts' /\ Timer' /\ Taking'
  <2>1. UNCHANGED <<timer, batches, scheduled, enabled, clock, requests, changes, lives>>
    BY <1>17 DEF Stop, layer, bounds
  <2>2. Clocks'
    BY <1>1, <1>17, <2>1, HeartbeatAssumption DEF Stop, Off, Dues
  <2> QED
    BY <1>4, <1>5, <1>6, <2>1, <2>2
<1>18. ASSUME NEW live \in SUBSET Agents, Start(live) PROVE Clocks' /\ Counts' /\ Timer' /\ Taking'
  <2>1. UNCHANGED <<batches, enabled, clock, requests, changes>> /\ lives' = lives + 1
        /\ scheduled' = FALSE /\ timer' = Taken(pendingWakes)
    BY <1>18 DEF Start
  <2>2. Clocks'
    BY <1>1, <1>18, <2>1, ConfiguredBounds DEF Start
  <2>3. Timer'
    <3>1. NoTimer.left \in Waits /\ NoTimer.delay \in Waits
      BY WaitsBounds DEF NoTimer
    <3> QED
      BY <2>1, <3>1, ScheduledBounds, WaitsBounds DEF Taken
  <2>4. Taking'
    <3>1. lives \in Nat
      BY DEF Inv, Piling
    <3>2. \A n \in 0 .. lives : n \in 0 .. lives + 1
      BY <3>1
    <3> QED
      BY <1>1, <2>1, <3>2 DEF BatchBounds
  <2> QED
    BY <1>1, <2>1, <2>2, <2>3, <2>4
<1>19. ASSUME Pass PROVE Clocks' /\ Counts' /\ Timer' /\ Taking'
  <2>1. UNCHANGED <<scheduled, enabled, requests, changes, lives>>
    BY <1>19 DEF Pass, bounds
  <2>2. Timer'
    <3>1. timer' = [timer EXCEPT !.left = Less(timer.left)]
      BY <1>19 DEF Pass
    <3>2. Less(timer.left) \in Waits
      BY <1>1, WaitsBounds
    <3>3. timer \in Timers
      BY DEF Inv, Typed
    <3>4. timer'.left = Less(timer.left) /\ timer'.delay = timer.delay
      BY <3>1, <3>3 DEF Timers, NoTimer
    <3> QED
      BY <1>1, <3>2, <3>4
  <2>3. Clocks'
    <3>1. (clock + 1) % Interval \in 0 .. Interval - 1
      BY <1>1, HeartbeatAssumption
    <3> QED
      BY <1>1, <1>19, <3>1, LessBounds DEF Pass, Dues
  <2>4. Taking'
    <3> SUFFICES ASSUME NEW b \in Slots
                 PROVE  BatchBounds(batches'[b], lives)
      BY <2>1
    <3>1. batches'[b] = IF batches[b].turn = Nobody THEN batches[b]
                        ELSE [batches[b] EXCEPT !.elapsed = @ + 1]
      BY <1>19 DEF Pass
    <3>2. batches[b] \in Batches /\ BatchBounds(batches[b], lives)
      BY DEF Inv, Typed, Bounded
    <3>3. CASE batches[b].turn = Nobody
      BY <3>1, <3>2, <3>3
    <3>4. CASE batches[b].turn # Nobody
      <4>1. b \in InProgress
        BY <3>4 DEF InProgress, NoBatch
      <4>2. batches[b].elapsed + 1 \in 0 .. MaxTurn
        BY <1>19, <3>2, <4>1, HeartbeatAssumption DEF Pass, BatchBounds
      <4> QED
        BY <3>1, <3>2, <3>4, <4>2 DEF BatchBounds, Batches
    <3> QED
      BY <3>3, <3>4
  <2> QED
    BY <1>4, <2>1, <2>2, <2>3, <2>4
<1>20. CASE UNCHANGED vars
  BY <1>3, <1>4, <1>5, <1>6, <1>20 DEF vars, layer, schedule, bounds
<1> HIDE DEF Clocks, Counts, Timer, Taking
<1> QED
  BY <1>7, <1>8, <1>9, <1>10, <1>12, <1>13, <1>14, <1>15, <1>16, <1>17, <1>18, <1>19, <1>20
     DEF Next

(* Wakes, timers, batches, schedules and counters have their types; in     *)
(* particular no timer is set further ahead than somebody has asked for,   *)
(* and no agent is due more than an interval from now.                     *)
THEOREM TypesHold == Spec => []TypeOK
<1>1. Inv /\ Bounded => TypeOK
  <2> SUFFICES ASSUME Inv, Bounded
               PROVE  TypeOK
    OBVIOUS
  <2>1. \A b \in Slots : batches[b] \in Batches /\ BatchBounds(batches[b], lives)
    BY DEF Inv, Typed, Bounded
  <2>2. timer \in [kind : {"none", "normal", "retry"}, left : Waits, delay : Waits]
    BY DEF Inv, Typed, Timers, NoTimer, Bounded
  <2>3. interrupted \in 0 .. MaxLives
    BY HeartbeatAssumption DEF Inv, Piling
  <2> QED
    BY <2>1, <2>2, <2>3 DEF TypeOK, Inv, Typed, Piling, Bounded, Batches, BatchBounds, Pendings, Dues
<1>2. Init => Inv /\ Bounded
  BY InitInv, InitBounded
<1>3. Inv /\ Bounded /\ [Next]_vars => Inv' /\ Bounded'
  BY NextInv, NextBounded
<1> QED
  BY <1>1, <1>2, <1>3, PTL DEF Spec
=============================================================================

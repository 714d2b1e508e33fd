------------------------- MODULE CommandLanes_proofs -------------------------
(***************************************************************************)
(* Proofs about the command queue, for every set of commands and lanes,    *)
(* every cap and any number of in-process restarts.                        *)
(*                                                                         *)
(* The inductive invariant (Inv) is the conjunction of the five invariants *)
(* that TLC checks on small instances and of two strengthenings: no task   *)
(* runs under a generation its lane has not reached (NotAhead), and a      *)
(* waiter's snapshot names started tasks only (SnapshotsLive).  All of     *)
(* them are needed at once: that a pump reaches every free slot            *)
(* (WorkConserving) counts the tasks it starts, which are as many as the   *)
(* entries it shifts only because a queue has no duplicates                *)
(* (QueuesHoldTheWaiting) and because no waiting entry already holds a     *)
(* slot (SlotsHeldByLiveTasks).                                            *)
(***************************************************************************)
EXTENDS CommandLanes, FiniteSetTheorems, TLAPS

-----------------------------------------------------------------------------
(* What the pump of one lane does to the lane's record, for any number of  *)
(* entries and slots; these lemmas are about the operators of LaneQueue.   *)

(* The entries waiting in a queue are distinct. *)
Distinct(q) == \A i, j \in DOMAIN q : q[i] = q[j] => i = j

(* The pump starts no more entries than wait and than there is room for,   *)
(* and stops only when one of the two runs out.                            *)
LEMMA StartCountBounds ==
  ASSUME NEW C, IsFiniteSet(C), NEW lane \in LaneState(C)
  PROVE  /\ IsFiniteSet(lane.activeTaskIds)
         /\ Cardinality(lane.activeTaskIds) \in Nat
         /\ FreeSlots(lane) \in Nat
         /\ StartCount(lane) \in 0 .. Len(lane.queue)
         /\ StartCount(lane) <= FreeSlots(lane)
         /\ StartCount(lane) = Len(lane.queue) \/ StartCount(lane) = FreeSlots(lane)
         /\ StartCount(lane) > 0 =>
              Cardinality(lane.activeTaskIds) + FreeSlots(lane) = lane.maxConcurrent
<1>1. /\ lane.queue \in Seq(C) /\ lane.activeTaskIds \in SUBSET C
      /\ lane.maxConcurrent \in Nat \ {0}
  BY DEF LaneState
<1>2. IsFiniteSet(lane.activeTaskIds)
  BY <1>1, FS_Subset
<1>3. Cardinality(lane.activeTaskIds) \in Nat
  BY <1>2, FS_CardinalityType
<1>4. Len(lane.queue) \in Nat
  BY <1>1
<1> QED
  BY <1>1, <1>2, <1>3, <1>4 DEF StartCount, FreeSlots

(* The pump takes a prefix off the queue and leaves a lane record. *)
LEMMA DrainLaneShape ==
  ASSUME NEW C, IsFiniteSet(C), NEW lane \in LaneState(C)
  PROVE  /\ DrainLane(lane) \in LaneState(C)
         /\ Started(lane) \subseteq C
         /\ DrainLane(lane).activeTaskIds = lane.activeTaskIds \cup Started(lane)
         /\ DrainLane(lane).maxConcurrent = lane.maxConcurrent
         /\ DrainLane(lane).generation = lane.generation
         /\ DrainLane(lane).queue = SubSeq(lane.queue, StartCount(lane) + 1, Len(lane.queue))
         /\ Len(DrainLane(lane).queue) = Len(lane.queue) - StartCount(lane)
         /\ \A i \in DOMAIN DrainLane(lane).queue :
              /\ i + StartCount(lane) \in DOMAIN lane.queue
              /\ DrainLane(lane).queue[i] = lane.queue[i + StartCount(lane)]
<1>1. /\ lane.queue \in Seq(C) /\ lane.activeTaskIds \in SUBSET C
      /\ lane.maxConcurrent \in Nat \ {0} /\ lane.generation \in Nat
      /\ Len(lane.queue) \in Nat /\ DOMAIN lane.queue = 1 .. Len(lane.queue)
  BY DEF LaneState
<1>2. StartCount(lane) \in 0 .. Len(lane.queue)
  BY StartCountBounds
<1> DEFINE n == StartCount(lane)
           rest == SubSeq(lane.queue, n + 1, Len(lane.queue))
<1> HIDE DEF n
<1>3. n \in 0 .. Len(lane.queue)
  BY <1>2 DEF n
<1>4. Started(lane) \subseteq C
  BY <1>1, <1>3 DEF Started, n
<1>5. /\ rest \in Seq(C) /\ Len(rest) = Len(lane.queue) - n
      /\ \A i \in 1 .. Len(rest) : rest[i] = lane.queue[i + n]
  BY <1>1, <1>3
<1> HIDE DEF rest
<1>6. DrainLane(lane) = [lane EXCEPT !.queue = rest,
                                    !.activeTaskIds = lane.activeTaskIds \cup Started(lane)]
  BY DEF DrainLane, n, rest
<1>7. /\ DrainLane(lane) \in LaneState(C)
      /\ DrainLane(lane).queue = rest
      /\ DrainLane(lane).activeTaskIds = lane.activeTaskIds \cup Started(lane)
      /\ DrainLane(lane).maxConcurrent = lane.maxConcurrent
      /\ DrainLane(lane).generation = lane.generation
  BY <1>1, <1>4, <1>5, <1>6 DEF LaneState
<1>8. \A i \in DOMAIN rest : i + n \in DOMAIN lane.queue /\ rest[i] = lane.queue[i + n]
  <2> SUFFICES ASSUME NEW i \in DOMAIN rest
               PROVE  i + n \in DOMAIN lane.queue /\ rest[i] = lane.queue[i + n]
    OBVIOUS
  <2>1. i \in 1 .. Len(rest)
    BY <1>5
  <2> QED BY <1>1, <1>3, <1>5, <2>1
<1>9. Len(DrainLane(lane).queue) = Len(lane.queue) - n
  BY <1>5, <1>7
<1>10. DrainLane(lane).queue = SubSeq(lane.queue, n + 1, Len(lane.queue))
  BY <1>7 DEF rest
<1>11. \A i \in DOMAIN DrainLane(lane).queue :
         i + n \in DOMAIN lane.queue /\ DrainLane(lane).queue[i] = lane.queue[i + n]
  BY <1>7, <1>8
<1> QED
  BY <1>4, <1>7, <1>9, <1>10, <1>11 DEF n

(* As many entries are started as are shifted off the queue. *)
LEMMA StartedCardinality ==
  ASSUME NEW C, IsFiniteSet(C), NEW lane \in LaneState(C), Distinct(lane.queue)
  PROVE  IsFiniteSet(Started(lane)) /\ Cardinality(Started(lane)) = StartCount(lane)
<1>1. /\ StartCount(lane) \in 0 .. Len(lane.queue)
      /\ Len(lane.queue) \in Nat /\ DOMAIN lane.queue = 1 .. Len(lane.queue)
  BY StartCountBounds DEF LaneState
<1> DEFINE I == 1 .. StartCount(lane)
           f == [i \in I |-> lane.queue[i]]
<1>2. IsFiniteSet(I) /\ Cardinality(I) = StartCount(lane)
  BY <1>1, FS_Interval
<1>3. f \in Bijection(I, Started(lane))
  BY <1>1 DEF Started, Distinct, Bijection, Injection, Surjection, IsInjective
<1> QED
  BY <1>2, <1>3, FS_Bijection DEF ExistsBijection

(* The first safety fact: a pump that starts anything leaves the lane      *)
(* within its cap.                                                         *)
LEMMA DrainLaneWithinCap ==
  ASSUME NEW C, IsFiniteSet(C), NEW lane \in LaneState(C), Distinct(lane.queue),
         Started(lane) # {}
  PROVE  Cardinality(DrainLane(lane).activeTaskIds) <= lane.maxConcurrent
<1>1. IsFiniteSet(Started(lane)) /\ Cardinality(Started(lane)) = StartCount(lane)
  BY StartedCardinality
<1>2. /\ IsFiniteSet(lane.activeTaskIds) /\ Cardinality(lane.activeTaskIds) \in Nat
      /\ FreeSlots(lane) \in Nat /\ StartCount(lane) \in Nat
      /\ StartCount(lane) <= FreeSlots(lane)
      /\ StartCount(lane) > 0 =>
           Cardinality(lane.activeTaskIds) + FreeSlots(lane) = lane.maxConcurrent
  BY StartCountBounds
<1>3. StartCount(lane) > 0
  BY <1>2 DEF Started
<1>4. /\ Cardinality(lane.activeTaskIds \cup Started(lane)) \in Nat
      /\ Cardinality(lane.activeTaskIds \cup Started(lane))
           <= Cardinality(lane.activeTaskIds) + Cardinality(Started(lane))
  <2>1. IsFiniteSet(lane.activeTaskIds \cap Started(lane))
    BY <1>1, FS_Subset
  <2>2. Cardinality(lane.activeTaskIds \cap Started(lane)) \in Nat
    BY <2>1, FS_CardinalityType
  <2>3. Cardinality(lane.activeTaskIds \cup Started(lane))
          = Cardinality(lane.activeTaskIds) + Cardinality(Started(lane))
              - Cardinality(lane.activeTaskIds \cap Started(lane))
    BY <1>1, <1>2, FS_Union
  <2>4. IsFiniteSet(lane.activeTaskIds \cup Started(lane))
    BY <1>1, <1>2, FS_Union
  <2>5. Cardinality(lane.activeTaskIds \cup Started(lane)) \in Nat
    BY <2>4, FS_CardinalityType
  <2> QED
    BY <1>1, <1>2, <2>2, <2>3, <2>5
<1>5. lane.maxConcurrent \in Nat
  BY DEF LaneState
<1>6. DrainLane(lane).activeTaskIds = lane.activeTaskIds \cup Started(lane)
  BY DrainLaneShape
<1> QED
  BY <1>1, <1>2, <1>3, <1>4, <1>5, <1>6

(* The second: a pump leaves nothing waiting in front of a free slot.      *)
LEMMA DrainLaneConserves ==
  ASSUME NEW C, IsFiniteSet(C), NEW lane \in LaneState(C), Distinct(lane.queue),
         \A i \in DOMAIN lane.queue : lane.queue[i] \notin lane.activeTaskIds,
         DrainLane(lane).queue # <<>>
  PROVE  FreeSlots(DrainLane(lane)) = 0
<1>1. IsFiniteSet(Started(lane)) /\ Cardinality(Started(lane)) = StartCount(lane)
  BY StartedCardinality
<1>2. /\ IsFiniteSet(lane.activeTaskIds) /\ Cardinality(lane.activeTaskIds) \in Nat
      /\ FreeSlots(lane) \in Nat /\ StartCount(lane) \in 0 .. Len(lane.queue)
      /\ StartCount(lane) = Len(lane.queue) \/ StartCount(lane) = FreeSlots(lane)
  BY StartCountBounds
<1>3. /\ DrainLane(lane) \in LaneState(C)
      /\ Len(DrainLane(lane).queue) = Len(lane.queue) - StartCount(lane)
      /\ DrainLane(lane).activeTaskIds = lane.activeTaskIds \cup Started(lane)
      /\ DrainLane(lane).maxConcurrent = lane.maxConcurrent
  BY DrainLaneShape
<1>4. Len(lane.queue) \in Nat /\ lane.maxConcurrent \in Nat \ {0}
      /\ DOMAIN lane.queue = 1 .. Len(lane.queue)
  BY DEF LaneState
<1>5. Len(DrainLane(lane).queue) # 0
  BY <1>3 DEF LaneState
<1>6. StartCount(lane) = FreeSlots(lane)
  BY <1>2, <1>3, <1>4, <1>5
<1>7. lane.activeTaskIds \cap Started(lane) = {}
  BY <1>2, <1>4 DEF Started
<1>8. Cardinality(lane.activeTaskIds \cup Started(lane))
        = Cardinality(lane.activeTaskIds) + Cardinality(Started(lane))
  <2>1. Cardinality(lane.activeTaskIds \cup Started(lane))
          = Cardinality(lane.activeTaskIds) + Cardinality(Started(lane))
              - Cardinality(lane.activeTaskIds \cap Started(lane))
    BY <1>1, <1>2, FS_Union
  <2>2. Cardinality(lane.activeTaskIds \cap Started(lane)) = 0
    BY <1>7, FS_EmptySet
  <2> QED
    BY <1>1, <1>2, <2>1, <2>2
<1>9. Cardinality(lane.activeTaskIds) + FreeSlots(lane) >= lane.maxConcurrent
  BY <1>2, <1>4 DEF FreeSlots
<1> QED
  BY <1>1, <1>2, <1>3, <1>4, <1>6, <1>8, <1>9 DEF FreeSlots

(* The other operations on a record: each changes the fields it is about.  *)
LEMMA PushedShape ==
  ASSUME NEW C, NEW lane \in LaneState(C), NEW c \in C
  PROVE  /\ Pushed(lane, c) \in LaneState(C)
         /\ Pushed(lane, c).queue = Append(lane.queue, c)
         /\ Pushed(lane, c).activeTaskIds = lane.activeTaskIds
         /\ Pushed(lane, c).maxConcurrent = lane.maxConcurrent
         /\ Pushed(lane, c).generation = lane.generation
<1> DEFINE q == Append(lane.queue, c)
<1>1. q \in Seq(C)
  BY DEF LaneState
<1>2. Pushed(lane, c) = [lane EXCEPT !.queue = q]
  BY DEF Pushed
<1> HIDE DEF q
<1>3. /\ Pushed(lane, c) \in LaneState(C) /\ Pushed(lane, c).queue = q
      /\ Pushed(lane, c).activeTaskIds = lane.activeTaskIds
      /\ Pushed(lane, c).maxConcurrent = lane.maxConcurrent
      /\ Pushed(lane, c).generation = lane.generation
  BY <1>1, <1>2 DEF LaneState
<1> QED BY <1>3 DEF q

LEMMA ClearedShape ==
  ASSUME NEW C, NEW lane \in LaneState(C)
  PROVE  /\ Cleared(lane) \in LaneState(C)
         /\ Cleared(lane).queue = <<>>
         /\ Cleared(lane).activeTaskIds = lane.activeTaskIds
         /\ Cleared(lane).maxConcurrent = lane.maxConcurrent
         /\ Cleared(lane).generation = lane.generation
<1> DEFINE q == <<>>
<1>1. q \in Seq(C)
  OBVIOUS
<1>2. Cleared(lane) = [lane EXCEPT !.queue = q]
  BY DEF Cleared
<1> HIDE DEF q
<1>3. /\ Cleared(lane) \in LaneState(C) /\ Cleared(lane).queue = q
      /\ Cleared(lane).activeTaskIds = lane.activeTaskIds
      /\ Cleared(lane).maxConcurrent = lane.maxConcurrent
      /\ Cleared(lane).generation = lane.generation
  BY <1>1, <1>2 DEF LaneState
<1> QED BY <1>3 DEF q

LEMMA ResetShape ==
  ASSUME NEW C, NEW lane \in LaneState(C)
  PROVE  /\ Reset(lane) \in LaneState(C)
         /\ Reset(lane).queue = lane.queue
         /\ Reset(lane).activeTaskIds = {}
         /\ Reset(lane).maxConcurrent = lane.maxConcurrent
         /\ Reset(lane).generation = lane.generation + 1
<1> DEFINE A == [lane EXCEPT !.activeTaskIds = {}]
           g == lane.generation + 1
<1>1. /\ A \in LaneState(C) /\ A.queue = lane.queue /\ A.activeTaskIds = {}
      /\ A.maxConcurrent = lane.maxConcurrent
  BY DEF LaneState
<1>2. g \in Nat
  BY DEF LaneState
<1>3. Reset(lane) = [A EXCEPT !.generation = g]
  BY DEF Reset
<1> HIDE DEF A, g
<1>4. /\ Reset(lane) \in LaneState(C) /\ Reset(lane).queue = A.queue
      /\ Reset(lane).activeTaskIds = A.activeTaskIds
      /\ Reset(lane).maxConcurrent = A.maxConcurrent
      /\ Reset(lane).generation = g
  BY <1>1, <1>2, <1>3 DEF LaneState
<1> QED BY <1>1, <1>4 DEF g

-----------------------------------------------------------------------------
(* The invariants as predicates of values, so that they can be stated of   *)
(* the intermediate records an operation hands to the pump.                *)

QueuesHold(ls, st, lo) ==
  /\ \A l \in Lanes : \A i \in DOMAIN ls[l].queue :
       /\ st[ls[l].queue[i]] = "queued"
       /\ lo[ls[l].queue[i]] = l
       /\ \A j \in DOMAIN ls[l].queue : ls[l].queue[i] = ls[l].queue[j] => i = j
  /\ \A c \in Commands : st[c] = "queued" =>
       \E i \in DOMAIN ls[lo[c]].queue : ls[lo[c]].queue[i] = c

SlotsHeld(ls, st, lo, tg) ==
  \A l \in Lanes :
    ls[l].activeTaskIds = {c \in Commands : /\ st[c] = "running"
                                           /\ lo[c] = l
                                           /\ tg[c] = ls[l].generation}

(* The strengthening: no task runs under a generation its lane has yet to  *)
(* reach, so that a reset takes the slots of all tasks that are running.   *)
NotAhead(ls, st, lo, tg) ==
  \A c \in Commands : st[c] = "running" => tg[c] <= ls[lo[c]].generation

Conserving(ls, S) == \A l \in S : ls[l].queue # <<>> => FreeSlots(ls[l]) = 0

WellTyped(ls, st, lo, tg) ==
  /\ ls \in [Lanes -> LaneState(Commands)]
  /\ st \in [Commands -> Stages]
  /\ lo \in [Commands -> Lanes]
  /\ tg \in [Commands -> Nat]

Core(ls, st, lo, tg) ==
  /\ WellTyped(ls, st, lo, tg)
  /\ QueuesHold(ls, st, lo)
  /\ SlotsHeld(ls, st, lo, tg)
  /\ NotAhead(ls, st, lo, tg)

(* What holds between operations, and what an operation hands to the pump  *)
(* of the lanes S: there a free slot may stand in front of waiting entries.*)
Good(ls, st, lo, tg) == Core(ls, st, lo, tg) /\ Conserving(ls, Lanes)
Ready(S, ls, st, lo, tg) == Core(ls, st, lo, tg) /\ Conserving(ls, Lanes \ S)

(* What a pump leaves alone. *)
SlotsKept(ls, ls2) ==
  \A l \in Lanes : /\ ls[l].activeTaskIds \subseteq ls2[l].activeTaskIds
                   /\ ls2[l].generation = ls[l].generation
                   /\ ls2[l].maxConcurrent = ls[l].maxConcurrent
OthersKept(st, tg, st2, tg2) ==
  \A c \in Commands : st[c] # "queued" => st2[c] = st[c] /\ tg2[c] = tg[c]

(* StartsWithinCap, between two families of lane records. *)
WithinCap(ls, ls2) ==
  \A l \in Lanes : ls2[l].activeTaskIds \ ls[l].activeTaskIds # {} =>
    Cardinality(ls2[l].activeTaskIds) <= ls2[l].maxConcurrent

(* The action Drain as a relation between values. *)
Drains(S, ls, st, tg, ls2, st2, tg2) ==
  LET started == UNION {Started(ls[l]) : l \in S}
  IN /\ ls2 = [l \in Lanes |-> IF l \in S THEN DrainLane(ls[l]) ELSE ls[l]]
     /\ st2 = [c \in Commands |-> IF c \in started THEN "running" ELSE st[c]]
     /\ tg2 = [c \in Commands |->
          IF c \in started THEN ls[CHOOSE l \in S : c \in Started(ls[l])].generation
          ELSE tg[c]]

LEMMA DrainIsDrains ==
  ASSUME NEW S, NEW ls, NEW st, Drain(S, ls, st)
  PROVE  Drains(S, ls, st, taskGeneration, lanes', stage', taskGeneration')
BY DEF Drain, Drains

(* What a pump starts was waiting, in the queue of its own lane. *)
LEMMA StartedWereWaiting ==
  ASSUME NEW ls, NEW st, NEW lo, NEW tg, WellTyped(ls, st, lo, tg),
         QueuesHold(ls, st, lo), NEW l \in Lanes, NEW c \in Started(ls[l])
  PROVE  c \in Commands /\ st[c] = "queued" /\ lo[c] = l
<1>1. ls[l] \in LaneState(Commands)
  BY DEF WellTyped
<1>2. StartCount(ls[l]) \in 0 .. Len(ls[l].queue) /\ Started(ls[l]) \subseteq Commands
  BY <1>1, LanesAssumption, StartCountBounds, DrainLaneShape
<1>3. PICK i \in 1 .. StartCount(ls[l]) : c = ls[l].queue[i]
  BY DEF Started
<1>4. DOMAIN ls[l].queue = 1 .. Len(ls[l].queue) /\ Len(ls[l].queue) \in Nat
  BY <1>1 DEF LaneState
<1>5. i \in DOMAIN ls[l].queue
  BY <1>2, <1>3, <1>4
<1> QED
  BY <1>2, <1>3, <1>5 DEF QueuesHold

(* A pump of the lanes S keeps the invariants of queues and slots, and     *)
(* leaves no free slot in S in front of a waiting entry.                   *)
LEMMA PumpKeeps ==
  ASSUME NEW S \in SUBSET Lanes, NEW ls, NEW st, NEW lo, NEW tg,
         NEW ls2, NEW st2, NEW tg2,
         Ready(S, ls, st, lo, tg), Drains(S, ls, st, tg, ls2, st2, tg2)
  PROVE  /\ Good(ls2, st2, lo, tg2)
         /\ SlotsKept(ls, ls2)
         /\ OthersKept(st, tg, st2, tg2)
         /\ WithinCap(ls, ls2)
<1>0. /\ WellTyped(ls, st, lo, tg) /\ QueuesHold(ls, st, lo)
      /\ SlotsHeld(ls, st, lo, tg) /\ NotAhead(ls, st, lo, tg)
      /\ Conserving(ls, Lanes \ S)
  BY DEF Ready, Core
<1> DEFINE started == UNION {Started(ls[l]) : l \in S}
<1>1. \A l \in S : \A c \in Started(ls[l]) : c \in Commands /\ st[c] = "queued" /\ lo[c] = l
  BY <1>0, StartedWereWaiting
<1>2. \A l \in Lanes : /\ ls[l] \in LaneState(Commands)
                       /\ Distinct(ls[l].queue)
                       /\ DOMAIN ls[l].queue = 1 .. Len(ls[l].queue)
                       /\ Len(ls[l].queue) \in Nat
                       /\ \A i \in DOMAIN ls[l].queue : ls[l].queue[i] \in Commands
  BY <1>0 DEF WellTyped, LaneState, QueuesHold, Distinct
<1>3. \A l \in Lanes :
        /\ DrainLane(ls[l]) \in LaneState(Commands)
        /\ DrainLane(ls[l]).activeTaskIds = ls[l].activeTaskIds \cup Started(ls[l])
        /\ DrainLane(ls[l]).maxConcurrent = ls[l].maxConcurrent
        /\ DrainLane(ls[l]).generation = ls[l].generation
        /\ Len(DrainLane(ls[l]).queue) = Len(ls[l].queue) - StartCount(ls[l])
        /\ \A i \in DOMAIN DrainLane(ls[l]).queue :
             /\ i + StartCount(ls[l]) \in DOMAIN ls[l].queue
             /\ DrainLane(ls[l]).queue[i] = ls[l].queue[i + StartCount(ls[l])]
        /\ StartCount(ls[l]) \in 0 .. Len(ls[l].queue)
        /\ DOMAIN DrainLane(ls[l]).queue = 1 .. Len(DrainLane(ls[l]).queue)
  <2> TAKE l \in Lanes
  <2>1. DrainLane(ls[l]) \in LaneState(Commands)
    BY <1>2, LanesAssumption, DrainLaneShape
  <2>2. DOMAIN DrainLane(ls[l]).queue = 1 .. Len(DrainLane(ls[l]).queue)
    BY <2>1 DEF LaneState
  <2> QED
    BY <1>2, <2>1, <2>2, LanesAssumption, DrainLaneShape, StartCountBounds
<1>4. \A c \in started : c \in Commands /\ st[c] = "queued" /\ lo[c] \in S
                         /\ c \in Started(ls[lo[c]])
  BY <1>1
<1>5. \A c \in Commands : tg2[c] = IF c \in started THEN ls[lo[c]].generation ELSE tg[c]
  <2> TAKE c \in Commands
  <2>1. CASE c \notin started
    BY <2>1 DEF Drains
  <2>2. CASE c \in started
    <3>1. (CHOOSE l \in S : c \in Started(ls[l])) = lo[c]
      BY <1>1, <1>4, <2>2
    <3>2. tg2[c] = ls[CHOOSE l \in S : c \in Started(ls[l])].generation
      BY <2>2 DEF Drains
    <3> QED
      BY <2>2, <3>1, <3>2
  <2> QED BY <2>1, <2>2
<1>6. \A c \in Commands : st2[c] = IF c \in started THEN "running" ELSE st[c]
  BY DEF Drains
<1>7. \A l \in Lanes : ls2[l] = IF l \in S THEN DrainLane(ls[l]) ELSE ls[l]
  BY DEF Drains
<1>8. WellTyped(ls2, st2, lo, tg2)
  <2>1. ls2 \in [Lanes -> LaneState(Commands)]
    BY <1>2, <1>3 DEF Drains
  <2>2. st2 \in [Commands -> Stages]
    BY <1>0 DEF Drains, WellTyped, Stages
  <2>3. \A c \in Commands : tg2[c] \in Nat
    <3> TAKE c \in Commands
    <3>1. c \in started => ls[lo[c]].generation \in Nat
      BY <1>2, <1>4 DEF LaneState
    <3> QED BY <1>0, <1>5, <3>1 DEF WellTyped
  <2>4. tg2 \in [Commands -> Nat]
    BY <2>3 DEF Drains
  <2> QED BY <1>0, <2>1, <2>2, <2>4 DEF WellTyped
<1>9. QueuesHold(ls2, st2, lo)
  <2>1. ASSUME NEW l \in Lanes, NEW i \in DOMAIN ls2[l].queue
        PROVE  /\ st2[ls2[l].queue[i]] = "queued"
               /\ lo[ls2[l].queue[i]] = l
               /\ \A j \in DOMAIN ls2[l].queue : ls2[l].queue[i] = ls2[l].queue[j] => i = j
    <3>1. CASE l \notin S
      <4>1. ls2[l] = ls[l]
        BY <1>7, <3>1
      <4>2. ls2[l].queue[i] \notin started
        BY <1>0, <1>4, <3>1, <4>1 DEF QueuesHold
      <4> QED
        BY <1>0, <1>2, <1>6, <4>1, <4>2 DEF QueuesHold
    <3>2. CASE l \in S
      <4> DEFINE n == StartCount(ls[l])
      <4>1. /\ n \in Nat /\ i \in Nat
            /\ i + n \in DOMAIN ls[l].queue
            /\ ls2[l].queue[i] = ls[l].queue[i + n]
            /\ \A j \in DOMAIN ls2[l].queue : /\ j \in Nat
                                              /\ j + n \in DOMAIN ls[l].queue
                                              /\ ls2[l].queue[j] = ls[l].queue[j + n]
        BY <1>2, <1>3, <1>7, <3>2
      <4>2. i > 0
        BY <1>3, <1>7, <3>2
      <4>3. ls[l].queue[i + n] \notin started
        <5> SUFFICES ASSUME ls[l].queue[i + n] \in started PROVE FALSE
          OBVIOUS
        <5>1. lo[ls[l].queue[i + n]] = l
          BY <1>0, <4>1 DEF QueuesHold
        <5>2. ls[l].queue[i + n] \in Started(ls[l])
          BY <1>4, <5>1
        <5>3. PICK k \in 1 .. n : ls[l].queue[i + n] = ls[l].queue[k]
          BY <5>2 DEF Started
        <5>4. k \in DOMAIN ls[l].queue
          BY <1>2, <1>3, <5>3
        <5>5. i + n = k
          BY <1>2, <4>1, <5>3, <5>4 DEF Distinct
        <5> QED
          BY <4>1, <4>2, <5>3, <5>5
      <4>4. ls[l].queue[i + n] \in Commands
        BY <1>2, <4>1
      <4>5. st2[ls2[l].queue[i]] = "queued" /\ lo[ls2[l].queue[i]] = l
        BY <1>0, <1>6, <4>1, <4>3, <4>4 DEF QueuesHold
      <4>6. \A j \in DOMAIN ls2[l].queue : ls2[l].queue[i] = ls2[l].queue[j] => i = j
        <5> TAKE j \in DOMAIN ls2[l].queue
        <5> HAVE ls2[l].queue[i] = ls2[l].queue[j]
        <5>1. i + n = j + n
          BY <1>2, <4>1 DEF Distinct
        <5> QED BY <4>1, <5>1
      <4> QED BY <4>5, <4>6
    <3> QED BY <3>1, <3>2
  <2>2. ASSUME NEW c \in Commands, st2[c] = "queued"
        PROVE  \E i \in DOMAIN ls2[lo[c]].queue : ls2[lo[c]].queue[i] = c
    <3>1. st[c] = "queued" /\ c \notin started /\ lo[c] \in Lanes
      BY <1>0, <1>6, <2>2 DEF WellTyped
    <3> DEFINE l == lo[c]
    <3>2. PICK k \in DOMAIN ls[l].queue : ls[l].queue[k] = c
      BY <1>0, <3>1 DEF QueuesHold
    <3>3. CASE l \notin S
      BY <1>7, <3>1, <3>2, <3>3
    <3>4. CASE l \in S
      <4> DEFINE n == StartCount(ls[l])
      <4>1. n \in 0 .. Len(ls[l].queue) /\ k \in 1 .. Len(ls[l].queue)
            /\ Len(ls[l].queue) \in Nat
        BY <1>2, <1>3, <3>1, <3>2
      <4>2. k \notin 1 .. n
        BY <3>1, <3>2, <3>4 DEF Started
      <4>3. k - n \in 1 .. (Len(ls[l].queue) - n)
        BY <4>1, <4>2
      <4>4. k - n \in DOMAIN DrainLane(ls[l]).queue
        BY <1>3, <3>1, <4>3
      <4>5. DrainLane(ls[l]).queue[k - n] = ls[l].queue[(k - n) + n]
        BY <1>3, <3>1, <4>4
      <4>6. (k - n) + n = k
        BY <4>1
      <4> QED BY <1>7, <3>1, <3>2, <3>4, <4>4, <4>5, <4>6
    <3> QED BY <3>3, <3>4
  <2> QED BY <1>0, <2>1, <2>2 DEF QueuesHold
<1>10. SlotsHeld(ls2, st2, lo, tg2)
  <2> SUFFICES ASSUME NEW l \in Lanes
               PROVE ls2[l].activeTaskIds = {c \in Commands : /\ st2[c] = "running"
                                                             /\ lo[c] = l
                                                             /\ tg2[c] = ls2[l].generation}
    BY DEF SlotsHeld
  <2>1. ls2[l].generation = ls[l].generation
    BY <1>3, <1>7
  <2>2. ls[l].activeTaskIds = {c \in Commands : /\ st[c] = "running"
                                               /\ lo[c] = l
                                               /\ tg[c] = ls[l].generation}
    BY <1>0 DEF SlotsHeld
  <2>3. \A c \in Commands : c \in started => st[c] # "running"
    BY <1>4
  <2>4. ls2[l].activeTaskIds = ls[l].activeTaskIds \cup (IF l \in S THEN Started(ls[l]) ELSE {})
    BY <1>3, <1>7
  <2>5. \A c \in Commands : c \in started /\ lo[c] = l <=> l \in S /\ c \in Started(ls[l])
    BY <1>1
  <2> QED
    BY <1>1, <1>5, <1>6, <2>1, <2>2, <2>3, <2>4, <2>5
<1>11. Conserving(ls2, S)
  <2> SUFFICES ASSUME NEW l \in S, ls2[l].queue # <<>> PROVE FreeSlots(ls2[l]) = 0
    BY DEF Conserving
  <2>1. \A i \in DOMAIN ls[l].queue : ls[l].queue[i] \notin ls[l].activeTaskIds
    BY <1>0 DEF QueuesHold, SlotsHeld
  <2>2. ls2[l] = DrainLane(ls[l])
    BY <1>7
  <2> QED BY <1>2, <2>1, <2>2, LanesAssumption, DrainLaneConserves
<1>12. \A l \in Lanes : ls2[l].activeTaskIds \ ls[l].activeTaskIds # {} =>
         Cardinality(ls2[l].activeTaskIds) <= ls2[l].maxConcurrent
  <2> TAKE l \in Lanes
  <2> HAVE ls2[l].activeTaskIds \ ls[l].activeTaskIds # {}
  <2>1. l \in S /\ Started(ls[l]) # {} /\ ls2[l] = DrainLane(ls[l])
    BY <1>3, <1>7
  <2> QED BY <1>2, <1>3, <2>1, LanesAssumption, DrainLaneWithinCap
<1>13. \A c \in Commands : st[c] # "queued" => st2[c] = st[c] /\ tg2[c] = tg[c]
  BY <1>4, <1>5, <1>6
<1>14. \A l \in Lanes : /\ ls[l].activeTaskIds \subseteq ls2[l].activeTaskIds
                        /\ ls2[l].generation = ls[l].generation
                        /\ ls2[l].maxConcurrent = ls[l].maxConcurrent
  BY <1>3, <1>7
<1>15. \A l \in Lanes \ S : ls2[l] = ls[l]
  BY <1>7
<1>16. Conserving(ls2, Lanes)
  BY <1>0, <1>11, <1>15 DEF Conserving
<1>17. NotAhead(ls2, st2, lo, tg2)
  <2> SUFFICES ASSUME NEW c \in Commands, st2[c] = "running"
               PROVE  tg2[c] <= ls2[lo[c]].generation
    BY DEF NotAhead
  <2>1. lo[c] \in Lanes /\ ls[lo[c]].generation \in Nat
    BY <1>0, <1>2 DEF WellTyped, LaneState
  <2>2. ls2[lo[c]].generation = ls[lo[c]].generation
    BY <1>14, <2>1
  <2>3. CASE c \in started
    BY <1>5, <2>1, <2>2, <2>3
  <2>4. CASE c \notin started
    BY <1>5, <1>6, <2>2, <2>4, <1>0 DEF NotAhead
  <2> QED BY <2>3, <2>4
<1> QED
  BY <1>8, <1>9, <1>10, <1>12, <1>13, <1>14, <1>16, <1>17
     DEF Good, Core, SlotsKept, OthersKept, WithinCap

-----------------------------------------------------------------------------
(* What each operation hands to the pump. *)

(* enqueueCommandInLane pushes the command at the end of its lane. *)
LEMMA PushReady ==
  ASSUME NEW ls, NEW st, NEW lo, NEW tg, Good(ls, st, lo, tg),
         NEW c \in Commands, st[c] = "new", NEW lane \in Lanes
  PROVE  Ready({lane}, [ls EXCEPT ![lane] = Pushed(@, c)], [st EXCEPT ![c] = "queued"],
               [lo EXCEPT ![c] = lane], tg)
<1> DEFINE ls1 == [ls EXCEPT ![lane] = Pushed(@, c)]
           st1 == [st EXCEPT ![c] = "queued"]
           lo1 == [lo EXCEPT ![c] = lane]
<1>1. /\ WellTyped(ls, st, lo, tg) /\ QueuesHold(ls, st, lo) /\ SlotsHeld(ls, st, lo, tg)
      /\ NotAhead(ls, st, lo, tg) /\ Conserving(ls, Lanes)
  BY DEF Good, Core
<1>2. \A l \in Lanes : /\ ls[l] \in LaneState(Commands)
                       /\ ls[l].queue \in Seq(Commands)
                       /\ DOMAIN ls[l].queue = 1 .. Len(ls[l].queue)
                       /\ Len(ls[l].queue) \in Nat
                       /\ \A i \in DOMAIN ls[l].queue : ls[l].queue[i] \in Commands
  BY <1>1 DEF WellTyped, LaneState
<1>3. /\ Pushed(ls[lane], c) \in LaneState(Commands)
      /\ Pushed(ls[lane], c).queue = Append(ls[lane].queue, c)
      /\ Pushed(ls[lane], c).activeTaskIds = ls[lane].activeTaskIds
      /\ Pushed(ls[lane], c).maxConcurrent = ls[lane].maxConcurrent
      /\ Pushed(ls[lane], c).generation = ls[lane].generation
  BY <1>2, PushedShape
<1>4. \A l \in Lanes : ls1[l] = IF l = lane THEN Pushed(ls[lane], c) ELSE ls[l]
  BY <1>1 DEF WellTyped
<1>5. \A d \in Commands : /\ st1[d] = IF d = c THEN "queued" ELSE st[d]
                          /\ lo1[d] = IF d = c THEN lane ELSE lo[d]
  BY <1>1 DEF WellTyped
<1>6. WellTyped(ls1, st1, lo1, tg)
  BY <1>1, <1>3, <1>4 DEF WellTyped, Stages
<1> HIDE DEF ls1, st1, lo1
<1>7. \A l \in Lanes : \A i \in DOMAIN ls[l].queue : ls[l].queue[i] # c
  BY <1>1 DEF QueuesHold
<1>8. /\ DOMAIN ls1[lane].queue = 1 .. (Len(ls[lane].queue) + 1)
      /\ ls1[lane].queue[Len(ls[lane].queue) + 1] = c
      /\ \A i \in DOMAIN ls[lane].queue : ls1[lane].queue[i] = ls[lane].queue[i]
      /\ Len(ls[lane].queue) \in Nat
      /\ DOMAIN ls[lane].queue = 1 .. Len(ls[lane].queue)
  BY <1>2, <1>3, <1>4
<1>9. QueuesHold(ls1, st1, lo1)
  <2>1. ASSUME NEW l \in Lanes, NEW i \in DOMAIN ls1[l].queue
        PROVE  /\ st1[ls1[l].queue[i]] = "queued"
               /\ lo1[ls1[l].queue[i]] = l
               /\ \A j \in DOMAIN ls1[l].queue : ls1[l].queue[i] = ls1[l].queue[j] => i = j
    <3>1. CASE l # lane
      BY <1>1, <1>2, <1>4, <1>5, <1>7, <3>1 DEF QueuesHold
    <3>2. CASE l = lane
      <4>1. \A j \in DOMAIN ls1[lane].queue : j \notin DOMAIN ls[lane].queue => ls1[lane].queue[j] = c
        BY <1>8
      <4>2. \A j \in DOMAIN ls1[lane].queue, k \in DOMAIN ls1[lane].queue :
               j \notin DOMAIN ls[lane].queue /\ k \notin DOMAIN ls[lane].queue => j = k
        BY <1>8
      <4>3. \A j \in DOMAIN ls[lane].queue : ls1[lane].queue[j] # c
        BY <1>7, <1>8
      <4>4. CASE i \in DOMAIN ls[lane].queue
        <5>1. /\ ls1[l].queue[i] = ls[lane].queue[i] /\ ls[lane].queue[i] \in Commands
              /\ ls[lane].queue[i] # c
          BY <1>2, <1>7, <1>8, <3>2, <4>4
        <5>2. st1[ls1[l].queue[i]] = "queued" /\ lo1[ls1[l].queue[i]] = l
          BY <1>1, <1>5, <3>2, <4>4, <5>1 DEF QueuesHold
        <5>3. ASSUME NEW j \in DOMAIN ls1[l].queue, ls1[l].queue[i] = ls1[l].queue[j]
              PROVE  i = j
          <6>1. j \in DOMAIN ls[lane].queue
            BY <3>2, <4>1, <5>1, <5>3
          <6> QED BY <1>1, <1>8, <3>2, <4>4, <5>1, <5>3, <6>1 DEF QueuesHold
        <5> QED BY <5>2, <5>3
      <4>5. CASE i \notin DOMAIN ls[lane].queue
        <5>1. ls1[l].queue[i] = c
          BY <3>2, <4>1, <4>5
        <5> QED BY <1>5, <3>2, <4>2, <4>3, <4>5, <5>1
      <4> QED BY <4>4, <4>5
    <3> QED BY <3>1, <3>2
  <2>2. ASSUME NEW d \in Commands, st1[d] = "queued"
        PROVE  \E i \in DOMAIN ls1[lo1[d]].queue : ls1[lo1[d]].queue[i] = d
    <3>1. CASE d = c
      <4>1. Len(ls[lane].queue) + 1 \in DOMAIN ls1[lane].queue
        BY <1>8
      <4> QED BY <1>5, <1>8, <3>1, <4>1
    <3>2. CASE d # c
      <4>1. st[d] = "queued" /\ lo1[d] = lo[d] /\ lo[d] \in Lanes
        BY <1>1, <1>5, <2>2, <3>2 DEF WellTyped
      <4>2. PICK k \in DOMAIN ls[lo[d]].queue : ls[lo[d]].queue[k] = d
        BY <1>1, <4>1 DEF QueuesHold
      <4>3. k \in DOMAIN ls1[lo[d]].queue /\ ls1[lo[d]].queue[k] = d
        BY <1>4, <1>8, <4>1, <4>2
      <4> QED BY <4>1, <4>3
    <3> QED BY <3>1, <3>2
  <2> QED BY <2>1, <2>2 DEF QueuesHold
<1>10. SlotsHeld(ls1, st1, lo1, tg)
  BY <1>1, <1>3, <1>4, <1>5 DEF SlotsHeld
<1>11. NotAhead(ls1, st1, lo1, tg)
  <2>1. \A l \in Lanes : ls1[l].generation = ls[l].generation
    BY <1>3, <1>4
  <2>2. \A d \in Commands : st1[d] = "running" => /\ st[d] = "running"
                                                   /\ lo1[d] = lo[d] /\ lo[d] \in Lanes
    BY <1>1, <1>5 DEF WellTyped
  <2> QED BY <1>1, <2>1, <2>2 DEF NotAhead
<1>12. Conserving(ls1, Lanes \ {lane})
  BY <1>1, <1>4 DEF Conserving
<1> QED BY <1>6, <1>9, <1>10, <1>11, <1>12 DEF Ready, Core, ls1, st1, lo1

(* A task of the present generation gives its slot back. *)
LEMMA CompletedReady ==
  ASSUME NEW ls, NEW st, NEW lo, NEW tg, Good(ls, st, lo, tg),
         NEW c \in Commands, st[c] = "running", NEW outcome \in {"resolved", "rejected"},
         IsCurrent(ls[lo[c]], tg[c])
  PROVE  Ready({lo[c]}, [ls EXCEPT ![lo[c]] = Completed(@, c)], [st EXCEPT ![c] = outcome],
               lo, tg)
<1> DEFINE ls1 == [ls EXCEPT ![lo[c]] = Completed(@, c)]
           st1 == [st EXCEPT ![c] = outcome]
<1>1. /\ WellTyped(ls, st, lo, tg) /\ QueuesHold(ls, st, lo) /\ SlotsHeld(ls, st, lo, tg)
      /\ NotAhead(ls, st, lo, tg) /\ Conserving(ls, Lanes)
  BY DEF Good, Core
<1>2. lo[c] \in Lanes /\ ls[lo[c]] \in LaneState(Commands)
  BY <1>1 DEF WellTyped
<1>3. /\ Completed(ls[lo[c]], c) \in LaneState(Commands)
      /\ Completed(ls[lo[c]], c).queue = ls[lo[c]].queue
      /\ Completed(ls[lo[c]], c).activeTaskIds = ls[lo[c]].activeTaskIds \ {c}
      /\ Completed(ls[lo[c]], c).maxConcurrent = ls[lo[c]].maxConcurrent
      /\ Completed(ls[lo[c]], c).generation = ls[lo[c]].generation
  BY <1>2 DEF Completed, LaneState
<1>4. \A l \in Lanes : ls1[l] = IF l = lo[c] THEN Completed(ls[lo[c]], c) ELSE ls[l]
  BY <1>1 DEF WellTyped
<1>5. \A d \in Commands : st1[d] = IF d = c THEN outcome ELSE st[d]
  BY <1>1 DEF WellTyped
<1>6. WellTyped(ls1, st1, lo, tg)
  BY <1>1, <1>3, <1>4 DEF WellTyped, Stages, Settled
<1> HIDE DEF ls1, st1
<1>7. QueuesHold(ls1, st1, lo)
  <2>1. \A l \in Lanes : ls1[l].queue = ls[l].queue
    BY <1>3, <1>4
  <2>2. \A l \in Lanes : \A i \in DOMAIN ls[l].queue : /\ ls[l].queue[i] \in Commands
                                                      /\ ls[l].queue[i] # c
    BY <1>1 DEF QueuesHold, WellTyped, LaneState
  <2>3. \A d \in Commands : st1[d] = "queued" <=> st[d] = "queued"
    BY <1>5
  <2>4. \A d \in Commands : lo[d] \in Lanes
    BY <1>1 DEF WellTyped
  <2> QED BY <1>1, <2>1, <2>2, <2>3, <2>4 DEF QueuesHold
<1>8. SlotsHeld(ls1, st1, lo, tg)
  <2> SUFFICES ASSUME NEW l \in Lanes
               PROVE ls1[l].activeTaskIds = {d \in Commands : /\ st1[d] = "running"
                                                             /\ lo[d] = l
                                                             /\ tg[d] = ls1[l].generation}
    BY DEF SlotsHeld
  <2>1. ls[l].activeTaskIds = {d \in Commands : /\ st[d] = "running"
                                               /\ lo[d] = l
                                               /\ tg[d] = ls[l].generation}
    BY <1>1 DEF SlotsHeld
  <2>2. ls1[l].generation = ls[l].generation
    BY <1>3, <1>4
  <2>3. CASE l = lo[c]
    <3>1. ls1[l].activeTaskIds = ls[l].activeTaskIds \ {c}
      BY <1>3, <1>4, <2>3
    <3> QED BY <1>5, <2>1, <2>2, <3>1
  <2>4. CASE l # lo[c]
    <3>1. ls1[l].activeTaskIds = ls[l].activeTaskIds
      BY <1>4, <2>4
    <3> QED BY <1>5, <2>1, <2>2, <2>4, <3>1
  <2> QED BY <2>3, <2>4
<1>9. NotAhead(ls1, st1, lo, tg)
  <2>1. \A l \in Lanes : ls1[l].generation = ls[l].generation
    BY <1>3, <1>4
  <2> QED BY <1>1, <1>5, <2>1 DEF NotAhead, WellTyped
<1>10. Conserving(ls1, Lanes \ {lo[c]})
  BY <1>1, <1>4 DEF Conserving
<1> QED BY <1>6, <1>7, <1>8, <1>9, <1>10 DEF Ready, Core, ls1, st1

(* A task of an earlier generation has no slot to give back. *)
LEMMA StaleSettled ==
  ASSUME NEW ls, NEW st, NEW lo, NEW tg, Good(ls, st, lo, tg),
         NEW c \in Commands, st[c] = "running", NEW outcome \in {"resolved", "rejected"},
         ~ IsCurrent(ls[lo[c]], tg[c])
  PROVE  Good(ls, [st EXCEPT ![c] = outcome], lo, tg)
<1> DEFINE st1 == [st EXCEPT ![c] = outcome]
<1>1. /\ WellTyped(ls, st, lo, tg) /\ QueuesHold(ls, st, lo) /\ SlotsHeld(ls, st, lo, tg)
      /\ NotAhead(ls, st, lo, tg) /\ Conserving(ls, Lanes)
  BY DEF Good, Core
<1>2. \A d \in Commands : st1[d] = IF d = c THEN outcome ELSE st[d]
  BY <1>1 DEF WellTyped
<1>3. WellTyped(ls, st1, lo, tg)
  BY <1>1 DEF WellTyped, Stages, Settled
<1> HIDE DEF st1
<1>4. QueuesHold(ls, st1, lo)
  <2>1. \A l \in Lanes : \A i \in DOMAIN ls[l].queue : /\ ls[l].queue[i] \in Commands
                                                      /\ ls[l].queue[i] # c
    BY <1>1 DEF QueuesHold, WellTyped, LaneState
  <2>2. \A d \in Commands : st1[d] = "queued" <=> st[d] = "queued"
    BY <1>2
  <2> QED BY <1>1, <2>1, <2>2 DEF QueuesHold
<1>5. SlotsHeld(ls, st1, lo, tg)
  <2>1. \A l \in Lanes : lo[c] = l => tg[c] # ls[l].generation
    BY DEF IsCurrent
  <2> QED BY <1>1, <1>2, <2>1 DEF SlotsHeld
<1>6. NotAhead(ls, st1, lo, tg)
  BY <1>1, <1>2 DEF NotAhead
<1> QED BY <1>1, <1>3, <1>4, <1>5, <1>6 DEF Good, Core, st1

(* setCommandLaneConcurrency changes the cap alone. *)
LEMMA ResizedReady ==
  ASSUME NEW ls, NEW st, NEW lo, NEW tg, Good(ls, st, lo, tg),
         NEW lane \in Lanes, NEW n \in Nat
  PROVE  Ready({lane}, [ls EXCEPT ![lane] = Resized(@, n)], st, lo, tg)
<1> DEFINE ls1 == [ls EXCEPT ![lane] = Resized(@, n)]
<1>1. /\ WellTyped(ls, st, lo, tg) /\ QueuesHold(ls, st, lo) /\ SlotsHeld(ls, st, lo, tg)
      /\ NotAhead(ls, st, lo, tg) /\ Conserving(ls, Lanes)
  BY DEF Good, Core
<1>2. ls[lane] \in LaneState(Commands)
  BY <1>1 DEF WellTyped
<1>3. /\ Resized(ls[lane], n) \in LaneState(Commands)
      /\ Resized(ls[lane], n).queue = ls[lane].queue
      /\ Resized(ls[lane], n).activeTaskIds = ls[lane].activeTaskIds
      /\ Resized(ls[lane], n).generation = ls[lane].generation
  BY <1>2 DEF Resized, LaneState
<1>4. \A l \in Lanes : ls1[l] = IF l = lane THEN Resized(ls[lane], n) ELSE ls[l]
  BY <1>1 DEF WellTyped
<1>5. WellTyped(ls1, st, lo, tg)
  BY <1>1, <1>3, <1>4 DEF WellTyped
<1> HIDE DEF ls1
<1>6. \A l \in Lanes : /\ ls1[l].queue = ls[l].queue
                       /\ ls1[l].activeTaskIds = ls[l].activeTaskIds
                       /\ ls1[l].generation = ls[l].generation
  BY <1>3, <1>4
<1>7. QueuesHold(ls1, st, lo) /\ SlotsHeld(ls1, st, lo, tg) /\ NotAhead(ls1, st, lo, tg)
  BY <1>1, <1>6 DEF QueuesHold, SlotsHeld, NotAhead, WellTyped
<1>8. Conserving(ls1, Lanes \ {lane})
  BY <1>1, <1>4 DEF Conserving
<1> QED BY <1>5, <1>7, <1>8 DEF Ready, Core, ls1

(* clearCommandLane empties one queue and settles what was in it. *)
LEMMA ClearedGood ==
  ASSUME NEW ls, NEW st, NEW lo, NEW tg, Good(ls, st, lo, tg), NEW lane \in Lanes,
         NEW st1, st1 = [c \in Commands |->
            IF c \in {ls[lane].queue[i] : i \in DOMAIN ls[lane].queue}
            THEN "cleared" ELSE st[c]]
  PROVE  Good([ls EXCEPT ![lane] = Cleared(@)], st1, lo, tg)
<1> DEFINE ls1 == [ls EXCEPT ![lane] = Cleared(@)]
           removed == {ls[lane].queue[i] : i \in DOMAIN ls[lane].queue}
<1>1. /\ WellTyped(ls, st, lo, tg) /\ QueuesHold(ls, st, lo) /\ SlotsHeld(ls, st, lo, tg)
      /\ NotAhead(ls, st, lo, tg) /\ Conserving(ls, Lanes)
  BY DEF Good, Core
<1>2. ls[lane] \in LaneState(Commands)
  BY <1>1 DEF WellTyped
<1>3. /\ Cleared(ls[lane]) \in LaneState(Commands)
      /\ Cleared(ls[lane]).queue = <<>>
      /\ Cleared(ls[lane]).activeTaskIds = ls[lane].activeTaskIds
      /\ Cleared(ls[lane]).generation = ls[lane].generation
  BY <1>2, ClearedShape
<1>4. \A l \in Lanes : ls1[l] = IF l = lane THEN Cleared(ls[lane]) ELSE ls[l]
  BY <1>1 DEF WellTyped
<1>5. \A c \in Commands : st1[c] = IF c \in removed THEN "cleared" ELSE st[c]
  OBVIOUS
<1>6. WellTyped(ls1, st1, lo, tg)
  BY <1>1, <1>3, <1>4 DEF WellTyped, Stages, Settled
<1>7. \A c \in Commands : c \in removed <=> st[c] = "queued" /\ lo[c] = lane
  BY <1>1 DEF QueuesHold, WellTyped
<1>8. \A l \in Lanes : \A i \in DOMAIN ls[l].queue : ls[l].queue[i] \in Commands
  BY <1>1 DEF WellTyped, LaneState
<1> HIDE DEF ls1, removed
<1>9. QueuesHold(ls1, st1, lo)
  <2>1. ASSUME NEW l \in Lanes, NEW i \in DOMAIN ls1[l].queue
        PROVE  /\ st1[ls1[l].queue[i]] = "queued"
               /\ lo[ls1[l].queue[i]] = l
               /\ \A j \in DOMAIN ls1[l].queue : ls1[l].queue[i] = ls1[l].queue[j] => i = j
    <3>1. l # lane
      BY <1>3, <1>4
    <3>2. ls1[l] = ls[l]
      BY <1>4, <3>1
    <3>3. ls[l].queue[i] \in Commands /\ st[ls[l].queue[i]] = "queued" /\ lo[ls[l].queue[i]] = l
      BY <1>1, <1>8, <3>2 DEF QueuesHold
    <3> QED BY <1>1, <1>5, <1>7, <3>1, <3>2, <3>3 DEF QueuesHold
  <2>2. ASSUME NEW c \in Commands, st1[c] = "queued"
        PROVE  \E i \in DOMAIN ls1[lo[c]].queue : ls1[lo[c]].queue[i] = c
    <3>1. c \notin removed /\ st[c] = "queued" /\ lo[c] # lane /\ lo[c] \in Lanes
      BY <1>1, <1>5, <1>7, <2>2 DEF WellTyped
    <3>2. ls1[lo[c]] = ls[lo[c]]
      BY <1>4, <3>1
    <3> QED BY <1>1, <3>1, <3>2 DEF QueuesHold
  <2> QED BY <2>1, <2>2 DEF QueuesHold
<1>10. \A c \in Commands : st1[c] = "running" <=> st[c] = "running"
  BY <1>5, <1>7
<1>11. \A l \in Lanes : /\ ls1[l].activeTaskIds = ls[l].activeTaskIds
                        /\ ls1[l].generation = ls[l].generation
  BY <1>3, <1>4
<1>12. SlotsHeld(ls1, st1, lo, tg)
  BY <1>1, <1>10, <1>11 DEF SlotsHeld
<1>13. NotAhead(ls1, st1, lo, tg)
  BY <1>1, <1>10, <1>11 DEF NotAhead, WellTyped
<1>14. Conserving(ls1, Lanes)
  BY <1>1, <1>3, <1>4 DEF Conserving
<1> QED BY <1>6, <1>9, <1>12, <1>13, <1>14 DEF Good, Core, ls1

(* resetAllLanes hands every lane with waiting entries to the pump, with   *)
(* all its slots free.                                                     *)
LEMMA ResetReady ==
  ASSUME NEW ls, NEW st, NEW lo, NEW tg, Good(ls, st, lo, tg)
  PROVE  Ready({l \in Lanes : ls[l].queue # <<>>}, [l \in Lanes |-> Reset(ls[l])], st, lo, tg)
<1> DEFINE ls1 == [l \in Lanes |-> Reset(ls[l])]
<1>1. /\ WellTyped(ls, st, lo, tg) /\ QueuesHold(ls, st, lo) /\ SlotsHeld(ls, st, lo, tg)
      /\ NotAhead(ls, st, lo, tg) /\ Conserving(ls, Lanes)
  BY DEF Good, Core
<1>2. \A l \in Lanes : /\ Reset(ls[l]) \in LaneState(Commands)
                       /\ Reset(ls[l]).queue = ls[l].queue
                       /\ Reset(ls[l]).activeTaskIds = {}
                       /\ Reset(ls[l]).generation = ls[l].generation + 1
                       /\ ls[l].generation \in Nat
  <2> TAKE l \in Lanes
  <2>1. ls[l] \in LaneState(Commands) /\ ls[l].generation \in Nat
    BY <1>1 DEF WellTyped, LaneState
  <2> QED BY <2>1, ResetShape
<1>3. WellTyped(ls1, st, lo, tg)
  BY <1>1, <1>2 DEF WellTyped
<1>4. \A l \in Lanes : /\ ls1[l].queue = ls[l].queue
                       /\ ls1[l].activeTaskIds = {}
                       /\ ls1[l].generation = ls[l].generation + 1
  BY <1>2
<1> HIDE DEF ls1
<1>5. QueuesHold(ls1, st, lo)
  BY <1>1, <1>4 DEF QueuesHold, WellTyped
<1>6. \A c \in Commands : st[c] = "running" => /\ tg[c] \in Nat
                                               /\ lo[c] \in Lanes
                                               /\ tg[c] <= ls[lo[c]].generation
  BY <1>1 DEF NotAhead, WellTyped
<1>7. \A c \in Commands : st[c] = "running" => tg[c] < ls1[lo[c]].generation
  BY <1>2, <1>4, <1>6
<1>8. SlotsHeld(ls1, st, lo, tg)
  BY <1>2, <1>4, <1>6, <1>7 DEF SlotsHeld
<1>9. NotAhead(ls1, st, lo, tg)
  BY <1>2, <1>4, <1>6, <1>7 DEF NotAhead
<1>10. Conserving(ls1, Lanes \ {l \in Lanes : ls[l].queue # <<>>})
  BY <1>4 DEF Conserving
<1> QED BY <1>3, <1>5, <1>8, <1>9, <1>10 DEF Ready, Core, ls1

-----------------------------------------------------------------------------
(* The callers of waitForActiveTasks. *)

WaitersTyped(ws) ==
  ws \in [Waiters -> [status : WaiterStates, activeTaskIds : SUBSET Commands]]

WaitersPending(ws, ls) ==
  \A w \in Waiters : ws[w].status = "waiting" => HasPendingActiveTasks(ws[w].activeTaskIds, ls)

(* The strengthening for DrainedMeansEnded: what a waiter still waits for  *)
(* has ended or holds a slot of the present generation, because a reset    *)
(* answers every waiter.                                                   *)
SnapshotsLive(ws, ls, st, lo, tg) ==
  \A w \in Waiters : ws[w].status = "waiting" =>
    \A c \in ws[w].activeTaskIds :
      st[c] \in Settled \/ (st[c] = "running" /\ tg[c] = ls[lo[c]].generation)

Inv == /\ gatewayDraining \in BOOLEAN
       /\ Good(lanes, stage, laneOf, taskGeneration)
       /\ WaitersTyped(activeTaskWaiters)
       /\ WaitersPending(activeTaskWaiters, lanes)
       /\ SnapshotsLive(activeTaskWaiters, lanes, stage, laneOf, taskGeneration)

(* The steps of the two action properties. *)
DrainedStep ==
  \A w \in Waiters :
    /\ activeTaskWaiters'[w].status = "drained"
    /\ activeTaskWaiters[w].status # "drained"
    /\ \A l \in Lanes : lanes'[l].generation = lanes[l].generation
    => \A c \in activeTaskWaiters'[w].activeTaskIds : stage'[c] \in Settled

Step == Inv' /\ WithinCap(lanes, lanes') /\ DrainedStep

LEMMA NotifiedWaiters ==
  ASSUME NEW ws, NEW ls, WaitersTyped(ws)
  PROVE  /\ WaitersTyped(Notified(ws, ls))
         /\ \A w \in Waiters :
              /\ Notified(ws, ls)[w].activeTaskIds = ws[w].activeTaskIds
              /\ Notified(ws, ls)[w].status = "waiting" =>
                   ws[w].status = "waiting" /\ HasPendingActiveTasks(ws[w].activeTaskIds, ls)
              /\ Notified(ws, ls)[w].status = "drained" /\ ws[w].status # "drained" =>
                   ws[w].status = "waiting" /\ ~ HasPendingActiveTasks(ws[w].activeTaskIds, ls)
<1>1. \A w \in Waiters :
        Notified(ws, ls)[w] =
          IF ws[w].status = "waiting" /\ ~ HasPendingActiveTasks(ws[w].activeTaskIds, ls)
          THEN [ws[w] EXCEPT !.status = "drained"] ELSE ws[w]
  BY DEF Notified
<1>2. \A w \in Waiters : /\ [ws[w] EXCEPT !.status = "drained"].status = "drained"
                         /\ [ws[w] EXCEPT !.status = "drained"].activeTaskIds = ws[w].activeTaskIds
                         /\ [ws[w] EXCEPT !.status = "drained"]
                              \in [status : WaiterStates, activeTaskIds : SUBSET Commands]
  BY DEF WaitersTyped, WaiterStates
<1>3. WaitersTyped(Notified(ws, ls))
  BY <1>1, <1>2 DEF WaitersTyped, Notified
<1> QED BY <1>1, <1>2, <1>3

(* A waiter that has a pending task keeps it as long as slots are kept.    *)
LEMMA PendingKept ==
  ASSUME NEW ids, NEW ls \in [Lanes -> LaneState(Commands)],
         NEW ls2 \in [Lanes -> LaneState(Commands)],
         SlotsKept(ls, ls2), HasPendingActiveTasks(ids, ls)
  PROVE  HasPendingActiveTasks(ids, ls2)
BY DEF SlotsKept, HasPendingActiveTasks

(* Whatever ends or goes on as before keeps the snapshots live. *)
GoesOn(ls, st, lo, tg, ls2, st2, lo2, tg2) ==
  \A c \in Commands :
    /\ st[c] \in Settled => st2[c] \in Settled
    /\ st[c] = "running" /\ tg[c] = ls[lo[c]].generation =>
         st2[c] \in Settled \/ (st2[c] = "running" /\ tg2[c] = ls2[lo2[c]].generation)

LEMMA SnapshotsKept ==
  ASSUME NEW ws, NEW ws2, NEW ls, NEW st, NEW lo, NEW tg, NEW ls2, NEW st2, NEW lo2, NEW tg2,
         WaitersTyped(ws), SnapshotsLive(ws, ls, st, lo, tg),
         GoesOn(ls, st, lo, tg, ls2, st2, lo2, tg2),
         \A w \in Waiters : ws2[w].status = "waiting" =>
           ws[w].status = "waiting" /\ ws2[w].activeTaskIds = ws[w].activeTaskIds
  PROVE  SnapshotsLive(ws2, ls2, st2, lo2, tg2)
<1> SUFFICES ASSUME NEW w \in Waiters, ws2[w].status = "waiting",
                    NEW c \in ws2[w].activeTaskIds
             PROVE  st2[c] \in Settled \/ (st2[c] = "running" /\ tg2[c] = ls2[lo2[c]].generation)
  BY DEF SnapshotsLive
<1>1. /\ ws[w].status = "waiting" /\ c \in ws[w].activeTaskIds
      /\ ws[w].activeTaskIds \subseteq Commands
  BY DEF WaitersTyped
<1>2. st[c] \in Settled \/ (st[c] = "running" /\ tg[c] = ls[lo[c]].generation)
  BY <1>1 DEF SnapshotsLive
<1> QED BY <1>1, <1>2 DEF GoesOn

-----------------------------------------------------------------------------
(* One lemma per operation: it keeps the invariant and is a step of the    *)
(* two action properties.                                                  *)

LEMMA EnqueueStep ==
  ASSUME Inv, NEW c \in Commands, NEW name \in Lanes \cup {Blank},
         EnqueueCommandInLane(c, name)
  PROVE  Step
<1> DEFINE lane == NormalizeLane(name)
           ls1 == [lanes EXCEPT ![lane] = Pushed(@, c)]
           st1 == [stage EXCEPT ![c] = "queued"]
           lo1 == [laneOf EXCEPT ![c] = lane]
<1>1. lane \in Lanes
  BY LanesAssumption DEF NormalizeLane
<1>2. /\ stage[c] = "new" /\ laneOf' = lo1 /\ Drain({lane}, ls1, st1)
      /\ UNCHANGED <<gatewayDraining, activeTaskWaiters>>
  BY DEF EnqueueCommandInLane
<1>3. Good(lanes, stage, laneOf, taskGeneration)
  BY DEF Inv
<1>4. WellTyped(lanes, stage, laneOf, taskGeneration)
  BY <1>3 DEF Good, Core
<1>5. \A l \in Lanes : /\ ls1[l].activeTaskIds = lanes[l].activeTaskIds
                       /\ ls1[l].generation = lanes[l].generation
  BY <1>1, <1>4, PushedShape DEF WellTyped
<1>6. \A d \in Commands : /\ st1[d] = IF d = c THEN "queued" ELSE stage[d]
                          /\ lo1[d] = IF d = c THEN lane ELSE laneOf[d]
                          /\ laneOf[d] \in Lanes
  BY <1>4 DEF WellTyped
<1>7. Ready({lane}, ls1, st1, lo1, taskGeneration)
  BY <1>1, <1>2, <1>3, PushReady
<1> HIDE DEF lane, ls1, st1, lo1
<1>8. Drains({lane}, ls1, st1, taskGeneration, lanes', stage', taskGeneration')
  BY <1>2, DrainIsDrains
<1>9. /\ Good(lanes', stage', lo1, taskGeneration') /\ SlotsKept(ls1, lanes')
      /\ OthersKept(st1, taskGeneration, stage', taskGeneration') /\ WithinCap(ls1, lanes')
  <2>1. {lane} \in SUBSET Lanes
    BY <1>1
  <2> QED BY <1>7, <1>8, <2>1, PumpKeeps
<1>10. WaitersPending(activeTaskWaiters', lanes')
  BY <1>2, <1>5, <1>9 DEF Inv, WaitersPending, HasPendingActiveTasks, SlotsKept, Good, Core, WellTyped
<1>11. GoesOn(lanes, stage, laneOf, taskGeneration, lanes', stage', lo1, taskGeneration')
  <2> SUFFICES ASSUME NEW d \in Commands
               PROVE  /\ stage[d] \in Settled => stage'[d] \in Settled
                      /\ stage[d] = "running" /\ taskGeneration[d] = lanes[laneOf[d]].generation =>
                           \/ stage'[d] \in Settled
                           \/ /\ stage'[d] = "running"
                              /\ taskGeneration'[d] = lanes'[lo1[d]].generation
    BY DEF GoesOn
  <2>1. stage[d] \in Settled \/ stage[d] = "running" =>
          /\ d # c /\ stage'[d] = stage[d] /\ taskGeneration'[d] = taskGeneration[d]
          /\ lo1[d] = laneOf[d]
    BY <1>2, <1>6, <1>9 DEF OthersKept, Settled
  <2>2. lanes'[laneOf[d]].generation = lanes[laneOf[d]].generation
    BY <1>5, <1>6, <1>9 DEF SlotsKept
  <2> QED BY <2>1, <2>2
<1>12. SnapshotsLive(activeTaskWaiters', lanes', stage', lo1, taskGeneration')
  BY <1>2, <1>11, SnapshotsKept DEF Inv
<1>13. WithinCap(lanes, lanes')
  BY <1>5, <1>9 DEF WithinCap
<1>14. DrainedStep
  BY <1>2 DEF DrainedStep
<1> QED BY <1>2, <1>9, <1>10, <1>12, <1>13, <1>14 DEF Step, Inv

(* Steps that leave the lanes and the waiters alone. *)
LEMMA QuietStep ==
  ASSUME Inv, NEW st, gatewayDraining' \in BOOLEAN, stage' = st,
         Good(lanes, st, laneOf, taskGeneration),
         GoesOn(lanes, stage, laneOf, taskGeneration, lanes, st, laneOf, taskGeneration),
         UNCHANGED <<lanes, activeTaskWaiters, laneOf, taskGeneration>>
  PROVE  Step
<1>1. SnapshotsLive(activeTaskWaiters, lanes, st, laneOf, taskGeneration)
  BY SnapshotsKept DEF Inv
<1>2. WithinCap(lanes, lanes') /\ DrainedStep
  BY DEF WithinCap, DrainedStep
<1> QED BY <1>1, <1>2 DEF Step, Inv

LEMMA RefuseStep ==
  ASSUME Inv, NEW c \in Commands, RefuseCommand(c)
  PROVE  Step
<1> DEFINE st1 == [stage EXCEPT ![c] = "refused"]
<1>1. /\ stage[c] = "new" /\ stage' = st1
      /\ UNCHANGED <<gatewayDraining, lanes, activeTaskWaiters, laneOf, taskGeneration>>
  BY DEF RefuseCommand
<1>2. /\ WellTyped(lanes, stage, laneOf, taskGeneration)
      /\ QueuesHold(lanes, stage, laneOf)
      /\ SlotsHeld(lanes, stage, laneOf, taskGeneration)
      /\ NotAhead(lanes, stage, laneOf, taskGeneration)
      /\ Conserving(lanes, Lanes)
  BY DEF Inv, Good, Core
<1>3. \A d \in Commands : st1[d] = IF d = c THEN "refused" ELSE stage[d]
  BY <1>2 DEF WellTyped
<1>4. WellTyped(lanes, st1, laneOf, taskGeneration)
  BY <1>2 DEF WellTyped, Stages, Settled
<1> HIDE DEF st1
<1>5. QueuesHold(lanes, st1, laneOf)
  <2>1. \A l \in Lanes : \A i \in DOMAIN lanes[l].queue :
          lanes[l].queue[i] \in Commands /\ lanes[l].queue[i] # c
    BY <1>1, <1>2 DEF QueuesHold, WellTyped, LaneState
  <2>2. \A d \in Commands : st1[d] = "queued" <=> stage[d] = "queued"
    BY <1>1, <1>3
  <2> QED BY <1>2, <2>1, <2>2 DEF QueuesHold
<1>6. /\ SlotsHeld(lanes, st1, laneOf, taskGeneration)
      /\ NotAhead(lanes, st1, laneOf, taskGeneration)
  <2>1. \A d \in Commands : st1[d] = "running" <=> stage[d] = "running"
    BY <1>1, <1>3
  <2> QED BY <1>2, <2>1 DEF SlotsHeld, NotAhead
<1>7. Good(lanes, st1, laneOf, taskGeneration)
  BY <1>2, <1>4, <1>5, <1>6 DEF Good, Core
<1>8. GoesOn(lanes, stage, laneOf, taskGeneration, lanes, st1, laneOf, taskGeneration)
  BY <1>1, <1>3 DEF GoesOn, Settled
<1>9. gatewayDraining' \in BOOLEAN
  BY <1>1 DEF Inv
<1> QED BY <1>1, <1>7, <1>8, <1>9, QuietStep

LEMMA SettleStep ==
  ASSUME Inv, NEW c \in Commands, NEW outcome \in {"resolved", "rejected"},
         SettleTask(c, outcome)
  PROVE  Step
<1> DEFINE lane == laneOf[c]
           ls1 == [lanes EXCEPT ![lane] = Completed(@, c)]
           st1 == [stage EXCEPT ![c] = outcome]
<1>1. Good(lanes, stage, laneOf, taskGeneration)
  BY DEF Inv
<1>2. /\ WellTyped(lanes, stage, laneOf, taskGeneration)
      /\ SlotsHeld(lanes, stage, laneOf, taskGeneration)
  BY <1>1 DEF Good, Core
<1>3. stage[c] = "running" /\ UNCHANGED <<gatewayDraining, laneOf>>
  BY DEF SettleTask
<1>4. lane \in Lanes /\ lanes[lane] \in LaneState(Commands)
  BY <1>2 DEF WellTyped
<1>5. \A d \in Commands : st1[d] = IF d = c THEN outcome ELSE stage[d]
  BY <1>2 DEF WellTyped
<1>6. CASE ~ IsCurrent(lanes[lane], taskGeneration[c])
  <2>1. stage' = st1 /\ UNCHANGED <<lanes, activeTaskWaiters, taskGeneration>>
    BY <1>6 DEF SettleTask
  <2>2. Good(lanes, st1, laneOf, taskGeneration)
    BY <1>1, <1>3, <1>6, StaleSettled
  <2>3. GoesOn(lanes, stage, laneOf, taskGeneration, lanes, st1, laneOf, taskGeneration)
    BY <1>5 DEF GoesOn, Settled
  <2>4. gatewayDraining' \in BOOLEAN
    BY <1>3 DEF Inv
  <2> HIDE DEF st1
  <2> QED BY <1>3, <2>1, <2>2, <2>3, <2>4, QuietStep
<1>7. CASE IsCurrent(lanes[lane], taskGeneration[c])
  <2>1. /\ activeTaskWaiters' = Notified(activeTaskWaiters, ls1)
        /\ Drain({lane}, ls1, st1)
    BY <1>7 DEF SettleTask
  <2>2. /\ \A l \in Lanes : ls1[l].generation = lanes[l].generation
        /\ \A l \in Lanes : ls1[l].activeTaskIds = lanes[l].activeTaskIds \ (IF l = lane THEN {c} ELSE {})
    BY <1>2, <1>4 DEF WellTyped, Completed, LaneState
  <2>3. Ready({lane}, ls1, st1, laneOf, taskGeneration)
    BY <1>1, <1>3, <1>7, CompletedReady
  <2> HIDE DEF ls1, st1
  <2>4. Drains({lane}, ls1, st1, taskGeneration, lanes', stage', taskGeneration')
    BY <2>1, DrainIsDrains
  <2>5. /\ Good(lanes', stage', laneOf, taskGeneration') /\ SlotsKept(ls1, lanes')
        /\ OthersKept(st1, taskGeneration, stage', taskGeneration') /\ WithinCap(ls1, lanes')
    <3>1. {lane} \in SUBSET Lanes
      BY <1>4
    <3> HIDE DEF lane
    <3> QED BY <2>3, <2>4, <3>1, PumpKeeps
  <2>6. /\ WaitersTyped(activeTaskWaiters')
        /\ \A w \in Waiters :
             /\ activeTaskWaiters'[w].activeTaskIds = activeTaskWaiters[w].activeTaskIds
             /\ activeTaskWaiters'[w].status = "waiting" =>
                  /\ activeTaskWaiters[w].status = "waiting"
                  /\ HasPendingActiveTasks(activeTaskWaiters[w].activeTaskIds, ls1)
             /\ activeTaskWaiters'[w].status = "drained" /\ activeTaskWaiters[w].status # "drained" =>
                  /\ activeTaskWaiters[w].status = "waiting"
                  /\ ~ HasPendingActiveTasks(activeTaskWaiters[w].activeTaskIds, ls1)
    BY <2>1, NotifiedWaiters DEF Inv
  <2>7. DOMAIN ls1 = Lanes /\ DOMAIN lanes' = Lanes
    BY <2>3, <2>5 DEF Ready, Good, Core, WellTyped
  <2>8. WaitersPending(activeTaskWaiters', lanes')
    BY <2>5, <2>6, <2>7 DEF WaitersPending, HasPendingActiveTasks, SlotsKept
  <2>9. GoesOn(lanes, stage, laneOf, taskGeneration, lanes', stage', laneOf, taskGeneration')
    <3> SUFFICES ASSUME NEW d \in Commands
                 PROVE  /\ stage[d] \in Settled => stage'[d] \in Settled
                        /\ stage[d] = "running" /\ taskGeneration[d] = lanes[laneOf[d]].generation =>
                             \/ stage'[d] \in Settled
                             \/ /\ stage'[d] = "running"
                                /\ taskGeneration'[d] = lanes'[laneOf[d]].generation
      BY DEF GoesOn
    <3>1. st1[d] # "queued" => stage'[d] = st1[d] /\ taskGeneration'[d] = taskGeneration[d]
      BY <2>5 DEF OthersKept
    <3>2. lanes'[laneOf[d]].generation = lanes[laneOf[d]].generation
      BY <1>2, <2>2, <2>5 DEF SlotsKept, WellTyped
    <3> QED BY <1>5, <3>1, <3>2 DEF Settled
  <2>10. SnapshotsLive(activeTaskWaiters', lanes', stage', laneOf, taskGeneration')
    BY <2>6, <2>9, SnapshotsKept DEF Inv
  <2>11. WithinCap(lanes, lanes')
    BY <2>2, <2>5 DEF WithinCap
  <2>12. DrainedStep
    <3> SUFFICES ASSUME NEW w \in Waiters, activeTaskWaiters'[w].status = "drained",
                        activeTaskWaiters[w].status # "drained",
                        NEW d \in activeTaskWaiters'[w].activeTaskIds
                 PROVE  stage'[d] \in Settled
      BY DEF DrainedStep
    <3>1. /\ activeTaskWaiters[w].status = "waiting"
          /\ d \in activeTaskWaiters[w].activeTaskIds /\ d \in Commands
          /\ ~ HasPendingActiveTasks(activeTaskWaiters[w].activeTaskIds, ls1)
      BY <2>6 DEF Inv, WaitersTyped
    <3>2. d \notin ls1[laneOf[d]].activeTaskIds /\ laneOf[d] \in Lanes
      BY <1>2, <2>7, <3>1 DEF HasPendingActiveTasks, WellTyped
    <3>3. \/ stage[d] \in Settled
          \/ stage[d] = "running" /\ taskGeneration[d] = lanes[laneOf[d]].generation
      BY <3>1 DEF Inv, SnapshotsLive
    <3>4. CASE stage[d] \in Settled
      BY <2>9, <3>1, <3>4 DEF GoesOn
    <3>5. CASE stage[d] = "running" /\ taskGeneration[d] = lanes[laneOf[d]].generation
      <4>1. d \in lanes[laneOf[d]].activeTaskIds
        BY <1>2, <3>1, <3>2, <3>5 DEF SlotsHeld
      <4>2. d = c
        BY <2>2, <3>2, <4>1
      <4>3. stage'[d] = st1[d] /\ st1[d] = outcome
        BY <1>5, <2>5, <3>1, <4>2 DEF OthersKept
      <4> QED BY <4>3 DEF Settled
    <3> QED BY <3>3, <3>4, <3>5
  <2> QED BY <1>3, <2>5, <2>6, <2>8, <2>10, <2>11, <2>12 DEF Step, Inv
<1> QED BY <1>6, <1>7

LEMMA ResizeStep ==
  ASSUME Inv, NEW name \in Lanes \cup {Blank}, NEW n \in Nat,
         SetCommandLaneConcurrency(name, n)
  PROVE  Step
<1> DEFINE lane == NormalizeLane(name)
           ls1 == [lanes EXCEPT ![lane] = Resized(@, n)]
<1>1. lane \in Lanes
  BY LanesAssumption DEF NormalizeLane
<1>2. Drain({lane}, ls1, stage) /\ UNCHANGED <<gatewayDraining, activeTaskWaiters, laneOf>>
  BY DEF SetCommandLaneConcurrency
<1>3. /\ Good(lanes, stage, laneOf, taskGeneration)
      /\ WellTyped(lanes, stage, laneOf, taskGeneration)
  BY DEF Inv, Good, Core
<1>4. \A l \in Lanes : /\ ls1[l].activeTaskIds = lanes[l].activeTaskIds
                       /\ ls1[l].generation = lanes[l].generation
  BY <1>1, <1>3 DEF WellTyped, Resized, LaneState
<1> HIDE DEF lane
<1>5. Ready({lane}, ls1, stage, laneOf, taskGeneration)
  BY <1>1, <1>3, ResizedReady
<1> HIDE DEF ls1
<1>6. Drains({lane}, ls1, stage, taskGeneration, lanes', stage', taskGeneration')
  BY <1>2, DrainIsDrains
<1>7. /\ Good(lanes', stage', laneOf, taskGeneration') /\ SlotsKept(ls1, lanes')
      /\ OthersKept(stage, taskGeneration, stage', taskGeneration') /\ WithinCap(ls1, lanes')
  <2>1. {lane} \in SUBSET Lanes
    BY <1>1
  <2> QED BY <1>5, <1>6, <2>1, PumpKeeps
<1>8. WaitersPending(activeTaskWaiters', lanes')
  BY <1>2, <1>4, <1>7 DEF Inv, WaitersPending, HasPendingActiveTasks, SlotsKept, Good, Core, WellTyped
<1>9. GoesOn(lanes, stage, laneOf, taskGeneration, lanes', stage', laneOf, taskGeneration')
  <2>1. \A d \in Commands : lanes'[laneOf[d]].generation = lanes[laneOf[d]].generation
    BY <1>3, <1>4, <1>7 DEF SlotsKept, WellTyped
  <2> QED BY <1>7, <2>1 DEF GoesOn, OthersKept, Settled
<1>10. SnapshotsLive(activeTaskWaiters', lanes', stage', laneOf, taskGeneration')
  BY <1>2, <1>9, SnapshotsKept DEF Inv
<1>11. WithinCap(lanes, lanes')
  BY <1>4, <1>7 DEF WithinCap
<1>12. DrainedStep
  BY <1>2 DEF DrainedStep
<1> QED BY <1>2, <1>7, <1>8, <1>10, <1>11, <1>12 DEF Step, Inv

LEMMA ClearStep ==
  ASSUME Inv, NEW name \in Lanes \cup {Blank}, ClearCommandLane(name)
  PROVE  Step
<1> DEFINE lane == NormalizeLane(name)
           ls1 == [lanes EXCEPT ![lane] = Cleared(@)]
<1>1. lane \in Lanes
  BY LanesAssumption DEF NormalizeLane
<1>2. /\ lanes' = ls1
      /\ stage' = [c \in Commands |->
           IF c \in {lanes[lane].queue[i] : i \in DOMAIN lanes[lane].queue}
           THEN "cleared" ELSE stage[c]]
      /\ UNCHANGED <<gatewayDraining, activeTaskWaiters, laneOf, taskGeneration>>
  BY DEF ClearCommandLane
<1>3. /\ Good(lanes, stage, laneOf, taskGeneration)
      /\ WellTyped(lanes, stage, laneOf, taskGeneration)
      /\ QueuesHold(lanes, stage, laneOf)
  BY DEF Inv, Good, Core
<1> HIDE DEF lane
<1>4. Good(ls1, stage', laneOf, taskGeneration)
  BY <1>1, <1>2, <1>3, ClearedGood
<1>5. \A l \in Lanes : /\ ls1[l].activeTaskIds = lanes[l].activeTaskIds
                       /\ ls1[l].generation = lanes[l].generation
  BY <1>1, <1>3, ClearedShape DEF WellTyped
<1> HIDE DEF ls1
<1>6. WaitersPending(activeTaskWaiters', lanes')
  BY <1>2, <1>3, <1>4, <1>5
     DEF Inv, WaitersPending, HasPendingActiveTasks, Good, Core, WellTyped
<1>7. GoesOn(lanes, stage, laneOf, taskGeneration, ls1, stage', laneOf, taskGeneration)
  <2> SUFFICES ASSUME NEW d \in Commands
               PROVE  /\ stage[d] \in Settled => stage'[d] \in Settled
                      /\ stage[d] = "running" /\ taskGeneration[d] = lanes[laneOf[d]].generation =>
                           \/ stage'[d] \in Settled
                           \/ /\ stage'[d] = "running"
                              /\ taskGeneration[d] = ls1[laneOf[d]].generation
    BY DEF GoesOn
  <2>1. stage'[d] = IF d \in {lanes[lane].queue[i] : i \in DOMAIN lanes[lane].queue}
                    THEN "cleared" ELSE stage[d]
    BY <1>2
  <2>2. ls1[laneOf[d]].generation = lanes[laneOf[d]].generation
    BY <1>3, <1>5 DEF WellTyped
  <2> QED BY <2>1, <2>2 DEF Settled
<1>8. SnapshotsLive(activeTaskWaiters', lanes', stage', laneOf, taskGeneration)
  BY <1>2, <1>7, SnapshotsKept DEF Inv
<1>9. WithinCap(lanes, lanes')
  BY <1>2, <1>5 DEF WithinCap
<1>10. DrainedStep
  BY <1>2 DEF DrainedStep
<1> QED BY <1>2, <1>4, <1>6, <1>8, <1>9, <1>10 DEF Step, Inv

LEMMA MarkStep ==
  ASSUME Inv, MarkGatewayDraining
  PROVE  Step
<1>1. GoesOn(lanes, stage, laneOf, taskGeneration, lanes, stage, laneOf, taskGeneration)
  BY DEF GoesOn
<1>2. /\ gatewayDraining' \in BOOLEAN /\ stage' = stage
      /\ Good(lanes, stage, laneOf, taskGeneration)
      /\ UNCHANGED <<lanes, activeTaskWaiters, laneOf, taskGeneration>>
  BY DEF MarkGatewayDraining, Inv
<1> QED BY <1>1, <1>2, QuietStep

LEMMA ResetStep ==
  ASSUME Inv, ResetAllLanes
  PROVE  Step
<1> DEFINE ls1 == [l \in Lanes |-> Reset(lanes[l])]
           S == {l \in Lanes : lanes[l].queue # <<>>}
<1>1. /\ gatewayDraining' = FALSE /\ Drain(S, ls1, stage) /\ UNCHANGED laneOf
      /\ activeTaskWaiters' = Notified(activeTaskWaiters, lanes')
  BY DEF ResetAllLanes
<1>2. /\ Good(lanes, stage, laneOf, taskGeneration)
      /\ WellTyped(lanes, stage, laneOf, taskGeneration)
      /\ SlotsHeld(lanes, stage, laneOf, taskGeneration)
  BY DEF Inv, Good, Core
<1>3. \A l \in Lanes : /\ ls1[l].activeTaskIds = {}
                       /\ ls1[l].generation = lanes[l].generation + 1
                       /\ lanes[l].generation \in Nat
  BY <1>2, ResetShape DEF WellTyped, LaneState
<1>4. Ready(S, ls1, stage, laneOf, taskGeneration)
  BY <1>2, ResetReady
<1> HIDE DEF ls1
<1>5. Drains(S, ls1, stage, taskGeneration, lanes', stage', taskGeneration')
  BY <1>1, DrainIsDrains
<1>6. /\ Good(lanes', stage', laneOf, taskGeneration') /\ SlotsKept(ls1, lanes')
      /\ OthersKept(stage, taskGeneration, stage', taskGeneration') /\ WithinCap(ls1, lanes')
  <2>1. S \in SUBSET Lanes
    OBVIOUS
  <2> HIDE DEF S
  <2> QED BY <1>4, <1>5, <2>1, PumpKeeps
<1>7. /\ WaitersTyped(activeTaskWaiters')
      /\ \A w \in Waiters :
           /\ activeTaskWaiters'[w].activeTaskIds = activeTaskWaiters[w].activeTaskIds
           /\ activeTaskWaiters'[w].status = "waiting" =>
                /\ activeTaskWaiters[w].status = "waiting"
                /\ HasPendingActiveTasks(activeTaskWaiters[w].activeTaskIds, lanes')
  BY <1>1, NotifiedWaiters DEF Inv
<1>8. WaitersPending(activeTaskWaiters', lanes')
  BY <1>7 DEF WaitersPending
<1>9. /\ WellTyped(lanes', stage', laneOf, taskGeneration')
      /\ SlotsHeld(lanes', stage', laneOf, taskGeneration')
  BY <1>6 DEF Good, Core
<1>10. \A l \in Lanes : lanes'[l].generation = lanes[l].generation + 1
  BY <1>3, <1>6 DEF SlotsKept
(* A reset answers everyone: the tasks in a snapshot were running or over,  *)
(* so none of them is among those the reset starts.                         *)
<1>11. \A w \in Waiters : activeTaskWaiters'[w].status # "waiting"
  <2> SUFFICES ASSUME NEW w \in Waiters, activeTaskWaiters'[w].status = "waiting" PROVE FALSE
    OBVIOUS
  <2>1. /\ activeTaskWaiters[w].status = "waiting"
        /\ HasPendingActiveTasks(activeTaskWaiters[w].activeTaskIds, lanes')
    BY <1>7
  <2>2. PICK l \in Lanes : lanes'[l].activeTaskIds \cap activeTaskWaiters[w].activeTaskIds # {}
    BY <1>9, <2>1 DEF HasPendingActiveTasks, WellTyped
  <2>3. PICK d : d \in lanes'[l].activeTaskIds /\ d \in activeTaskWaiters[w].activeTaskIds
    BY <2>2
  <2>4. /\ d \in Commands /\ stage'[d] = "running" /\ laneOf[d] = l
        /\ taskGeneration'[d] = lanes'[l].generation
    BY <1>9, <2>3 DEF SlotsHeld
  <2>5. stage[d] \in Settled \/ (stage[d] = "running" /\ taskGeneration[d] = lanes[l].generation)
    BY <2>1, <2>3, <2>4 DEF Inv, SnapshotsLive
  <2>6. stage'[d] = stage[d] /\ taskGeneration'[d] = taskGeneration[d]
    BY <1>6, <2>4, <2>5 DEF OthersKept, Settled
  <2>7. stage[d] = "running" /\ taskGeneration[d] = lanes[l].generation
    BY <2>4, <2>5, <2>6 DEF Settled
  <2>8. lanes'[l].generation = lanes[l].generation + 1 /\ lanes[l].generation \in Nat
    BY <1>3, <1>10
  <2>9. lanes[l].generation = lanes'[l].generation
    BY <2>4, <2>6, <2>7
  <2> QED BY <2>8, <2>9
<1>12. SnapshotsLive(activeTaskWaiters', lanes', stage', laneOf, taskGeneration')
  BY <1>11 DEF SnapshotsLive
<1>13. WithinCap(lanes, lanes')
  BY <1>3, <1>6 DEF WithinCap
<1>14. DrainedStep
  <2>1. Main \in Lanes /\ lanes'[Main].generation # lanes[Main].generation
    BY <1>3, <1>10, LanesAssumption
  <2> QED BY <2>1 DEF DrainedStep
<1> QED BY <1>1, <1>6, <1>7, <1>8, <1>12, <1>13, <1>14 DEF Step, Inv

LEMMA WaitStep ==
  ASSUME Inv, NEW w \in Waiters, NEW timeoutMs \in {0, 1}, WaitForActiveTasks(w, timeoutMs)
  PROVE  Step
<1> DEFINE activeAtStart == AllActive(lanes)
           status == IF activeAtStart = {} THEN "drained"
                     ELSE IF timeoutMs <= 0 THEN "timedOut" ELSE "waiting"
           ws == [activeTaskWaiters EXCEPT ![w] =
                    [status |-> status, activeTaskIds |-> activeAtStart]]
<1>1. /\ activeTaskWaiters[w].status = "unused"
      /\ activeTaskWaiters' = Notified(ws, lanes)
      /\ UNCHANGED <<gatewayDraining, lanes, stage, laneOf, taskGeneration>>
  BY DEF WaitForActiveTasks
<1>2. /\ Good(lanes, stage, laneOf, taskGeneration)
      /\ WellTyped(lanes, stage, laneOf, taskGeneration)
      /\ SlotsHeld(lanes, stage, laneOf, taskGeneration)
      /\ WaitersTyped(activeTaskWaiters)
  BY DEF Inv, Good, Core
<1>3. status \in WaiterStates /\ (status = "drained" => activeAtStart = {})
  BY DEF WaiterStates
<1>4. \A d \in activeAtStart : /\ d \in Commands /\ stage[d] = "running"
                               /\ taskGeneration[d] = lanes[laneOf[d]].generation
  BY <1>2 DEF AllActive, SlotsHeld, WellTyped
<1> HIDE DEF activeAtStart, status
<1>5. WaitersTyped(ws)
  BY <1>2, <1>3, <1>4 DEF WaitersTyped
<1>6. \A v \in Waiters : ws[v] = IF v = w THEN [status |-> status, activeTaskIds |-> activeAtStart]
                                 ELSE activeTaskWaiters[v]
  BY <1>2 DEF WaitersTyped
<1> HIDE DEF ws
<1>7. /\ WaitersTyped(activeTaskWaiters')
      /\ \A v \in Waiters :
           /\ activeTaskWaiters'[v].activeTaskIds = ws[v].activeTaskIds
           /\ activeTaskWaiters'[v].status = "waiting" =>
                ws[v].status = "waiting" /\ HasPendingActiveTasks(ws[v].activeTaskIds, lanes)
           /\ activeTaskWaiters'[v].status = "drained" /\ ws[v].status # "drained" =>
                ws[v].status = "waiting" /\ ~ HasPendingActiveTasks(ws[v].activeTaskIds, lanes)
  BY <1>1, <1>5, NotifiedWaiters
<1>8. WaitersPending(activeTaskWaiters', lanes')
  BY <1>1, <1>7 DEF WaitersPending
<1>9. SnapshotsLive(activeTaskWaiters', lanes', stage', laneOf', taskGeneration')
  <2> SUFFICES ASSUME NEW v \in Waiters, activeTaskWaiters'[v].status = "waiting",
                      NEW d \in activeTaskWaiters'[v].activeTaskIds
               PROVE  \/ stage[d] \in Settled
                      \/ stage[d] = "running" /\ taskGeneration[d] = lanes[laneOf[d]].generation
    BY <1>1 DEF SnapshotsLive
  <2>1. CASE v = w
    BY <1>4, <1>6, <1>7, <2>1
  <2>2. CASE v # w
    BY <1>6, <1>7, <2>2 DEF Inv, SnapshotsLive
  <2> QED BY <2>1, <2>2
<1>10. DrainedStep
  <2> SUFFICES ASSUME NEW v \in Waiters, activeTaskWaiters'[v].status = "drained",
                      activeTaskWaiters[v].status # "drained",
                      NEW d \in activeTaskWaiters'[v].activeTaskIds
               PROVE  FALSE
    BY DEF DrainedStep
  <2>1. CASE ws[v].status = "drained"
    <3>1. v = w
      BY <1>6, <2>1
    <3>2. activeAtStart = {} /\ d \in activeAtStart
      BY <1>3, <1>6, <1>7, <2>1, <3>1
    <3> QED BY <3>2
  <2>2. CASE ws[v].status # "drained"
    <3>1. ws[v].status = "waiting" /\ ~ HasPendingActiveTasks(ws[v].activeTaskIds, lanes)
      BY <1>7, <2>2
    <3>2. CASE v = w
      <4>1. d \in activeAtStart
        BY <1>6, <1>7, <3>2
      <4>2. laneOf[d] \in Lanes /\ d \in lanes[laneOf[d]].activeTaskIds /\ DOMAIN lanes = Lanes
        BY <1>2, <1>4, <4>1 DEF SlotsHeld, WellTyped
      <4> QED BY <1>6, <3>1, <3>2, <4>1, <4>2 DEF HasPendingActiveTasks
    <3>3. CASE v # w
      BY <1>6, <3>1, <3>3 DEF Inv, WaitersPending
    <3> QED BY <3>2, <3>3
  <2> QED BY <2>1, <2>2
<1>11. WithinCap(lanes, lanes')
  BY <1>1 DEF WithinCap
<1> QED BY <1>1, <1>2, <1>7, <1>8, <1>9, <1>10, <1>11 DEF Step, Inv

LEMMA TimeoutStep ==
  ASSUME Inv, NEW w \in Waiters, WaiterTimeout(w)
  PROVE  Step
<1>1. /\ activeTaskWaiters[w].status = "waiting"
      /\ activeTaskWaiters' = [activeTaskWaiters EXCEPT ![w].status = "timedOut"]
      /\ UNCHANGED <<gatewayDraining, lanes, stage, laneOf, taskGeneration>>
  BY DEF WaiterTimeout
<1>2. WaitersTyped(activeTaskWaiters)
  BY DEF Inv
<1>3. \A v \in Waiters :
        /\ activeTaskWaiters'[v].activeTaskIds = activeTaskWaiters[v].activeTaskIds
        /\ activeTaskWaiters'[v].status =
             IF v = w THEN "timedOut" ELSE activeTaskWaiters[v].status
  BY <1>1, <1>2 DEF WaitersTyped
<1>4. WaitersTyped(activeTaskWaiters')
  BY <1>1, <1>2 DEF WaitersTyped, WaiterStates
<1>5. WaitersPending(activeTaskWaiters', lanes')
  BY <1>1, <1>3 DEF Inv, WaitersPending
<1>6. SnapshotsLive(activeTaskWaiters', lanes', stage', laneOf', taskGeneration')
  BY <1>1, <1>3 DEF Inv, SnapshotsLive
<1>7. WithinCap(lanes, lanes') /\ DrainedStep
  BY <1>1, <1>3 DEF WithinCap, DrainedStep
<1> QED BY <1>1, <1>4, <1>5, <1>6, <1>7 DEF Step, Inv

-----------------------------------------------------------------------------
(* The theorems. *)

LEMMA InvInit == Init => Inv
<1> SUFFICES ASSUME Init PROVE Inv
  OBVIOUS
<1>1. NewLane \in LaneState(Commands) /\ NewLane.queue = <<>> /\ NewLane.activeTaskIds = {}
  BY DEF NewLane, LaneState
<1>2. \A l \in Lanes : lanes[l] = NewLane
  BY DEF Init
<1>3. WellTyped(lanes, stage, laneOf, taskGeneration)
  BY <1>1, LanesAssumption DEF Init, WellTyped, Stages
<1>4. \A c \in Commands : stage[c] = "new"
  BY DEF Init
<1>5. QueuesHold(lanes, stage, laneOf) /\ Conserving(lanes, Lanes)
  BY <1>1, <1>2, <1>4 DEF QueuesHold, Conserving
<1>6. /\ SlotsHeld(lanes, stage, laneOf, taskGeneration)
      /\ NotAhead(lanes, stage, laneOf, taskGeneration)
  BY <1>1, <1>2, <1>4 DEF SlotsHeld, NotAhead
<1>7. \A w \in Waiters : activeTaskWaiters[w].status = "unused"
  BY DEF Init
<1>8. WaitersTyped(activeTaskWaiters)
  BY DEF Init, WaitersTyped, WaiterStates
<1> QED
  BY <1>3, <1>5, <1>6, <1>7, <1>8
     DEF Init, Inv, Good, Core, WaitersPending, SnapshotsLive

LEMMA InvNext == Inv /\ [Next]_vars => Step
<1> SUFFICES ASSUME Inv, [Next]_vars PROVE Step
  OBVIOUS
<1>1. ASSUME NEW c \in Commands, NEW name \in Lanes \cup {Blank}, EnqueueCommandInLane(c, name)
      PROVE  Step
  BY <1>1, EnqueueStep
<1>2. ASSUME NEW c \in Commands, RefuseCommand(c) PROVE Step
  BY <1>2, RefuseStep
<1>3. ASSUME NEW c \in Commands, NEW outcome \in {"resolved", "rejected"}, SettleTask(c, outcome)
      PROVE  Step
  BY <1>3, SettleStep
<1>4. ASSUME NEW name \in Lanes \cup {Blank}, NEW n \in 0 .. MaxCap,
             SetCommandLaneConcurrency(name, n)
      PROVE  Step
  BY <1>4, LanesAssumption, ResizeStep
<1>5. ASSUME NEW name \in Lanes \cup {Blank}, ClearCommandLane(name) PROVE Step
  BY <1>5, ClearStep
<1>6. ASSUME NEW w \in Waiters, NEW timeoutMs \in {0, 1}, WaitForActiveTasks(w, timeoutMs)
      PROVE  Step
  BY <1>6, WaitStep
<1>7. ASSUME NEW w \in Waiters, WaiterTimeout(w) PROVE Step
  BY <1>7, TimeoutStep
<1>8. CASE UNCHANGED vars
  <2>1. /\ gatewayDraining' \in BOOLEAN /\ stage' = stage
        /\ Good(lanes, stage, laneOf, taskGeneration)
        /\ UNCHANGED <<lanes, activeTaskWaiters, laneOf, taskGeneration>>
    BY <1>8 DEF vars, Inv
  <2>2. GoesOn(lanes, stage, laneOf, taskGeneration, lanes, stage, laneOf, taskGeneration)
    BY DEF GoesOn
  <2> QED BY <2>1, <2>2, QuietStep
<1> QED
  BY <1>1, <1>2, <1>3, <1>4, <1>5, <1>6, <1>7, <1>8, MarkStep, ResetStep DEF Next

LEMMA InvIsInvariant == Spec => []Inv
<1>1. Inv /\ [Next]_vars => Inv'
  BY InvNext DEF Step
<1> QED BY <1>1, InvInit, PTL DEF Spec

(* Type correctness. *)
THEOREM TypeCorrect == Spec => []TypeOK
<1>1. Inv => TypeOK
  BY DEF Inv, Good, Core, WellTyped, WaitersTyped, TypeOK
<1> QED BY <1>1, InvIsInvariant, PTL

(* However pumps, clears, resizes and restarts interleave, the queues hold  *)
(* exactly the commands that wait, each once and in its own lane.           *)
THEOREM EntriesAreKept == Spec => []QueuesHoldTheWaiting
<1>1. Inv => QueuesHoldTheWaiting
  BY DEF Inv, Good, Core, QueuesHold, QueuesHoldTheWaiting
<1> QED BY <1>1, InvIsInvariant, PTL

(* The slots of a lane are exactly its running tasks of the present life:   *)
(* no restart and no late completion leaks or frees a slot.                 *)
THEOREM SlotsAreAccurate == Spec => []SlotsHeldByLiveTasks
<1>1. Inv => SlotsHeldByLiveTasks
  BY DEF Inv, Good, Core, SlotsHeld, SlotsHeldByLiveTasks
<1> QED BY <1>1, InvIsInvariant, PTL

(* A command waits only behind a full lane. *)
THEOREM NoLaneIsStuck == Spec => []WorkConserving
<1>1. Inv => WorkConserving
  BY DEF Inv, Good, Conserving, WorkConserving
<1> QED BY <1>1, InvIsInvariant, PTL

(* No notification is missed: a caller of waitForActiveTasks never waits    *)
(* for tasks that are all over.                                             *)
THEOREM WaitersWillBeTold == Spec => []WaitersWaitForATask
<1>1. Inv => WaitersWaitForATask
  BY DEF Inv, WaitersPending, WaitersWaitForATask
<1> QED BY <1>1, InvIsInvariant, PTL

(* Whatever a step starts, it leaves the lane within its cap. *)
THEOREM CapIsKept == Spec => StartsWithinCap
<1>1. Inv /\ [Next]_vars =>
        [\A l \in Lanes :
           lanes'[l].activeTaskIds \ lanes[l].activeTaskIds # {} =>
             Cardinality(lanes'[l].activeTaskIds) <= lanes'[l].maxConcurrent]_vars
  BY InvNext DEF Step, WithinCap
<1> QED BY <1>1, InvIsInvariant, PTL DEF Spec, StartsWithinCap

(* "drained" is said only of tasks that have ended, unless the lanes were   *)
(* reset.                                                                   *)
THEOREM DrainedIsTrue == Spec => DrainedMeansEnded
<1>1. Inv /\ [Next]_vars =>
        [\A w \in Waiters :
           /\ activeTaskWaiters'[w].status = "drained"
           /\ activeTaskWaiters[w].status # "drained"
           /\ \A l \in Lanes : lanes'[l].generation = lanes[l].generation
           => \A c \in activeTaskWaiters'[w].activeTaskIds : stage'[c] \in Settled]_vars
  BY InvNext DEF Step, DrainedStep
<1> QED BY <1>1, InvIsInvariant, PTL DEF Spec, DrainedMeansEnded

-----------------------------------------------------------------------------
(* Refinement: the queue is a LaneService. *)

Queues(ls) == [l \in Lanes |-> ls[l].queue]

(* The action Serve of LaneService as a relation between values. *)
Serves(p, st, p2, st2) ==
  \E k \in [Lanes -> UNION {0 .. Len(p[l]) : l \in Lanes}] :
    /\ \A l \in Lanes : k[l] <= Len(p[l])
    /\ p2 = [l \in Lanes |-> SubSeq(p[l], k[l] + 1, Len(p[l]))]
    /\ st2 = [c \in Commands |->
                IF \E l \in Lanes : \E i \in 1 .. k[l] : p[l][i] = c
                THEN "running" ELSE st[c]]

(* A pump is what LaneService calls Serve: a prefix of each queue starts.   *)
LEMMA DrainServes ==
  ASSUME NEW S \in SUBSET Lanes, NEW ls, NEW st, NEW lo, NEW tg, NEW ls2, NEW st2, NEW tg2,
         Ready(S, ls, st, lo, tg), Drains(S, ls, st, tg, ls2, st2, tg2)
  PROVE  Serves(Queues(ls), st, Queues(ls2), st2)
<1> DEFINE k == [l \in Lanes |-> IF l \in S THEN StartCount(ls[l]) ELSE 0]
<1>1. \A l \in Lanes : /\ ls[l] \in LaneState(Commands)
                       /\ Queues(ls)[l] = ls[l].queue
                       /\ Len(ls[l].queue) \in Nat
                       /\ ls[l].queue \in Seq(Commands)
  BY DEF Ready, Core, WellTyped, LaneState, Queues
<1>2. \A l \in Lanes : StartCount(ls[l]) \in 0 .. Len(ls[l].queue)
  BY <1>1, LanesAssumption, StartCountBounds
<1>3. \A l \in Lanes : k[l] \in 0 .. Len(Queues(ls)[l])
  BY <1>1, <1>2
<1>4. k \in [Lanes -> UNION {0 .. Len(Queues(ls)[l]) : l \in Lanes}]
  BY <1>3
<1>5. \A l \in Lanes : k[l] <= Len(Queues(ls)[l])
  BY <1>1, <1>3
<1>6. ls2 = [l \in Lanes |-> IF l \in S THEN DrainLane(ls[l]) ELSE ls[l]]
  BY DEF Drains
<1>7. Queues(ls2) =
        [l \in Lanes |-> SubSeq(Queues(ls)[l], k[l] + 1, Len(Queues(ls)[l]))]
  <2> SUFFICES ASSUME NEW l \in Lanes
               PROVE  ls2[l].queue = SubSeq(ls[l].queue, k[l] + 1, Len(ls[l].queue))
    BY <1>1 DEF Queues
  <2>1. CASE l \in S
    BY <1>1, <1>6, <2>1, LanesAssumption, DrainLaneShape
  <2>2. CASE l \notin S
    <3>1. ls2[l].queue = ls[l].queue /\ k[l] + 1 = 1
      BY <1>6, <2>2
    <3>2. SubSeq(ls[l].queue, 1, Len(ls[l].queue)) = ls[l].queue
      BY <1>1
    <3> QED BY <3>1, <3>2
  <2> QED BY <2>1, <2>2
<1>8. st2 = [c \in Commands |->
                 IF \E l \in Lanes : \E i \in 1 .. k[l] : Queues(ls)[l][i] = c
                 THEN "running" ELSE st[c]]
  <2>1. st2 = [c \in Commands |->
                   IF c \in UNION {Started(ls[l]) : l \in S} THEN "running" ELSE st[c]]
    BY DEF Drains
  <2>2. \A c \in Commands : c \in UNION {Started(ls[l]) : l \in S} <=>
          \E l \in Lanes : \E i \in 1 .. k[l] : Queues(ls)[l][i] = c
    <3>1. \A l \in S : k[l] = StartCount(ls[l])
      OBVIOUS
    <3>2. \A l \in Lanes : l \notin S => 1 .. k[l] = {}
      OBVIOUS
    <3>3. \A l \in S : \A c : c \in Started(ls[l]) <=> \E i \in 1 .. k[l] : Queues(ls)[l][i] = c
      BY <1>1, <3>1 DEF Started
    <3>4. ASSUME NEW c, c \in UNION {Started(ls[l]) : l \in S}
          PROVE  \E l \in Lanes : \E i \in 1 .. k[l] : Queues(ls)[l][i] = c
      <4>1. PICK l \in S : c \in Started(ls[l])
        BY <3>4
      <4> QED BY <3>3, <4>1
    <3>5. ASSUME NEW c, NEW l \in Lanes, NEW i \in 1 .. k[l], Queues(ls)[l][i] = c
          PROVE  c \in UNION {Started(ls[m]) : m \in S}
      <4>1. l \in S
        BY <3>2
      <4>2. c \in Started(ls[l])
        BY <3>3, <3>5, <4>1
      <4> HIDE DEF k
      <4> QED BY <4>1, <4>2
    <3> HIDE DEF k
    <3> QED BY <3>4, <3>5
  <2> HIDE DEF k
  <2> QED BY <2>1, <2>2
<1> HIDE DEF k
<1> QED
  BY <1>4, <1>5, <1>7, <1>8 DEF Serves, Queues

(* CommandLanes implements LaneService: every operation, pumps included, is  *)
(* one step of the abstract service or none.                                *)
THEOREM Implements == Spec => ServiceSpec
<1>1. Init => Service!Init
  BY DEF Init, Service!Init, NewLane
<1>2. Inv /\ [Next]_vars => [Service!Next]_(Service!svars)
  <2> SUFFICES ASSUME Inv, [Next]_vars
               PROVE  Service!Next \/ UNCHANGED Service!svars
    BY DEF Service!svars
  <2>1. /\ Good(lanes, stage, laneOf, taskGeneration)
        /\ WellTyped(lanes, stage, laneOf, taskGeneration)
        /\ \A l \in Lanes : lanes[l] \in LaneState(Commands)
    BY DEF Inv, Good, Core, WellTyped
  <2>2. ASSUME NEW c \in Commands, NEW name \in Lanes \cup {Blank}, EnqueueCommandInLane(c, name)
        PROVE  Service!Submit(c)
    <3> DEFINE lane == NormalizeLane(name)
               ls1 == [lanes EXCEPT ![lane] = Pushed(@, c)]
               st1 == [stage EXCEPT ![c] = "queued"]
               lo1 == [laneOf EXCEPT ![c] = lane]
    <3>1. lane \in Lanes /\ {lane} \in SUBSET Lanes
      BY LanesAssumption DEF NormalizeLane
    <3>2. stage[c] = "new" /\ Drain({lane}, ls1, st1)
      BY <2>2 DEF EnqueueCommandInLane
    <3>3. Queues(ls1) = [Queues(lanes) EXCEPT ![lane] = Append(@, c)]
      <4> HIDE DEF lane
      <4>1. \A l \in Lanes : ls1[l].queue = IF l = lane THEN Append(lanes[lane].queue, c)
                                            ELSE lanes[l].queue
        BY <2>1, <3>1, PushedShape DEF WellTyped
      <4> QED BY <3>1, <4>1 DEF Queues
    <3> HIDE DEF lane
    <3>4. Ready({lane}, ls1, st1, lo1, taskGeneration)
      BY <2>1, <3>1, <3>2, PushReady
    <3> HIDE DEF ls1, st1, lo1
    <3>5. Drains({lane}, ls1, st1, taskGeneration, lanes', stage', taskGeneration')
      BY <3>2, DrainIsDrains
    <3>6. Serves(Queues(ls1), st1, Queues(lanes'), stage')
      BY <3>1, <3>4, <3>5, DrainServes
    <3>7. Serves([Queues(lanes) EXCEPT ![lane] = Append(@, c)],
                 [stage EXCEPT ![c] = "queued"], Queues(lanes'), stage')
      BY <3>3, <3>6 DEF st1
    <3> QED BY <3>1, <3>2, <3>7 DEF Service!Submit, Service!Serve, Serves, Queues
  <2>3. ASSUME NEW c \in Commands, RefuseCommand(c)
        PROVE  Service!Refuse(c)
    BY <2>3 DEF RefuseCommand, Service!Refuse
  <2>4. ASSUME NEW c \in Commands, NEW outcome \in {"resolved", "rejected"}, SettleTask(c, outcome)
        PROVE  Service!Settle(c)
    <3> DEFINE lane == laneOf[c]
               ls1 == [lanes EXCEPT ![lane] = Completed(@, c)]
               st1 == [stage EXCEPT ![c] = outcome]
    <3>1. stage[c] = "running" /\ lane \in Lanes /\ {lane} \in SUBSET Lanes
      BY <2>1, <2>4 DEF SettleTask, WellTyped
    <3>2. Serves(Queues(lanes), st1, Queues(lanes'), stage')
      <4>1. CASE IsCurrent(lanes[lane], taskGeneration[c])
        <5>1. Drain({lane}, ls1, st1)
          BY <2>4, <4>1 DEF SettleTask
        <5>2. Ready({lane}, ls1, st1, laneOf, taskGeneration)
          BY <2>1, <3>1, <4>1, CompletedReady
        <5>3. Queues(ls1) = Queues(lanes)
          <6>1. \A l \in Lanes : ls1[l].queue = lanes[l].queue
            BY <2>1, <3>1 DEF WellTyped, Completed, LaneState
          <6> QED BY <6>1 DEF Queues
        <5> HIDE DEF lane, ls1, st1
        <5>4. Drains({lane}, ls1, st1, taskGeneration, lanes', stage', taskGeneration')
          BY <5>1, DrainIsDrains
        <5>5. Serves(Queues(ls1), st1, Queues(lanes'), stage')
          BY <3>1, <5>2, <5>4, DrainServes
        <5> QED BY <5>3, <5>5
      <4>2. CASE ~ IsCurrent(lanes[lane], taskGeneration[c])
        <5>1. stage' = st1 /\ lanes' = lanes
          BY <2>4, <4>2 DEF SettleTask
        <5>2. WellTyped(lanes, st1, laneOf, taskGeneration)
          BY <2>1 DEF WellTyped, Stages, Settled
        <5> HIDE DEF st1
        <5> DEFINE k == [l \in Lanes |-> 0]
        <5>3. \A l \in Lanes : /\ Queues(lanes)[l] = lanes[l].queue
                               /\ Len(lanes[l].queue) \in Nat
                               /\ SubSeq(lanes[l].queue, 1, Len(lanes[l].queue)) = lanes[l].queue
          BY <2>1 DEF Queues, LaneState
        <5>4. k \in [Lanes -> UNION {0 .. Len(Queues(lanes)[l]) : l \in Lanes}]
          BY <5>3
        <5>5. \A l \in Lanes : k[l] <= Len(Queues(lanes)[l])
          BY <5>3
        <5>6. Queues(lanes') =
                [l \in Lanes |-> SubSeq(Queues(lanes)[l], k[l] + 1, Len(Queues(lanes)[l]))]
          BY <5>1, <5>3 DEF Queues
        <5>7. stage' = [d \in Commands |->
                         IF \E l \in Lanes : \E i \in 1 .. k[l] : Queues(lanes)[l][i] = d
                         THEN "running" ELSE st1[d]]
          BY <5>1, <5>2 DEF WellTyped
        <5> HIDE DEF k
        <5> QED BY <5>4, <5>5, <5>6, <5>7 DEF Serves
      <4> QED BY <4>1, <4>2
    <3> HIDE DEF lane, ls1
    <3> QED BY <3>1, <3>2 DEF Service!Settle, Service!Serve, Serves, Queues
  <2>5. ASSUME NEW name \in Lanes \cup {Blank}, NEW n \in 0 .. MaxCap,
               SetCommandLaneConcurrency(name, n)
        PROVE  Service!Resume
    <3> DEFINE lane == NormalizeLane(name)
               ls1 == [lanes EXCEPT ![lane] = Resized(@, n)]
    <3>1. lane \in Lanes /\ {lane} \in SUBSET Lanes /\ n \in Nat
      BY LanesAssumption DEF NormalizeLane
    <3>2. Drain({lane}, ls1, stage)
      BY <2>5 DEF SetCommandLaneConcurrency
    <3>3. Queues(ls1) = Queues(lanes)
      <4>1. \A l \in Lanes : ls1[l].queue = lanes[l].queue
        BY <2>1, <3>1 DEF WellTyped, Resized, LaneState
      <4> QED BY <4>1 DEF Queues
    <3> HIDE DEF lane
    <3>4. Ready({lane}, ls1, stage, laneOf, taskGeneration)
      BY <2>1, <3>1, ResizedReady
    <3> HIDE DEF ls1
    <3>5. Drains({lane}, ls1, stage, taskGeneration, lanes', stage', taskGeneration')
      BY <3>2, DrainIsDrains
    <3>6. Serves(Queues(ls1), stage, Queues(lanes'), stage')
      BY <3>1, <3>4, <3>5, DrainServes
    <3>7. Serves(Queues(lanes), stage, Queues(lanes'), stage')
      BY <3>3, <3>6
    <3> QED BY <3>7 DEF Service!Resume, Service!Serve, Serves, Queues
  <2>6. ASSUME NEW name \in Lanes \cup {Blank}, ClearCommandLane(name)
        PROVE  Service!Discard(NormalizeLane(name))
    <3> DEFINE lane == NormalizeLane(name)
    <3>1. lane \in Lanes
      BY LanesAssumption DEF NormalizeLane
    <3>2. /\ lanes' = [lanes EXCEPT ![lane] = Cleared(@)]
          /\ stage' = [c \in Commands |->
               IF c \in {lanes[lane].queue[i] : i \in DOMAIN lanes[lane].queue}
               THEN "cleared" ELSE stage[c]]
      BY <2>6 DEF ClearCommandLane
    <3> HIDE DEF lane
    <3>3. Queues(lanes') = [Queues(lanes) EXCEPT ![lane] = <<>>]
      <4>1. \A l \in Lanes : lanes'[l].queue = IF l = lane THEN <<>> ELSE lanes[l].queue
        BY <2>1, <3>1, <3>2, ClearedShape DEF WellTyped
      <4> QED BY <3>1, <4>1 DEF Queues
    <3>4. stage' = [c \in Commands |->
                     IF \E i \in 1 .. Len(Queues(lanes)[lane]) : Queues(lanes)[lane][i] = c
                     THEN "cleared" ELSE stage[c]]
      <4>1. /\ Queues(lanes)[lane] = lanes[lane].queue
            /\ DOMAIN lanes[lane].queue = 1 .. Len(lanes[lane].queue)
        BY <2>1, <3>1 DEF Queues, LaneState
      <4> QED BY <3>2, <4>1
    <3> QED BY <3>3, <3>4 DEF Service!Discard, Queues, lane
  <2>7. ASSUME ResetAllLanes
        PROVE  Service!Resume
    <3> DEFINE ls1 == [l \in Lanes |-> Reset(lanes[l])]
               S == {l \in Lanes : lanes[l].queue # <<>>}
    <3>1. Drain(S, ls1, stage) /\ S \in SUBSET Lanes
      BY <2>7 DEF ResetAllLanes
    <3>2. Queues(ls1) = Queues(lanes)
      BY <2>1, ResetShape DEF Queues
    <3>3. Ready(S, ls1, stage, laneOf, taskGeneration)
      BY <2>1, ResetReady
    <3> HIDE DEF ls1, S
    <3>4. Drains(S, ls1, stage, taskGeneration, lanes', stage', taskGeneration')
      BY <3>1, DrainIsDrains
    <3>5. Serves(Queues(ls1), stage, Queues(lanes'), stage')
      BY <3>1, <3>3, <3>4, DrainServes
    <3>6. Serves(Queues(lanes), stage, Queues(lanes'), stage')
      BY <3>2, <3>5
    <3> QED BY <3>6 DEF Service!Resume, Service!Serve, Serves, Queues
  <2>8. ASSUME \/ MarkGatewayDraining
               \/ \E w \in Waiters : \/ \E timeoutMs \in {0, 1} : WaitForActiveTasks(w, timeoutMs)
                                     \/ WaiterTimeout(w)
               \/ UNCHANGED vars
        PROVE  UNCHANGED Service!svars
    <3>1. UNCHANGED <<lanes, stage>>
      BY <2>8 DEF MarkGatewayDraining, WaitForActiveTasks, WaiterTimeout, vars
    <3> QED BY <3>1 DEF Service!svars
  <2>9. \A name \in Lanes \cup {Blank} : NormalizeLane(name) \in Lanes
    BY LanesAssumption DEF NormalizeLane
  <2> QED
    BY <2>2, <2>3, <2>4, <2>5, <2>6, <2>7, <2>8, <2>9 DEF Next, Service!Next
<1> QED
  BY <1>1, <1>2, InvIsInvariant, PTL DEF Spec, ServiceSpec, Service!Spec
=============================================================================

-------------------------- MODULE GatewayRuns_proofs --------------------------
(***************************************************************************)
(* Proofs about agent runs on the command queue, for all finite sets of    *)
(* runs, all sessions, caps and numbers of restarts.                       *)
(*                                                                         *)
(* One call of the pump may start session tasks, let each of them queue    *)
(* its run in a global lane, and start those.  Core says what lanes,       *)
(* stages and generations agree on; it is stated of explicit values, so    *)
(* that it can be followed through the parts of a pump (DrainStep,         *)
(* PushStep, RefuseStep), and Pumps puts them together once.               *)
(***************************************************************************)
EXTENDS GatewayRuns, SequenceTheorems, FiniteSetTheorems, TLAPS

(* The entries waiting in a lane are distinct. *)
Distinct(q) == \A i, j \in DOMAIN q : q[i] = q[j] => i = j

Stages == {"idle", "queued", "running"} \cup Over

(* What waits in a lane is queued for it, once. *)
Queues(ls, st) ==
  \A l \in Lanes :
    /\ Distinct(ls[l].queue)
    /\ \A i \in DOMAIN ls[l].queue :
         LaneOf(ls[l].queue[i]) = l /\ st[ls[l].queue[i]] = "queued"

(* The slots of a lane are held by the tasks of its present generation. *)
Slots(ls, st, g) ==
  \A l \in Lanes : \A e \in Entries :
    e \in ls[l].activeTaskIds
      <=> LaneOf(e) = l /\ st[e] = "running" /\ g[e] = ls[l].generation

Gens(ls, g) == \A e \in Entries : g[e] <= ls[LaneOf(e)].generation

(* A session lane has one slot. *)
Caps(ls) == \A s \in Sessions :
  ls[s].maxConcurrent = 1 /\ Cardinality(ls[s].activeTaskIds) <= 1

Shaped(ls, st, g) ==
  /\ ls \in [Lanes -> LaneState(Entries)]
  /\ st \in [Entries -> Stages]
  /\ g \in [Entries -> Nat]

Core(ls, st, g) ==
  Shaped(ls, st, g) /\ Queues(ls, st) /\ Slots(ls, st, g) /\ Gens(ls, g) /\ Caps(ls)

(* A turn is queued by the task that holds the session's slot. *)
Nested(st) ==
  \A r \in Runs :
    /\ st[Turn(r)] \in {"queued", "running"} => st[SessionEntry(r)] = "running"
    /\ st[SessionEntry(r)] \in {"idle", "queued"} => st[Turn(r)] = "idle"

(* While the gateway drains, every turn of this life that is still to end  *)
(* is under a task of the snapshot, and the wait for those is not over.    *)
Draining ==
  /\ gatewayDraining <=> phase # "serving"
  /\ phase = "draining" =>
       \A r \in Runs :
         stage[Turn(r)] \in {"queued", "running"} /\ AdmittedInThisLife(r)
           => SessionEntry(r) \in drain.tasks /\ ~ drain.tasksDrained

Inv == TypeOK /\ Core(lanes, stage, generationOf) /\ Nested(stage) /\ Draining
-----------------------------------------------------------------------------
(* The way of a run. *)

LEMMA Paths ==
  ASSUME NEW r \in Runs
  PROVE  /\ TurnLevel(r) \in {2, 3} /\ SessionLevel(r) = TurnLevel(r) - 1
         /\ DOMAIN Path(r) = 1 .. TurnLevel(r)
         /\ Path(r)[SessionLevel(r)] = SessionOf[r]
         /\ \A i \in 1 .. TurnLevel(r) :
              i # SessionLevel(r) => Path(r)[i] \in {"main", "cron", "nested"}
         /\ SessionOf[r] \in Sessions
<1>1. SessionOf[r] \in Sessions
  BY RunsAssumption
<1>2. CASE r \in CronRuns
  BY <1>1, <1>2 DEF Path, TurnLevel, SessionLevel, ResolveGlobalLane
<1>3. CASE r \notin CronRuns
  BY <1>1, <1>3 DEF Path, TurnLevel, SessionLevel, ResolveGlobalLane
<1> QED BY <1>2, <1>3

LEMMA EntryFacts ==
  ASSUME NEW e \in Entries
  PROVE  /\ e[1] \in Runs /\ e[2] \in 1 .. TurnLevel(e[1]) /\ e = <<e[1], e[2]>>
         /\ LaneOf(e) \in Lanes
         /\ LaneOf(e) \in Sessions => e = SessionEntry(e[1])
<1>1. PICK r \in Runs : e \in {r} \X DOMAIN Path(r)
  BY DEF Entries
<1>2. e[1] = r /\ e[2] \in 1 .. TurnLevel(r) /\ e = <<e[1], e[2]>>
  BY <1>1, Paths
<1>3. LaneOf(e) = Path(r)[e[2]]
  BY <1>2 DEF LaneOf
<1>4. e[2] = SessionLevel(r) \/ LaneOf(e) \in {"main", "cron", "nested"}
  BY <1>2, <1>3, Paths
<1>5. e[2] = SessionLevel(r) => LaneOf(e) \in Sessions
  BY <1>3, Paths
<1> QED
  BY <1>1, <1>2, <1>4, <1>5, RunsAssumption DEF Lanes, SessionEntry

LEMMA RunFacts ==
  ASSUME NEW r \in Runs
  PROVE  /\ Turn(r) \in Entries /\ SessionEntry(r) \in Entries /\ <<r, 1>> \in Entries
         /\ Turn(r)[1] = r /\ SessionEntry(r)[1] = r
         /\ LaneOf(SessionEntry(r)) = SessionOf[r] /\ SessionOf[r] \in Sessions
         /\ \A q \in Runs : SessionEntry(q) # Turn(r)
         /\ \A i \in 1 .. SessionLevel(r) : <<r, i>> \in Entries /\ <<r, i>> # Turn(r)
         /\ <<r, 1>> # Turn(r)
         /\ \A q \in Runs : Turn(q) = Turn(r) => q = r
         /\ \A q \in Runs : SessionEntry(q) = SessionEntry(r) => q = r
<1>1. \A i \in 1 .. TurnLevel(r) : <<r, i>> \in Entries
  <2> TAKE i \in 1 .. TurnLevel(r)
  <2>1. <<r, i>> \in {r} \X DOMAIN Path(r)
    BY Paths
  <2> QED BY <2>1 DEF Entries
<1>2. \A q \in Runs : SessionEntry(q) # Turn(r)
  <2> SUFFICES ASSUME NEW q \in Runs, SessionEntry(q) = Turn(r) PROVE FALSE
    OBVIOUS
  <2>1. q = r /\ SessionLevel(q) = TurnLevel(r)
    BY DEF SessionEntry, Turn
  <2> QED BY <2>1, Paths
<1>3. TurnLevel(r) \in {2, 3} /\ SessionLevel(r) = TurnLevel(r) - 1
  BY Paths
<1>4. Turn(r) \in Entries /\ SessionEntry(r) \in Entries /\ <<r, 1>> \in Entries
  BY <1>1, <1>3 DEF Turn, SessionEntry
<1>5. \A i \in 1 .. SessionLevel(r) : <<r, i>> \in Entries /\ <<r, i>> # Turn(r)
  BY <1>1, <1>3 DEF Turn
<1>6. LaneOf(SessionEntry(r)) = SessionOf[r] /\ SessionOf[r] \in Sessions
  BY Paths DEF LaneOf, SessionEntry
<1>7. <<r, 1>> # Turn(r)
  BY <1>3 DEF Turn
<1> QED
  BY <1>2, <1>4, <1>5, <1>6, <1>7 DEF Turn, SessionEntry

LEMMA FiniteEntries == IsFiniteSet(Entries)
<1>1. Entries \subseteq Runs \X (1 .. 3)
  <2> SUFFICES ASSUME NEW e \in Entries PROVE e \in Runs \X (1 .. 3)
    OBVIOUS
  <2>1. e[1] \in Runs /\ e[2] \in 1 .. TurnLevel(e[1]) /\ e = <<e[1], e[2]>>
    BY EntryFacts
  <2>2. e[2] \in 1 .. 3
    BY <2>1, Paths
  <2> QED BY <2>1, <2>2
<1>2. IsFiniteSet(1 .. 3)
  <2>1. 1 \in Int /\ 3 \in Int
    OBVIOUS
  <2> QED BY <2>1, FS_Interval
<1>3. IsFiniteSet(Runs)
  BY RunsAssumption
<1>4. IsFiniteSet(Runs \X (1 .. 3))
  BY <1>2, <1>3, FS_Product
<1> QED BY <1>1, <1>4, FS_Subset
-----------------------------------------------------------------------------
(* One lane.  The pump moves a prefix of the queue into slots; a lane of   *)
(* one slot it leaves with one task at most.                               *)

LEMMA PumpShape ==
  ASSUME NEW lane \in LaneState(Entries)
  PROVE  /\ StartCount(lane) \in 0 .. Len(lane.queue)
         /\ Started(lane) \subseteq Entries
         /\ DrainLane(lane) \in LaneState(Entries)
         /\ DrainLane(lane).activeTaskIds = lane.activeTaskIds \cup Started(lane)
         /\ DrainLane(lane).maxConcurrent = lane.maxConcurrent
         /\ DrainLane(lane).generation = lane.generation
         /\ Len(DrainLane(lane).queue) = Len(lane.queue) - StartCount(lane)
         /\ \A i \in DOMAIN DrainLane(lane).queue :
              /\ i + StartCount(lane) \in DOMAIN lane.queue
              /\ DrainLane(lane).queue[i] = lane.queue[i + StartCount(lane)]
<1> DEFINE q == lane.queue
           n == StartCount(lane)
           rest == SubSeq(q, n + 1, Len(q))
<1>1. /\ q \in Seq(Entries) /\ lane.activeTaskIds \in SUBSET Entries
      /\ lane.maxConcurrent \in Nat \ {0} /\ lane.generation \in Nat
      /\ Len(q) \in Nat /\ DOMAIN q = 1 .. Len(q)
  BY DEF LaneState
<1>2. n \in 0 .. Len(q)
  <2>1. Cardinality(lane.activeTaskIds) \in Nat
    BY <1>1, FiniteEntries, FS_Subset, FS_CardinalityType
  <2> QED BY <1>1, <2>1 DEF StartCount, FreeSlots
<1>3. Started(lane) \subseteq Entries
  BY <1>1, <1>2 DEF Started
<1> HIDE DEF n
<1>4. /\ rest \in Seq(Entries) /\ Len(rest) = Len(q) - n
      /\ \A i \in 1 .. Len(rest) : rest[i] = q[i + n]
  BY <1>1, <1>2
<1> HIDE DEF rest
<1>5. DrainLane(lane) = [lane EXCEPT !.queue = rest,
                                    !.activeTaskIds = lane.activeTaskIds \cup Started(lane)]
  BY DEF DrainLane, n, rest
<1>6. /\ DrainLane(lane) \in LaneState(Entries)
      /\ DrainLane(lane).queue = rest
      /\ DrainLane(lane).activeTaskIds = lane.activeTaskIds \cup Started(lane)
      /\ DrainLane(lane).maxConcurrent = lane.maxConcurrent
      /\ DrainLane(lane).generation = lane.generation
  BY <1>1, <1>3, <1>4, <1>5 DEF LaneState
<1>7. \A i \in DOMAIN rest : i + n \in DOMAIN q /\ rest[i] = q[i + n]
  <2> SUFFICES ASSUME NEW i \in DOMAIN rest
               PROVE  i + n \in DOMAIN q /\ rest[i] = q[i + n]
    OBVIOUS
  <2>1. i \in 1 .. Len(rest)
    BY <1>4
  <2> QED BY <1>1, <1>2, <1>4, <2>1 DEF n
<1>8. DOMAIN DrainLane(lane).queue = DOMAIN rest /\ Len(DrainLane(lane).queue) = Len(q) - n
  BY <1>4, <1>6
<1> QED
  BY <1>2, <1>3, <1>6, <1>7, <1>8 DEF n

LEMMA PumpOneSlot ==
  ASSUME NEW lane \in LaneState(Entries), lane.maxConcurrent = 1, Started(lane) # {}
  PROVE  Cardinality(lane.activeTaskIds \cup Started(lane)) <= 1
<1>1. IsFiniteSet(lane.activeTaskIds) /\ Cardinality(lane.activeTaskIds) \in Nat
  BY FiniteEntries, FS_Subset, FS_CardinalityType DEF LaneState
<1>2. StartCount(lane) \in Nat
  BY PumpShape DEF LaneState
<1>3. 1 \in 1 .. StartCount(lane)
  BY <1>2 DEF Started
<1>4. Cardinality(lane.activeTaskIds) = 0 /\ StartCount(lane) = 1
  <2>1. (FreeSlots(lane) = 1 /\ Cardinality(lane.activeTaskIds) = 0) \/ FreeSlots(lane) = 0
    BY <1>1 DEF FreeSlots
  <2>2. Len(lane.queue) \in Nat /\ StartCount(lane) <= FreeSlots(lane)
    BY <2>1 DEF StartCount, LaneState
  <2> QED BY <1>2, <1>3, <2>1, <2>2
<1>5. lane.activeTaskIds = {}
  BY <1>1, <1>4, FS_EmptySet
<1>6. Started(lane) = {lane.queue[1]}
  BY <1>4 DEF Started
<1>7. Cardinality({lane.queue[1]}) = 1
  BY FS_Singleton
<1>8. lane.activeTaskIds \cup Started(lane) = {lane.queue[1]}
  BY <1>5, <1>6
<1> QED BY <1>7, <1>8

LEMMA ClearedShape ==
  ASSUME NEW lane \in LaneState(Entries)
  PROVE  /\ Cleared(lane) \in LaneState(Entries)
         /\ Cleared(lane).queue = <<>>
         /\ Cleared(lane).activeTaskIds = lane.activeTaskIds
         /\ Cleared(lane).maxConcurrent = lane.maxConcurrent
         /\ Cleared(lane).generation = lane.generation
<1> DEFINE q == <<>>
<1>1. q \in Seq(Entries)
  OBVIOUS
<1>2. Cleared(lane) = [lane EXCEPT !.queue = q]
  BY DEF Cleared
<1> HIDE DEF q
<1>3. /\ Cleared(lane) \in LaneState(Entries) /\ Cleared(lane).queue = q
      /\ Cleared(lane).activeTaskIds = lane.activeTaskIds
      /\ Cleared(lane).maxConcurrent = lane.maxConcurrent
      /\ Cleared(lane).generation = lane.generation
  BY <1>1, <1>2 DEF LaneState
<1> QED BY <1>3 DEF q

LEMMA ResetShape ==
  ASSUME NEW lane \in LaneState(Entries)
  PROVE  /\ Reset(lane) \in LaneState(Entries)
         /\ Reset(lane).queue = lane.queue
         /\ Reset(lane).activeTaskIds = {}
         /\ Reset(lane).maxConcurrent = lane.maxConcurrent
         /\ Reset(lane).generation = lane.generation + 1
<1> DEFINE A == [lane EXCEPT !.activeTaskIds = {}]
           g == lane.generation + 1
<1>1. /\ A \in LaneState(Entries) /\ A.queue = lane.queue /\ A.activeTaskIds = {}
      /\ A.maxConcurrent = lane.maxConcurrent
  BY DEF LaneState
<1>2. g \in Nat
  BY DEF LaneState
<1>3. Reset(lane) = [A EXCEPT !.generation = g]
  BY DEF Reset
<1> HIDE DEF A, g
<1>4. /\ Reset(lane) \in LaneState(Entries) /\ Reset(lane).queue = A.queue
      /\ Reset(lane).activeTaskIds = A.activeTaskIds
      /\ Reset(lane).maxConcurrent = A.maxConcurrent
      /\ Reset(lane).generation = g
  BY <1>1, <1>2, <1>3 DEF LaneState
<1> QED BY <1>1, <1>4 DEF g
-----------------------------------------------------------------------------
(* The parts of a pump. *)

First(ls, S) == UNION {Started(ls[l]) : l \in S}
Drained(ls, S) == [l \in Lanes |-> IF l \in S THEN DrainLane(ls[l]) ELSE ls[l]]
Running(st, F) == [e \in Entries |-> IF e \in F THEN "running" ELSE st[e]]
Stamped(ls, g, F) ==
  [e \in Entries |-> IF e \in F THEN ls[LaneOf(e)].generation ELSE g[e]]

(* What the pump starts was waiting in a lane it visits. *)
LEMMA FirstFacts ==
  ASSUME NEW ls, NEW st, NEW g, Core(ls, st, g), NEW S \in SUBSET Lanes
  PROVE  \A e \in First(ls, S) :
           e \in Entries /\ st[e] = "queued" /\ LaneOf(e) \in S /\ e \in Started(ls[LaneOf(e)])
<1> SUFFICES ASSUME NEW e \in First(ls, S)
             PROVE  e \in Entries /\ st[e] = "queued" /\ LaneOf(e) \in S
                    /\ e \in Started(ls[LaneOf(e)])
  OBVIOUS
<1>1. PICK l \in S : e \in Started(ls[l])
  BY DEF First
<1>2. ls[l] \in LaneState(Entries)
  BY DEF Core, Shaped
<1>3. /\ StartCount(ls[l]) \in 0 .. Len(ls[l].queue)
      /\ ls[l].queue \in Seq(Entries)
  BY <1>2, PumpShape DEF LaneState
<1>4. PICK i \in 1 .. StartCount(ls[l]) : e = ls[l].queue[i]
  BY <1>1 DEF Started
<1>5. i \in DOMAIN ls[l].queue /\ e \in Entries
  BY <1>3, <1>4
<1>6. LaneOf(e) = l /\ st[e] = "queued"
  BY <1>4, <1>5 DEF Core, Queues
<1> QED BY <1>1, <1>5, <1>6

LEMMA DrainStep ==
  ASSUME NEW ls, NEW st, NEW g, Core(ls, st, g), NEW S \in SUBSET Lanes
  PROVE  LET F == First(ls, S)
         IN /\ Core(Drained(ls, S), Running(st, F), Stamped(ls, g, F))
            /\ \A l \in Lanes : Drained(ls, S)[l].generation = ls[l].generation
<1> DEFINE F == First(ls, S)
           ls1 == Drained(ls, S)
           st1 == Running(st, F)
           g1 == Stamped(ls, g, F)
<1>1. \A l \in Lanes : ls[l] \in LaneState(Entries)
  BY DEF Core, Shaped
<1>2. \A e \in F : e \in Entries /\ st[e] = "queued" /\ LaneOf(e) \in S
                   /\ e \in Started(ls[LaneOf(e)])
  BY FirstFacts
<1>3. \A l \in S :
        /\ ls1[l] = DrainLane(ls[l])
        /\ Started(ls[l]) \subseteq F /\ Started(ls[l]) \subseteq Entries
  BY <1>1, PumpShape DEF First, Drained
<1>4. \A l \in Lanes \ S : ls1[l] = ls[l]
  BY DEF Drained
<1>5. \A l \in Lanes :
        /\ ls1[l] \in LaneState(Entries)
        /\ ls1[l].maxConcurrent = ls[l].maxConcurrent
        /\ ls1[l].generation = ls[l].generation
  <2> TAKE l \in Lanes
  <2>1. CASE l \in S
    BY <1>1, <1>3, <2>1, PumpShape
  <2>2. CASE l \notin S
    BY <1>1, <1>4, <2>2
  <2> QED BY <2>1, <2>2
<1>6. \A e \in Entries : st1[e] = IF e \in F THEN "running" ELSE st[e]
  BY DEF Running
<1>7. \A e \in Entries : g1[e] = IF e \in F THEN ls[LaneOf(e)].generation ELSE g[e]
  BY DEF Stamped
<1>8. Shaped(ls1, st1, g1)
  <2>1. ls1 \in [Lanes -> LaneState(Entries)]
    BY <1>5 DEF Drained
  <2>2. st1 \in [Entries -> Stages]
    BY DEF Running, Core, Shaped, Stages
  <2>3. \A e \in Entries : ls[LaneOf(e)].generation \in Nat
    BY <1>1, EntryFacts DEF LaneState
  <2>4. g1 \in [Entries -> Nat]
    BY <2>3 DEF Stamped, Core, Shaped
  <2> QED BY <2>1, <2>2, <2>4 DEF Shaped
<1>9. Queues(ls1, st1)
  <2> SUFFICES ASSUME NEW l \in Lanes
               PROVE  /\ Distinct(ls1[l].queue)
                      /\ \A i \in DOMAIN ls1[l].queue :
                           LaneOf(ls1[l].queue[i]) = l /\ st1[ls1[l].queue[i]] = "queued"
    BY DEF Queues
  <2>1. /\ Distinct(ls[l].queue)
        /\ \A i \in DOMAIN ls[l].queue :
             /\ ls[l].queue[i] \in Entries
             /\ LaneOf(ls[l].queue[i]) = l /\ st[ls[l].queue[i]] = "queued"
    BY <1>1 DEF Core, Queues, LaneState
  <2>2. CASE l \in S
    <3> DEFINE n == StartCount(ls[l])
               q == ls[l].queue
               q1 == ls1[l].queue
    <3>1. n \in 0 .. Len(q) /\ q \in Seq(Entries)
      BY <1>1, PumpShape DEF LaneState
    <3>2. q1 \in Seq(Entries) /\ Len(q1) = Len(q) - n
          /\ \A i \in DOMAIN q1 : i + n \in DOMAIN q /\ q1[i] = q[i + n]
      BY <1>1, <1>3, <1>5, <2>2, PumpShape DEF LaneState
    <3>3. Started(ls[l]) = {q[j] : j \in 1 .. n}
      BY DEF Started
    <3> HIDE DEF n, q, q1
    <3>4. \A i \in DOMAIN q1 : q1[i] \notin Started(ls[l])
      <4> SUFFICES ASSUME NEW i \in DOMAIN q1, NEW j \in 1 .. n, q1[i] = q[j]
                   PROVE  FALSE
        BY <3>3
      <4>1. i + n \in DOMAIN q /\ j \in DOMAIN q /\ q[i + n] = q[j] /\ i \in 1 .. Len(q1)
        BY <3>1, <3>2
      <4>2. i + n = j
        BY <2>1, <4>1 DEF Distinct, q
      <4> QED BY <3>1, <4>1, <4>2
    <3>5. \A i \in DOMAIN q1 :
            q1[i] \in Entries /\ LaneOf(q1[i]) = l /\ st[q1[i]] = "queued"
      BY <2>1, <3>2 DEF q
    <3>6. \A i \in DOMAIN q1 : q1[i] \notin F
      BY <1>2, <3>4, <3>5
    <3>7. \A i, j \in DOMAIN q1 : q1[i] = q1[j] => i = j
      <4> SUFFICES ASSUME NEW i \in DOMAIN q1, NEW j \in DOMAIN q1, q1[i] = q1[j]
                   PROVE  i = j
        OBVIOUS
      <4>1. i + n = j + n
        BY <2>1, <3>2 DEF Distinct, q
      <4>2. i \in Nat /\ j \in Nat /\ n \in Nat
        BY <3>1, <3>2
      <4> QED BY <4>1, <4>2
    <3> QED BY <1>6, <3>5, <3>6, <3>7 DEF Distinct, q1
  <2>3. CASE l \notin S
    <3>1. \A i \in DOMAIN ls[l].queue : ls[l].queue[i] \notin F
      BY <1>2, <2>1, <2>3
    <3> QED BY <1>4, <1>6, <2>1, <2>3, <3>1
  <2> QED BY <2>2, <2>3
<1>10. \A l \in Lanes : ls1[l].activeTaskIds =
         ls[l].activeTaskIds \cup (IF l \in S THEN Started(ls[l]) ELSE {})
  BY <1>1, <1>3, <1>4, PumpShape
<1>11. Slots(ls1, st1, g1)
  <2> SUFFICES ASSUME NEW l \in Lanes, NEW e \in Entries
               PROVE  e \in ls1[l].activeTaskIds
                        <=> LaneOf(e) = l /\ st1[e] = "running" /\ g1[e] = ls1[l].generation
    BY DEF Slots
  <2>1. e \in ls[l].activeTaskIds
          <=> LaneOf(e) = l /\ st[e] = "running" /\ g[e] = ls[l].generation
    BY DEF Core, Slots
  <2>2. CASE e \in F
    <3>1. e \in Started(ls[l]) /\ l \in S => LaneOf(e) = l
      <4>1. ASSUME e \in Started(ls[l]), l \in S PROVE LaneOf(e) = l
        <5>1. e \in First(ls, {l})
          BY <4>1 DEF First
        <5> QED BY <5>1, FirstFacts
      <4> QED BY <4>1
    <3> QED BY <1>2, <1>5, <1>6, <1>7, <1>10, <2>1, <2>2, <3>1
  <2>3. CASE e \notin F
    BY <1>3, <1>5, <1>6, <1>7, <1>10, <2>1, <2>3
  <2> QED BY <2>2, <2>3
<1>12. Gens(ls1, g1)
  <2> SUFFICES ASSUME NEW e \in Entries PROVE g1[e] <= ls1[LaneOf(e)].generation
    BY DEF Gens
  <2>1. /\ ls1[LaneOf(e)].generation = ls[LaneOf(e)].generation
        /\ ls[LaneOf(e)].generation \in Nat /\ g[e] <= ls[LaneOf(e)].generation
    BY <1>1, <1>5, EntryFacts DEF LaneState, Core, Gens
  <2> QED BY <1>7, <2>1
<1>13. Caps(ls1)
  <2> SUFFICES ASSUME NEW s \in Sessions
               PROVE  ls1[s].maxConcurrent = 1 /\ Cardinality(ls1[s].activeTaskIds) <= 1
    BY DEF Caps
  <2>1. s \in Lanes /\ ls[s].maxConcurrent = 1 /\ Cardinality(ls[s].activeTaskIds) <= 1
    BY DEF Lanes, Core, Caps
  <2>2. CASE s \in S /\ Started(ls[s]) # {}
    <3>1. Cardinality(ls[s].activeTaskIds \cup Started(ls[s])) <= 1
      BY <1>1, <2>1, <2>2, PumpOneSlot
    <3> QED BY <1>5, <1>10, <2>1, <2>2, <3>1
  <2>3. CASE ~ (s \in S /\ Started(ls[s]) # {})
    <3>1. ls1[s].activeTaskIds = ls[s].activeTaskIds
      BY <1>10, <2>1, <2>3
    <3> QED BY <1>5, <2>1, <3>1
  <2> QED BY <2>2, <2>3
<1> QED BY <1>5, <1>8, <1>9, <1>11, <1>12, <1>13 DEF Core

(* An order of a finite set: each of its elements at one place. *)
LEMMA OrderOfSet ==
  ASSUME NEW C, NEW T \in SUBSET C, IsFiniteSet(T), NEW f \in SetToSeqs(T)
  PROVE  f \in Seq(C) /\ Distinct(f) /\ \A i \in DOMAIN f : f[i] \in T
<1> DEFINE n == Cardinality(T)
<1>1. n \in Nat
  BY FS_CardinalityType
<1>2. f \in [1 .. n -> T] /\ \A i, j \in 1 .. n : i # j => f[i] # f[j]
  BY DEF SetToSeqs
<1> HIDE DEF n
<1>3. f \in Seq(T)
  BY <1>1, <1>2, SeqDef
<1>4. f \in Seq(C)
  BY <1>1, <1>2, SeqDef
<1> QED BY <1>2, <1>4 DEF Distinct

Queued(st, N) == [e \in Entries |-> IF e \in N THEN "queued" ELSE st[e]]
Joined(ls, G, order) ==
  [l \in Lanes |-> IF l \in G THEN [ls[l] EXCEPT !.queue = @ \o order[l]] ELSE ls[l]]

(* Entries that were idle join the queues of their lanes. *)
LEMMA PushStep ==
  ASSUME NEW ls, NEW st, NEW g, Core(ls, st, g),
         NEW N \in SUBSET Entries, \A e \in N : st[e] = "idle",
         NEW G \in SUBSET Lanes, NEW order,
         \A l \in G : order[l] \in SetToSeqs({e \in N : LaneOf(e) = l})
  PROVE  /\ Core(Joined(ls, G, order), Queued(st, N), g)
         /\ \A l \in Lanes : Joined(ls, G, order)[l].generation = ls[l].generation
<1> DEFINE ls1 == Joined(ls, G, order)
           st1 == Queued(st, N)
<1>1. \A l \in Lanes : ls[l] \in LaneState(Entries)
  BY DEF Core, Shaped
<1>2. \A l \in G :
        /\ order[l] \in Seq(Entries) /\ Distinct(order[l])
        /\ \A i \in DOMAIN order[l] :
             order[l][i] \in N /\ LaneOf(order[l][i]) = l
  <2> TAKE l \in G
  <2> DEFINE T == {e \in N : LaneOf(e) = l}
  <2>1. T \in SUBSET Entries /\ IsFiniteSet(T)
    BY FiniteEntries, FS_Subset
  <2>2. order[l] \in SetToSeqs(T)
    OBVIOUS
  <2> HIDE DEF T
  <2>3. order[l] \in Seq(Entries) /\ Distinct(order[l])
        /\ \A i \in DOMAIN order[l] : order[l][i] \in T
    BY <2>1, <2>2, OrderOfSet
  <2> QED BY <2>3 DEF T
<1>3. \A l \in Lanes :
        /\ ls1[l] \in LaneState(Entries)
        /\ ls1[l].activeTaskIds = ls[l].activeTaskIds
        /\ ls1[l].maxConcurrent = ls[l].maxConcurrent
        /\ ls1[l].generation = ls[l].generation
        /\ ls1[l].queue = IF l \in G THEN ls[l].queue \o order[l] ELSE ls[l].queue
  <2> TAKE l \in Lanes
  <2>1. CASE l \in G
    <3> DEFINE q == ls[l].queue \o order[l]
    <3>1. q \in Seq(Entries)
      BY <1>1, <1>2, <2>1 DEF LaneState
    <3>2. ls1[l] = [ls[l] EXCEPT !.queue = q]
      BY <2>1 DEF Joined
    <3> HIDE DEF q
    <3>3. /\ ls1[l] \in LaneState(Entries) /\ ls1[l].queue = q
          /\ ls1[l].activeTaskIds = ls[l].activeTaskIds
          /\ ls1[l].maxConcurrent = ls[l].maxConcurrent
          /\ ls1[l].generation = ls[l].generation
      BY <1>1, <3>1, <3>2 DEF LaneState
    <3> QED BY <2>1, <3>3 DEF q
  <2>2. CASE l \notin G
    BY <1>1, <2>2 DEF Joined
  <2> QED BY <2>1, <2>2
<1>4. \A e \in Entries : st1[e] = IF e \in N THEN "queued" ELSE st[e]
  BY DEF Queued
<1>5. Shaped(ls1, st1, g)
  <2>1. ls1 \in [Lanes -> LaneState(Entries)]
    BY <1>3 DEF Joined
  <2>2. st1 \in [Entries -> Stages]
    BY DEF Queued, Core, Shaped, Stages
  <2> QED BY <2>1, <2>2 DEF Core, Shaped
<1>6. Queues(ls1, st1)
  <2> SUFFICES ASSUME NEW l \in Lanes
               PROVE  /\ Distinct(ls1[l].queue)
                      /\ \A i \in DOMAIN ls1[l].queue :
                           LaneOf(ls1[l].queue[i]) = l /\ st1[ls1[l].queue[i]] = "queued"
    BY DEF Queues
  <2> DEFINE q == ls[l].queue
             o == order[l]
             q1 == ls1[l].queue
  <2>1. /\ q \in Seq(Entries) /\ Distinct(q)
        /\ \A i \in DOMAIN q : LaneOf(q[i]) = l /\ st[q[i]] = "queued"
    BY <1>1 DEF Core, Queues, LaneState
  <2>2. CASE l \in G
    <3>1. /\ o \in Seq(Entries) /\ Distinct(o)
          /\ \A i \in DOMAIN o : o[i] \in N /\ LaneOf(o[i]) = l /\ st[o[i]] = "idle"
      BY <1>2, <2>2
    <3>2. q1 = q \o o
      BY <1>3, <2>2
    <3> HIDE DEF q, o, q1
    <3>3. /\ q1 \in Seq(Entries)
          /\ \A i \in DOMAIN q1 :
               \/ i \in DOMAIN q /\ q1[i] = q[i]
               \/ i \notin DOMAIN q /\ i - Len(q) \in DOMAIN o /\ q1[i] = o[i - Len(q)]
      BY <2>1, <3>1, <3>2
    <3>4. \A i \in DOMAIN q1 : LaneOf(q1[i]) = l /\ st1[q1[i]] = "queued"
      BY <1>4, <2>1, <3>1, <3>3
    <3>5. \A i, j \in DOMAIN q1 : q1[i] = q1[j] => i = j
      <4> SUFFICES ASSUME NEW i \in DOMAIN q1, NEW j \in DOMAIN q1, q1[i] = q1[j]
                   PROVE  i = j
        OBVIOUS
      <4>1. i \in Nat /\ j \in Nat /\ Len(q) \in Nat
        BY <2>1, <3>3
      <4>2. CASE i \in DOMAIN q /\ j \in DOMAIN q
        BY <2>1, <3>3, <4>2 DEF Distinct
      <4>3. CASE i \notin DOMAIN q /\ j \notin DOMAIN q
        <5>1. i - Len(q) = j - Len(q)
          BY <3>1, <3>3, <4>3 DEF Distinct
        <5> QED BY <4>1, <5>1
      <4>4. CASE (i \in DOMAIN q) # (j \in DOMAIN q)
        <5>1. st[q1[i]] # st[q1[j]]
          BY <2>1, <3>1, <3>3, <4>4
        <5> QED BY <5>1
      <4> QED BY <4>2, <4>3, <4>4
    <3> QED BY <3>4, <3>5 DEF Distinct, q1
  <2>3. CASE l \notin G
    <3>1. q1 = q
      BY <1>3, <2>3
    <3> HIDE DEF q, q1
    <3>2. \A i \in DOMAIN q1 : LaneOf(q1[i]) = l /\ st1[q1[i]] = "queued"
      BY <1>4, <2>1, <3>1
    <3> QED BY <2>1, <3>1, <3>2 DEF q, q1
  <2> QED BY <2>2, <2>3
<1>7. Slots(ls1, st1, g)
  BY <1>3, <1>4 DEF Core, Slots
<1>8. Gens(ls1, g)
  BY <1>3, EntryFacts DEF Core, Gens
<1>9. Caps(ls1)
  BY <1>3 DEF Core, Caps, Lanes
<1> QED BY <1>3, <1>5, <1>6, <1>7, <1>8, <1>9 DEF Core

Refused(st, N) == [e \in Entries |-> IF e \in N THEN "refused" ELSE st[e]]

(* Idle entries that are refused were in no lane. *)
LEMMA RefuseStep ==
  ASSUME NEW ls, NEW st, NEW g, Core(ls, st, g),
         NEW N \in SUBSET Entries, \A e \in N : st[e] = "idle"
  PROVE  Core(ls, Refused(st, N), g)
<1> DEFINE st1 == Refused(st, N)
<1>1. \A e \in Entries : st1[e] = IF e \in N THEN "refused" ELSE st[e]
  BY DEF Refused
<1>2. Shaped(ls, st1, g)
  BY DEF Refused, Core, Shaped, Stages, Over
<1>3. Queues(ls, st1)
  <2>1. \A l \in Lanes : \A i \in DOMAIN ls[l].queue : ls[l].queue[i] \in Entries
    BY DEF Core, Shaped, LaneState
  <2> QED BY <1>1, <2>1 DEF Core, Queues
<1>4. Slots(ls, st1, g)
  BY <1>1 DEF Core, Slots
<1> QED BY <1>2, <1>3, <1>4 DEF Core
-----------------------------------------------------------------------------
(* The whole pump: what it leaves true, and what it does to each entry.    *)

(* An entry keeps its stage and generation, or it is started, or it is a   *)
(* turn that the start of its session task has queued or had refused.      *)
PumpedEntry(d, st, e) ==
  \/ stage'[e] = st[e] /\ generationOf'[e] = generationOf[e]
  \/ st[e] = "queued" /\ stage'[e] = "running"
  \/ /\ st[e] = "idle" /\ e = Turn(e[1])
     /\ stage'[SessionEntry(e[1])] = "running"
     /\ stage'[e] \in IF d THEN {"refused"} ELSE {"queued", "running"}

Pumped(d, ls, st) ==
  /\ Core(lanes', stage', generationOf')
  /\ \A l \in Lanes : lanes'[l].generation = ls[l].generation
  /\ \A e \in Entries : PumpedEntry(d, st, e)

LEMMA Pumps ==
  ASSUME NEW d \in BOOLEAN, NEW S \in SUBSET Lanes, NEW ls, NEW st,
         Core(ls, st, generationOf), Nested(st), Pump(d, S, ls, st)
  PROVE  Pumped(d, ls, st)
<1> DEFINE first == UNION {Started(ls[l]) : l \in S}
           ls1 == [l \in Lanes |-> IF l \in S THEN DrainLane(ls[l]) ELSE ls[l]]
           inner == {Turn(e[1]) : e \in {f \in first : f[2] = SessionLevel(f[1])}}
           G == IF d THEN {} ELSE {LaneOf(e) : e \in inner}
           ls2(order) == [l \in Lanes |->
                    IF l \in G THEN [ls1[l] EXCEPT !.queue = @ \o order[l]] ELSE ls1[l]]
           second(order) == UNION {Started(ls2(order)[l]) : l \in G}
           st1 == Running(st, first)
           g1 == Stamped(ls, generationOf, first)
<1> DEFINE orders == [l \in G |-> SetToSeqs({e \in inner : LaneOf(e) = l})]
           stageOf(order, e) == CASE e \in first \cup second(order) -> "running"
                 [] e \in inner \ second(order)    -> IF d THEN "refused" ELSE "queued"
                 [] OTHER                   -> st[e]
           genOf(order, e) ==
               IF e \in first \cup second(order) THEN ls[LaneOf(e)].generation
               ELSE generationOf[e]
<1>1. PICK order \in [G -> UNION {orders[l] : l \in G}] :
        /\ \A l \in G : order[l] \in orders[l]
        /\ lanes' = [l \in Lanes |-> IF l \in G THEN DrainLane(ls2(order)[l]) ELSE ls2(order)[l]]
        /\ stage' = [e \in Entries |-> stageOf(order, e)]
        /\ generationOf' = [e \in Entries |-> genOf(order, e)]
  BY Zenon DEF Pump
<1>2. \A l \in G : order[l] \in SetToSeqs({e \in inner : LaneOf(e) = l})
  <2> HIDE DEF G, inner
  <2> QED BY <1>1
<1>3. \A e \in Entries : stage'[e] = stageOf(order, e) /\ generationOf'[e] = genOf(order, e)
  <2> HIDE DEF stageOf, genOf
  <2> QED BY <1>1
<1>4. /\ stage' = [e \in Entries |-> stage'[e]]
      /\ generationOf' = [e \in Entries |-> generationOf'[e]]
  <2> HIDE DEF stageOf, genOf
  <2> QED BY <1>1
<1>5. /\ Core(ls1, st1, g1)
      /\ \A l \in Lanes : ls1[l].generation = ls[l].generation
  BY DrainStep DEF First, Drained
<1>6. \A e \in first : e \in Entries /\ st[e] = "queued"
  BY FirstFacts DEF First
<1>7. \A t \in inner : /\ t \in Entries /\ t = Turn(t[1])
                       /\ SessionEntry(t[1]) \in first /\ SessionEntry(t[1]) \in Entries
                       /\ st[t] = "idle" /\ t \notin first
  <2> TAKE t \in inner
  <2>1. PICK e \in first : e[2] = SessionLevel(e[1]) /\ t = Turn(e[1])
    OBVIOUS
  <2>2. e \in Entries /\ st[e] = "queued" /\ e[1] \in Runs
    BY <1>6, <2>1, EntryFacts
  <2>3. e = SessionEntry(e[1])
    BY <2>1, <2>2, EntryFacts DEF SessionEntry
  <2>4. t[1] = e[1] /\ t \in Entries
    BY <2>1, <2>2, RunFacts
  <2>5. st[t] = "idle"
    BY <2>1, <2>2, <2>3 DEF Nested
  <2> QED BY <1>6, <2>1, <2>2, <2>3, <2>4, <2>5
<1>8. G \in SUBSET Lanes
  BY <1>7, EntryFacts
<1> HIDE DEF first, inner, orders
<1>9. \A e \in Entries : st1[e] = IF e \in first THEN "running" ELSE st[e]
  BY DEF Running
<1>10. \A e \in Entries : g1[e] =
        IF e \in first THEN ls[LaneOf(e)].generation ELSE generationOf[e]
  BY DEF Stamped
<1>11. inner \in SUBSET Entries /\ \A t \in inner : st1[t] = "idle"
  BY <1>7, <1>9
<1>12. CASE d
  <2>1. G = {} /\ second(order) = {} /\ ls2(order) = ls1
    BY <1>12
  <2>2. lanes' = ls1
    BY <1>1, <2>1
  <2>3. stage' = Refused(st1, inner)
    <3>1. \A e \in Entries : stage'[e] =
            IF e \in inner THEN "refused" ELSE st1[e]
      BY <1>3, <1>7, <1>9, <1>12, <2>1
    <3> HIDE DEF st1, G, ls1, g1
    <3> QED BY <1>4, <3>1 DEF Refused
  <2>4. generationOf' = g1
    <3>1. \A e \in Entries : generationOf'[e] = g1[e]
      BY <1>10, <1>3, <2>1
    <3>2. g1 = [e \in Entries |-> g1[e]]
      BY DEF Stamped
    <3> HIDE DEF g1
    <3> QED BY <1>4, <3>1, <3>2
  <2>5. Core(lanes', stage', generationOf')
    BY <1>5, <1>11, <2>2, <2>3, <2>4, RefuseStep
  <2>6. \A e \in Entries : stage'[e] = IF e \in inner THEN "refused" ELSE st1[e]
    BY <2>3 DEF Refused
  <2>7. \A e \in Entries : PumpedEntry(d, st, e)
    <3> TAKE e \in Entries
    <3>1. CASE e \in inner
      BY <1>7, <1>9, <1>12, <2>6, <3>1 DEF PumpedEntry
    <3>2. CASE e \in first
      BY <1>6, <1>7, <1>9, <2>6, <3>2 DEF PumpedEntry
    <3>3. CASE e \notin inner /\ e \notin first
      BY <1>9, <1>10, <2>4, <2>6, <3>3 DEF PumpedEntry
    <3> QED BY <3>1, <3>2, <3>3
  <2> QED BY <1>5, <2>2, <2>5, <2>7 DEF Pumped
<1>13. CASE ~ d
  <2> DEFINE l2 == ls2(order)
             sec == second(order)
             st2 == Queued(st1, inner)
  <2>1. G = {LaneOf(e) : e \in inner}
    BY <1>13
  <2>2. l2 = Joined(ls1, G, order)
    BY DEF Joined
  <2>3. /\ Core(l2, st2, g1)
        /\ \A l \in Lanes : l2[l].generation = ls1[l].generation
    <3> HIDE DEF ls1, st1, g1, G, l2
    <3>1. Core(ls1, st1, g1) /\ inner \in SUBSET Entries /\ G \in SUBSET Lanes
      BY <1>5, <1>8, <1>11
    <3>2. /\ Core(Joined(ls1, G, order), Queued(st1, inner), g1)
          /\ \A l \in Lanes : Joined(ls1, G, order)[l].generation = ls1[l].generation
      <4> HIDE DEF st2, ls2, second, sec
      <4> QED BY <1>2, <1>11, <3>1, PushStep
    <3> QED BY <2>2, <3>2
  <2>4. sec = First(l2, G)
    BY DEF First
  <2>5. \A e \in sec : e \in Entries /\ st2[e] = "queued"
    <3> HIDE DEF l2, st2, G, g1, sec
    <3> QED BY <1>8, <2>3, <2>4, FirstFacts
  <2>6. /\ Core(Drained(l2, G), Running(st2, sec), Stamped(l2, g1, sec))
        /\ \A l \in Lanes : Drained(l2, G)[l].generation = l2[l].generation
    <3> HIDE DEF l2, st2, G, g1, sec
    <3> QED BY <1>8, <2>3, <2>4, DrainStep
  <2>7. lanes' = Drained(l2, G)
    BY <1>1 DEF Drained
  <2>8. \A e \in Entries : st2[e] = IF e \in inner THEN "queued" ELSE st1[e]
    BY DEF Queued
  <2>9. \A e \in Entries : stage'[e] =
          CASE e \in first \cup sec -> "running"
            [] e \in inner \ sec -> "queued"
            [] OTHER -> st[e]
    BY <1>3, <1>13
  <2>10. \A e \in Entries : generationOf'[e] =
           IF e \in first \cup sec THEN ls[LaneOf(e)].generation ELSE generationOf[e]
    BY <1>3
  <2> HIDE DEF l2, sec, st2, G, ls1, st1, g1
  <2>12. \A e \in first : e \notin sec
    BY <1>6, <1>7, <1>9, <2>5, <2>8
  <2>13. \A e \in Entries : stage'[e] = IF e \in sec THEN "running" ELSE st2[e]
    BY <1>7, <1>9, <2>8, <2>9
  <2>14. stage' = Running(st2, sec)
    BY <1>4, <2>13 DEF Running
  <2>15. \A e \in Entries : l2[LaneOf(e)].generation = ls[LaneOf(e)].generation
    BY <1>5, <2>3, EntryFacts DEF ls1
  <2>16. \A e \in Entries : generationOf'[e] =
           IF e \in sec THEN l2[LaneOf(e)].generation ELSE g1[e]
    BY <1>10, <2>10, <2>15
  <2>17. generationOf' = Stamped(l2, g1, sec)
    BY <1>4, <2>16 DEF Stamped
  <2>18. Core(lanes', stage', generationOf')
    BY <2>6, <2>7, <2>14, <2>17
  <2>19. \A l \in Lanes : lanes'[l].generation = ls[l].generation
    BY <1>5, <2>3, <2>6, <2>7
  <2>20. \A e \in Entries : PumpedEntry(d, st, e)
    <3> TAKE e \in Entries
    <3>1. CASE e \in inner
      <4>1. st[e] = "idle" /\ e = Turn(e[1]) /\ stage'[e] \in {"queued", "running"}
        BY <1>7, <2>8, <2>13, <3>1
      <4>2. stage'[SessionEntry(e[1])] = "running"
        BY <1>7, <2>9, <3>1
      <4> QED BY <1>13, <4>1, <4>2 DEF PumpedEntry
    <3>2. CASE e \in first
      <4>1. st[e] = "queued"
        BY <1>6, <3>2
      <4>2. stage'[e] = "running"
        BY <1>7, <2>9, <3>2
      <4> QED BY <4>1, <4>2 DEF PumpedEntry
    <3>3. CASE e \notin inner /\ e \notin first
      <4>1. st2[e] = st[e]
        BY <1>9, <2>8, <3>3
      <4>2. CASE e \in sec
        BY <2>5, <2>13, <4>1, <4>2 DEF PumpedEntry
      <4>3. CASE e \notin sec
        BY <2>10, <2>13, <3>3, <4>1, <4>3 DEF PumpedEntry
      <4> QED BY <4>2, <4>3
    <3> QED BY <3>1, <3>2, <3>3
  <2> QED BY <2>18, <2>19, <2>20 DEF Pumped
<1> QED BY <1>12, <1>13
-----------------------------------------------------------------------------
(* Enqueue and End, the two ways into a pump that the actions use. *)

(* What the steps of runs keep: the invariants, the lanes' generations and *)
(* those of the tasks that run; and no turn gets in while the gateway      *)
(* drains.                                                                 *)
Kept ==
  /\ Core(lanes', stage', generationOf') /\ Nested(stage')
  /\ \A l \in Lanes : lanes'[l].generation = lanes[l].generation
  /\ \A f \in Entries : stage[f] = "running" => generationOf'[f] = generationOf[f]
  /\ gatewayDraining => \A r \in Runs :
       stage'[Turn(r)] \in {"queued", "running"} => stage[Turn(r)] \in {"queued", "running"}

LEMMA NestedPumped ==
  ASSUME NEW d, NEW st, Nested(st), \A f \in Entries : PumpedEntry(d, st, f)
  PROVE  Nested(stage')
<1> SUFFICES ASSUME NEW r \in Runs
             PROVE  /\ stage'[Turn(r)] \in {"queued", "running"} => stage'[SessionEntry(r)] = "running"
                    /\ stage'[SessionEntry(r)] \in {"idle", "queued"} => stage'[Turn(r)] = "idle"
  BY DEF Nested
<1>1. /\ Turn(r) \in Entries /\ SessionEntry(r) \in Entries
      /\ Turn(r)[1] = r /\ SessionEntry(r)[1] = r /\ SessionEntry(r) # Turn(r)
  BY RunFacts
<1>2. PumpedEntry(d, st, Turn(r)) /\ PumpedEntry(d, st, SessionEntry(r))
  BY <1>1
<1>3. /\ st[Turn(r)] \in {"queued", "running"} => st[SessionEntry(r)] = "running"
      /\ st[SessionEntry(r)] \in {"idle", "queued"} => st[Turn(r)] = "idle"
  BY DEF Nested
<1> QED BY <1>1, <1>2, <1>3 DEF PumpedEntry

LEMMA PushedIsJoined ==
  ASSUME NEW ls \in [Lanes -> LaneState(Entries)], NEW e \in Entries, NEW l \in Lanes
  PROVE  [ls EXCEPT ![l] = Pushed(@, e)] = Joined(ls, {l}, [k \in {l} |-> <<e>>])
<1> DEFINE a == [ls EXCEPT ![l] = Pushed(@, e)]
           b == Joined(ls, {l}, [k \in {l} |-> <<e>>])
<1>1. Append(ls[l].queue, e) = ls[l].queue \o <<e>>
  BY AppendIsConcat DEF LaneState
<1>2. Pushed(ls[l], e) = [ls[l] EXCEPT !.queue = ls[l].queue \o <<e>>]
  BY <1>1 DEF Pushed
<1>3. a[l] = b[l]
  BY <1>2 DEF Joined
<1>4. \A k \in Lanes : k # l => a[k] = b[k]
  BY DEF Joined
<1>5. a = [k \in Lanes |-> a[k]] /\ b = [k \in Lanes |-> b[k]]
  BY DEF Joined
<1> HIDE DEF a, b
<1>6. a = b
  BY <1>3, <1>4, <1>5
<1> QED BY <1>6 DEF a, b

LEMMA Enqueues ==
  ASSUME NEW e \in Entries, stage[e] = "idle", gatewayDraining \in BOOLEAN,
         \A r \in Runs : e # Turn(r),
         Core(lanes, stage, generationOf), Nested(stage), Enqueue(e)
  PROVE  Kept
<1>1. CASE gatewayDraining
  <2>1. /\ stage' = [stage EXCEPT ![e] = "refused"]
        /\ lanes' = lanes /\ generationOf' = generationOf
    BY <1>1 DEF Enqueue
  <2>2. stage \in [Entries -> Stages]
    BY DEF Core, Shaped
  <2>3. stage' = Refused(stage, {e})
    BY <2>1, <2>2 DEF Refused
  <2>4. Core(lanes', stage', generationOf')
    <3>1. Core(lanes, Refused(stage, {e}), generationOf)
      BY RefuseStep
    <3> QED BY <2>1, <2>3, <3>1
  <2>5. \A f \in Entries : f # e => stage'[f] = stage[f]
    BY <2>1, <2>2
  <2>6. Nested(stage')
    <3> SUFFICES ASSUME NEW r \in Runs
                 PROVE  /\ stage'[Turn(r)] \in {"queued", "running"}
                             => stage'[SessionEntry(r)] = "running"
                        /\ stage'[SessionEntry(r)] \in {"idle", "queued"}
                             => stage'[Turn(r)] = "idle"
      BY DEF Nested
    <3>1. stage'[Turn(r)] = stage[Turn(r)]
      BY <2>5, RunFacts
    <3>2. CASE e = SessionEntry(r)
      <4>1. stage[Turn(r)] = "idle"
        BY <3>2 DEF Nested
      <4> QED BY <3>1, <4>1
    <3>3. CASE e # SessionEntry(r)
      BY <2>5, <3>1, <3>3, RunFacts DEF Nested
    <3> QED BY <3>2, <3>3
  <2>7. \A r \in Runs : stage'[Turn(r)] = stage[Turn(r)]
    BY <2>5, RunFacts
  <2> QED BY <2>1, <2>4, <2>6, <2>7 DEF Kept
<1>2. CASE ~ gatewayDraining
  <2> DEFINE l == LaneOf(e)
             ls == [lanes EXCEPT ![l] = Pushed(@, e)]
             st == [stage EXCEPT ![e] = "queued"]
             G == {l}
             N == {e}
             order == [k \in G |-> <<e>>]
  <2>1. Pump(FALSE, {l}, ls, st)
    BY <1>2 DEF Enqueue
  <2>2. l \in Lanes
    BY EntryFacts
  <2>3. stage \in [Entries -> Stages] /\ lanes \in [Lanes -> LaneState(Entries)]
    BY DEF Core, Shaped
  <2>4. st = Queued(stage, {e})
    BY <2>3 DEF Queued
  <2>5. ls = Joined(lanes, G, order)
    BY <2>2, <2>3, PushedIsJoined
  <2>6. \A k \in G : order[k] \in SetToSeqs({f \in N : LaneOf(f) = k})
    <3>1. {f \in {e} : LaneOf(f) = l} = {e}
      OBVIOUS
    <3>2. Cardinality({e}) = 1
      BY FS_Singleton
    <3>3. <<e>> \in [1 .. 1 -> {e}] /\ \A i, j \in 1 .. 1 : i # j => <<e>>[i] # <<e>>[j]
      OBVIOUS
    <3>4. <<e>> \in SetToSeqs({e})
      BY <3>2, <3>3 DEF SetToSeqs
    <3> QED BY <3>1, <3>4
  <2>7. N \in SUBSET Entries /\ (\A f \in N : stage[f] = "idle") /\ G \in SUBSET Lanes
    BY <2>2
  <2>8. /\ Core(Joined(lanes, G, order), Queued(stage, N), generationOf)
        /\ \A k \in Lanes : Joined(lanes, G, order)[k].generation = lanes[k].generation
    <3> HIDE DEF G, order, N
    <3> QED BY <2>6, <2>7, PushStep
  <2>9. \A f \in Entries : st[f] = IF f = e THEN "queued" ELSE stage[f]
    BY <2>3
  <2> HIDE DEF ls, st, G, order
  <2>10. Core(ls, st, generationOf) /\ \A k \in Lanes : ls[k].generation = lanes[k].generation
    BY <2>4, <2>5, <2>8
  <2>11. Nested(st)
    <3> SUFFICES ASSUME NEW r \in Runs
                 PROVE  /\ st[Turn(r)] \in {"queued", "running"}
                             => st[SessionEntry(r)] = "running"
                        /\ st[SessionEntry(r)] \in {"idle", "queued"}
                             => st[Turn(r)] = "idle"
      BY DEF Nested
    <3>1. st[Turn(r)] = stage[Turn(r)]
      BY <2>9, RunFacts
    <3>2. CASE e = SessionEntry(r)
      <4>1. stage[Turn(r)] = "idle"
        BY <3>2 DEF Nested
      <4> QED BY <3>1, <4>1
    <3>3. CASE e # SessionEntry(r)
      BY <2>9, <3>1, <3>3, RunFacts DEF Nested
    <3> QED BY <3>2, <3>3
  <2>12. Pumped(FALSE, ls, st)
    BY <2>1, <2>2, <2>10, <2>11, Pumps
  <2>13. Nested(stage')
    BY <2>11, <2>12, NestedPumped DEF Pumped
  <2>14. \A f \in Entries : stage[f] = "running" => generationOf'[f] = generationOf[f]
    BY <2>9, <2>12 DEF Pumped, PumpedEntry
  <2> QED BY <1>2, <2>10, <2>12, <2>13, <2>14 DEF Kept, Pumped
<1> QED BY <1>1, <1>2

LEMMA Ends ==
  ASSUME NEW e \in Entries, stage[e] = "running", gatewayDraining \in BOOLEAN,
         Core(lanes, stage, generationOf), Nested([stage EXCEPT ![e] = "ended"]), End(e)
  PROVE  /\ Kept
         /\ \A f \in Entries : f # e => PumpedEntry(gatewayDraining, stage, f)
<1> DEFINE l == LaneOf(e)
           st == [stage EXCEPT ![e] = "ended"]
           ls == [lanes EXCEPT ![l] = Completed(@, e)]
<1>1. l \in Lanes
  BY EntryFacts
<1>2. /\ stage \in [Entries -> Stages] /\ lanes \in [Lanes -> LaneState(Entries)]
      /\ generationOf \in [Entries -> Nat]
  BY DEF Core, Shaped
<1>3. \A f \in Entries : st[f] = IF f = e THEN "ended" ELSE stage[f]
  BY <1>2
<1>4. st \in [Entries -> Stages]
  BY <1>2 DEF Stages, Over
<1>5. \A k \in Lanes : \A i \in DOMAIN lanes[k].queue :
        lanes[k].queue[i] \in Entries /\ lanes[k].queue[i] # e
  BY <1>2 DEF LaneState, Core, Queues
<1>6. Queues(lanes, st)
  BY <1>3, <1>5 DEF Core, Queues
<1> HIDE DEF st
<1>7. CASE ~ IsCurrent(lanes[l], generationOf[e])
  <2>1. stage' = st /\ lanes' = lanes /\ generationOf' = generationOf
    BY <1>7 DEF End, st
  <2>2. Slots(lanes, st, generationOf)
    BY <1>3, <1>7 DEF Core, Slots, IsCurrent
  <2>3. Core(lanes, st, generationOf)
    BY <1>4, <1>6, <2>2 DEF Core, Shaped
  <2>4. \A r \in Runs : st[Turn(r)] \in {"queued", "running"}
          => stage[Turn(r)] \in {"queued", "running"}
    BY <1>3, RunFacts
  <2> QED BY <1>3, <2>1, <2>3, <2>4 DEF Kept, PumpedEntry, st
<1>8. CASE IsCurrent(lanes[l], generationOf[e])
  <2>1. Pump(gatewayDraining, {l}, ls, st)
    BY <1>8 DEF End, st
  <2> DEFINE rec == Completed(lanes[l], e)
  <2>2. /\ rec \in LaneState(Entries)
        /\ rec.queue = lanes[l].queue
        /\ rec.activeTaskIds = lanes[l].activeTaskIds \ {e}
        /\ rec.maxConcurrent = lanes[l].maxConcurrent
        /\ rec.generation = lanes[l].generation
    <3> DEFINE ids == lanes[l].activeTaskIds \ {e}
    <3>1. ids \in SUBSET Entries /\ lanes[l] \in LaneState(Entries)
      BY <1>1, <1>2 DEF LaneState
    <3>2. rec = [lanes[l] EXCEPT !.activeTaskIds = ids]
      BY DEF Completed
    <3> HIDE DEF ids, rec
    <3>3. /\ rec \in LaneState(Entries)
          /\ rec.queue = lanes[l].queue
          /\ rec.activeTaskIds = ids
          /\ rec.maxConcurrent = lanes[l].maxConcurrent
          /\ rec.generation = lanes[l].generation
      BY <3>1, <3>2 DEF LaneState
    <3> QED BY <3>3 DEF ids
  <2>3. \A k \in Lanes : ls[k] = IF k = l THEN rec ELSE lanes[k]
    BY <1>1, <1>2
  <2>4. ls \in [Lanes -> LaneState(Entries)]
    BY <1>2, <2>2
  <2> HIDE DEF rec, ls
  <2>5. \A k \in Lanes : /\ ls[k].queue = lanes[k].queue
                         /\ ls[k].activeTaskIds = IF k = l THEN lanes[k].activeTaskIds \ {e}
                                                  ELSE lanes[k].activeTaskIds
                         /\ ls[k].maxConcurrent = lanes[k].maxConcurrent
                         /\ ls[k].generation = lanes[k].generation
    BY <2>2, <2>3
  <2>6. Core(ls, st, generationOf)
    <3>1. Queues(ls, st)
      <4> SUFFICES ASSUME NEW k \in Lanes
                   PROVE  /\ Distinct(ls[k].queue)
                          /\ \A i \in DOMAIN ls[k].queue :
                               LaneOf(ls[k].queue[i]) = k /\ st[ls[k].queue[i]] = "queued"
        BY DEF Queues
      <4>1. ls[k].queue = lanes[k].queue
        BY <2>5
      <4>2. /\ Distinct(lanes[k].queue)
            /\ \A i \in DOMAIN lanes[k].queue :
                 LaneOf(lanes[k].queue[i]) = k /\ st[lanes[k].queue[i]] = "queued"
        BY <1>6 DEF Queues
      <4> QED BY <4>1, <4>2
    <3>2. Slots(ls, st, generationOf)
      <4> SUFFICES ASSUME NEW k \in Lanes, NEW f \in Entries
                   PROVE  f \in ls[k].activeTaskIds
                            <=> LaneOf(f) = k /\ st[f] = "running"
                                /\ generationOf[f] = ls[k].generation
        BY DEF Slots
      <4>1. f \in lanes[k].activeTaskIds
              <=> LaneOf(f) = k /\ stage[f] = "running"
                  /\ generationOf[f] = lanes[k].generation
        BY DEF Core, Slots
      <4>2. CASE f = e
        BY <1>3, <2>5, <4>1, <4>2
      <4>3. CASE f # e
        BY <1>3, <2>5, <4>1, <4>3
      <4> QED BY <4>2, <4>3
    <3>3. Gens(ls, generationOf)
      BY <2>5, EntryFacts DEF Core, Gens
    <3>4. Caps(ls)
      <4> SUFFICES ASSUME NEW s \in Sessions
                   PROVE  ls[s].maxConcurrent = 1 /\ Cardinality(ls[s].activeTaskIds) <= 1
        BY DEF Caps
      <4>1. s \in Lanes
        BY DEF Lanes
      <4>2. lanes[s].maxConcurrent = 1 /\ Cardinality(lanes[s].activeTaskIds) <= 1
        BY DEF Core, Caps
      <4>3. lanes[s].activeTaskIds \in SUBSET Entries
        BY <1>2, <4>1 DEF LaneState
      <4>4. IsFiniteSet(lanes[s].activeTaskIds)
        BY <4>3, FiniteEntries, FS_Subset
      <4>5. ls[s].activeTaskIds \subseteq lanes[s].activeTaskIds
        BY <2>5, <4>1
      <4>6. /\ Cardinality(ls[s].activeTaskIds) <= Cardinality(lanes[s].activeTaskIds)
            /\ IsFiniteSet(ls[s].activeTaskIds)
        BY <4>4, <4>5, FS_Subset
      <4>7. Cardinality(ls[s].activeTaskIds) \in Nat /\ Cardinality(lanes[s].activeTaskIds) \in Nat
        BY <4>4, <4>6, FS_CardinalityType
      <4>8. Cardinality(ls[s].activeTaskIds) <= 1
        <5> DEFINE m == Cardinality(ls[s].activeTaskIds)
                   n == Cardinality(lanes[s].activeTaskIds)
        <5>1. m \in Nat /\ n \in Nat /\ m <= n /\ n <= 1
          BY <4>2, <4>6, <4>7
        <5> HIDE DEF m, n
        <5>2. m <= 1
          BY <5>1
        <5> QED BY <5>2 DEF m
      <4> QED BY <2>5, <4>1, <4>2, <4>8
    <3> QED BY <1>2, <1>4, <2>4, <3>1, <3>2, <3>3, <3>4 DEF Core, Shaped
  <2>7. Nested(st)
    BY DEF st
  <2>8. Pumped(gatewayDraining, ls, st)
    BY <1>1, <2>1, <2>6, <2>7, Pumps
  <2>9. Nested(stage')
    BY <2>7, <2>8, NestedPumped DEF Pumped
  <2>10. \A f \in Entries : f # e => PumpedEntry(gatewayDraining, stage, f)
    BY <1>3, <2>8 DEF Pumped, PumpedEntry
  <2>11. stage'[e] = "ended" /\ generationOf'[e] = generationOf[e]
    BY <1>3, <2>8 DEF Pumped, PumpedEntry
  <2>12. \A f \in Entries : stage[f] = "running" => generationOf'[f] = generationOf[f]
    BY <2>10, <2>11 DEF PumpedEntry
  <2>13. gatewayDraining => \A r \in Runs :
       stage'[Turn(r)] \in {"queued", "running"} => stage[Turn(r)] \in {"queued", "running"}
    BY <2>10, <2>11, RunFacts DEF PumpedEntry
  <2> QED BY <2>5, <2>8, <2>9, <2>10, <2>12, <2>13 DEF Kept, Pumped
<1> QED BY <1>7, <1>8
-----------------------------------------------------------------------------
(* The actions. *)

LEMMA InitInv == Init => Inv
<1> SUFFICES ASSUME Init PROVE Inv
  OBVIOUS
<1>1. /\ NewLane \in LaneState(Entries) /\ Resized(NewLane, MainCap) \in LaneState(Entries)
      /\ NewLane.queue = <<>> /\ NewLane.activeTaskIds = {} /\ NewLane.generation = 0
      /\ Resized(NewLane, MainCap).queue = <<>>
      /\ Resized(NewLane, MainCap).activeTaskIds = {}
      /\ Resized(NewLane, MainCap).generation = 0
      /\ NewLane.maxConcurrent = 1
  <2> DEFINE q == <<>>
             cap == IF MainCap < 1 THEN 1 ELSE MainCap
  <2>1. q \in Seq(Entries) /\ {} \in SUBSET Entries /\ cap \in Nat \ {0}
    BY RunsAssumption
  <2>2. NewLane = [queue |-> q, activeTaskIds |-> {}, maxConcurrent |-> 1, generation |-> 0]
    BY DEF NewLane
  <2>3. Resized(NewLane, MainCap) = [NewLane EXCEPT !.maxConcurrent = cap]
    BY DEF Resized
  <2> HIDE DEF q, cap
  <2>4. NewLane \in LaneState(Entries)
    BY <2>1, <2>2 DEF LaneState
  <2>5. Resized(NewLane, MainCap) \in LaneState(Entries)
    BY <2>1, <2>3, <2>4 DEF LaneState
  <2>6. q = <<>>
    BY DEF q
  <2> QED BY <2>2, <2>3, <2>4, <2>5, <2>6
<1>2. \A l \in Lanes :
        /\ lanes[l] \in LaneState(Entries) /\ lanes[l].queue = <<>>
        /\ lanes[l].activeTaskIds = {} /\ lanes[l].generation = 0
        /\ l # "main" => lanes[l].maxConcurrent = 1
  BY <1>1 DEF Init
<1>3. /\ \A e \in Entries : stage[e] = "idle" /\ generationOf[e] = 0
      /\ stage \in [Entries -> Stages] /\ generationOf \in [Entries -> Nat]
  BY DEF Init, Stages
<1>4. lanes \in [Lanes -> LaneState(Entries)]
  BY <1>2 DEF Init
<1>5. Queues(lanes, stage)
  BY <1>2 DEF Queues, Distinct
<1>6. Slots(lanes, stage, generationOf)
  BY <1>2, <1>3 DEF Slots
<1>7. Gens(lanes, generationOf)
  BY <1>2, <1>3, EntryFacts DEF Gens
<1>8. Caps(lanes)
  <2>1. \A s \in Sessions : s \in Lanes /\ s # "main"
    BY RunsAssumption DEF Lanes
  <2>2. Cardinality({}) = 0
    BY FS_EmptySet
  <2>3. ASSUME NEW s \in Sessions PROVE lanes[s].maxConcurrent = 1
                                        /\ Cardinality(lanes[s].activeTaskIds) = 0
    <3>1. lanes[s].maxConcurrent = 1 /\ lanes[s].activeTaskIds = {}
      BY <1>2, <2>1
    <3> QED BY <2>2, <3>1
  <2> QED BY <2>3 DEF Caps
<1>9. Nested(stage)
  BY <1>3, RunFacts DEF Nested
<1>10. TypeOK
  BY <1>3, <1>4 DEF TypeOK, Init, Stages, NoDrain
<1>11. Draining
  BY DEF Init, Draining
<1> QED BY <1>3, <1>4, <1>5, <1>6, <1>7, <1>8, <1>9, <1>10, <1>11 DEF Inv, Core, Shaped

(* A step of a run leaves the restart loop where it is. *)
LEMMA KeptInv ==
  ASSUME Inv, Kept, UNCHANGED loopVars,
         registered' \subseteq Runs, embedded' \in [Sessions -> Runs \cup {NoRun}]
  PROVE  Inv'
<1>1. /\ gatewayDraining' = gatewayDraining /\ phase' = phase
      /\ drain' = drain /\ verdict' = verdict
  BY DEF loopVars
<1>2. Core(lanes, stage, generationOf)' /\ Nested(stage)'
  BY DEF Kept, Core, Shaped, Queues, Slots, Gens, Caps, Nested
<1>3. TypeOK'
  BY <1>1 DEF Inv, TypeOK, Kept, Core, Shaped, Stages
<1>4. Draining'
  <2>1. (gatewayDraining <=> phase # "serving")'
    BY <1>1 DEF Inv, Draining
  <2>2. ASSUME phase' = "draining", NEW r \in Runs,
               stage'[Turn(r)] \in {"queued", "running"}, AdmittedInThisLife(r)'
        PROVE  SessionEntry(r) \in drain'.tasks /\ ~ drain'.tasksDrained
    <3>1. phase = "draining" /\ gatewayDraining
      BY <1>1, <2>2 DEF Inv, Draining
    <3>2. stage[Turn(r)] \in {"queued", "running"}
      BY <2>2, <3>1 DEF Kept
    <3>3. stage[SessionEntry(r)] = "running"
      BY <3>2 DEF Inv, Nested
    <3>4. generationOf'[SessionEntry(r)] = generationOf[SessionEntry(r)]
      BY <3>3, RunFacts DEF Kept
    <3>5. lanes'[LaneOf(SessionEntry(r))].generation = lanes[LaneOf(SessionEntry(r))].generation
      BY RunFacts, EntryFacts DEF Kept
    <3>6. generationOf'[SessionEntry(r)] = lanes'[LaneOf(SessionEntry(r))].generation
      BY <2>2 DEF AdmittedInThisLife, Current
    <3>7. AdmittedInThisLife(r)
      BY <3>3, <3>4, <3>5, <3>6 DEF AdmittedInThisLife, Current
    <3> QED BY <1>1, <3>1, <3>2, <3>7 DEF Inv, Draining
  <2> QED BY <2>1, <2>2 DEF Draining
<1> QED BY <1>2, <1>3, <1>4 DEF Inv

LEMMA SubmitInv == ASSUME Inv, NEW r \in Runs, Submit(r) PROVE Inv'
<1>1. /\ <<r, 1>> \in Entries /\ \A q \in Runs : <<r, 1>> # Turn(q)
  <2>1. ASSUME NEW q \in Runs, <<r, 1>> = Turn(q) PROVE FALSE
    <3>1. q = r
      BY <2>1 DEF Turn
    <3> QED BY <2>1, <3>1, RunFacts
  <2> QED BY <2>1, RunFacts
<1>2. Kept
  BY <1>1, Enqueues DEF Submit, Inv, TypeOK
<1>3. UNCHANGED loopVars /\ UNCHANGED runVars
  BY DEF Submit
<1> QED BY <1>2, <1>3, KeptInv DEF Inv, TypeOK, runVars

LEMMA CronDispatchInv == ASSUME Inv, NEW r \in Runs, CronDispatch(r) PROVE Inv'
<1>1. SessionEntry(r) \in Entries /\ \A q \in Runs : SessionEntry(r) # Turn(q)
  BY RunFacts
<1>2. Kept
  BY <1>1, Enqueues DEF CronDispatch, Inv, TypeOK
<1>3. UNCHANGED loopVars /\ UNCHANGED runVars
  BY DEF CronDispatch
<1> QED BY <1>2, <1>3, KeptInv DEF Inv, TypeOK, runVars

LEMMA RegisterInv == ASSUME Inv, NEW r \in Runs, Register(r) PROVE Inv'
<1>1. lanes' = lanes /\ stage' = stage /\ generationOf' = generationOf /\ UNCHANGED loopVars
  BY DEF Register, laneVars
<1>2. Kept
  BY <1>1 DEF Kept, Inv
<1>3. registered' \subseteq Runs /\ embedded' \in [Sessions -> Runs \cup {NoRun}]
  BY DEF Register, Inv, TypeOK
<1> QED BY <1>1, <1>2, <1>3, KeptInv

LEMMA FinishTurnInv == ASSUME Inv, NEW r \in Runs, FinishTurn(r) PROVE Inv'
<1>1. Turn(r) \in Entries /\ stage[Turn(r)] = "running" /\ End(Turn(r))
  BY RunFacts DEF FinishTurn, Executing
<1> DEFINE st == [stage EXCEPT ![Turn(r)] = "ended"]
<1>2. Nested(st)
  <2> SUFFICES ASSUME NEW q \in Runs
               PROVE  /\ st[Turn(q)] \in {"queued", "running"} => st[SessionEntry(q)] = "running"
                      /\ st[SessionEntry(q)] \in {"idle", "queued"} => st[Turn(q)] = "idle"
    BY DEF Nested
  <2>1. \A f \in Entries : st[f] = IF f = Turn(r) THEN "ended" ELSE stage[f]
    BY DEF Inv, TypeOK
  <2>2. st[SessionEntry(q)] = stage[SessionEntry(q)]
    BY <2>1, RunFacts
  <2>3. /\ stage[Turn(q)] \in {"queued", "running"} => stage[SessionEntry(q)] = "running"
        /\ stage[SessionEntry(q)] \in {"idle", "queued"} => stage[Turn(q)] = "idle"
    BY DEF Inv, Nested
  <2>4. Turn(q) \in Entries
    BY RunFacts
  <2> HIDE DEF st
  <2> QED BY <1>1, <2>1, <2>2, <2>3, <2>4
<1>3. Kept
  BY <1>1, <1>2, Ends DEF Inv, TypeOK
<1>4. UNCHANGED loopVars /\ registered' = registered
      /\ embedded' \in [Sessions -> Runs \cup {NoRun}]
  BY DEF FinishTurn, Inv, TypeOK
<1> QED BY <1>3, <1>4, KeptInv DEF Inv, TypeOK

(* The slot of a cron job is neither a session's slot nor a turn.          *)
LEMMA CronEndsInv == ASSUME Inv, NEW r \in Runs, CronEnds(r) PROVE Inv'
<1> DEFINE e == <<r, 1>>
           st == [stage EXCEPT ![e] = "ended"]
<1>1. r \in CronRuns /\ stage[e] = "running" /\ End(e)
  BY DEF CronEnds
<1>2. TurnLevel(r) = 3 /\ SessionLevel(r) = 2
  BY <1>1 DEF Path, TurnLevel, SessionLevel
<1>3. e \in Entries /\ \A q \in Runs : e # Turn(q) /\ e # SessionEntry(q)
  BY <1>2, RunFacts DEF Turn, SessionEntry
<1>4. \A f \in Entries : f # e => st[f] = stage[f]
  BY DEF Inv, TypeOK
<1>5. Nested(st)
  BY <1>3, <1>4, RunFacts DEF Inv, Nested
<1>6. UNCHANGED loopVars /\ UNCHANGED runVars
  BY DEF CronEnds
<1> HIDE DEF e
<1>7. Kept
  BY <1>1, <1>3, <1>5, Ends DEF Inv, TypeOK
<1> QED BY <1>6, <1>7, KeptInv DEF Inv, TypeOK, runVars

LEMMA FinishOuterInv == ASSUME Inv, NEW r \in Runs, FinishOuter(r) PROVE Inv'
<1>1. PICK i \in 1 .. SessionLevel(r) :
        stage[<<r, i>>] = "running" /\ stage[<<r, i + 1>>] \in Over /\ End(<<r, i>>)
  BY DEF FinishOuter
<1> DEFINE e == <<r, i>>
           st == [stage EXCEPT ![e] = "ended"]
<1>2. e \in Entries /\ e # Turn(r)
  BY RunFacts
<1>3. Nested(st)
  <2> SUFFICES ASSUME NEW q \in Runs
               PROVE  /\ st[Turn(q)] \in {"queued", "running"} => st[SessionEntry(q)] = "running"
                      /\ st[SessionEntry(q)] \in {"idle", "queued"} => st[Turn(q)] = "idle"
    BY DEF Nested
  <2>1. \A f \in Entries : st[f] = IF f = e THEN "ended" ELSE stage[f]
    BY DEF Inv, TypeOK
  <2>2. e # Turn(q)
    <3>1. CASE q = r
      BY <1>2, <3>1
    <3>2. CASE q # r
      BY <3>2 DEF Turn
    <3> QED BY <3>1, <3>2
  <2>3. st[Turn(q)] = stage[Turn(q)]
    BY <2>1, <2>2, RunFacts
  <2>4. /\ stage[Turn(q)] \in {"queued", "running"} => stage[SessionEntry(q)] = "running"
        /\ stage[SessionEntry(q)] \in {"idle", "queued"} => stage[Turn(q)] = "idle"
    BY DEF Inv, Nested
  <2>5. CASE e = SessionEntry(q)
    <3>1. q = r /\ i = SessionLevel(r)
      BY <2>5 DEF SessionEntry
    <3>2. i + 1 = TurnLevel(r)
      BY <3>1, Paths
    <3>3. stage[Turn(q)] \in Over
      BY <1>1, <3>1, <3>2 DEF Turn
    <3>4. st[SessionEntry(q)] = "ended"
      BY <1>2, <2>1, <2>5
    <3> QED BY <2>3, <3>3, <3>4 DEF Over
  <2>6. CASE e # SessionEntry(q)
    <3>1. st[SessionEntry(q)] = stage[SessionEntry(q)]
      BY <2>1, <2>6, RunFacts
    <3> QED BY <2>3, <2>4, <3>1
  <2> QED BY <2>5, <2>6
<1>4. Kept
  <2>1. stage[e] = "running" /\ End(e)
    BY <1>1
  <2> HIDE DEF e
  <2> QED BY <1>2, <1>3, <2>1, Ends DEF Inv, TypeOK
<1>5. UNCHANGED loopVars /\ UNCHANGED runVars
  BY DEF FinishOuter
<1> QED BY <1>4, <1>5, KeptInv DEF Inv, TypeOK, runVars

LEMMA InterruptInv == ASSUME Inv, NEW s \in Sessions, Interrupt(s) PROVE Inv'
<1> DEFINE removed == {lanes[s].queue[i] : i \in DOMAIN lanes[s].queue}
<1>1. /\ lanes' = [lanes EXCEPT ![s] = Cleared(@)]
      /\ stage' = [e \in Entries |-> IF e \in removed THEN "cleared" ELSE stage[e]]
      /\ generationOf' = generationOf /\ UNCHANGED loopVars /\ UNCHANGED runVars
  BY DEF Interrupt
<1>2. /\ s \in Lanes /\ lanes \in [Lanes -> LaneState(Entries)]
      /\ stage \in [Entries -> Stages] /\ generationOf \in [Entries -> Nat]
  BY DEF Lanes, Inv, Core, Shaped
<1>3. \A e \in removed : e \in Entries /\ LaneOf(e) = s /\ stage[e] = "queued"
  BY <1>2 DEF LaneState, Inv, Core, Queues
<1> HIDE DEF removed
<1>4. \A l \in Lanes :
        /\ lanes'[l] \in LaneState(Entries)
        /\ lanes'[l].queue = IF l = s THEN <<>> ELSE lanes[l].queue
        /\ lanes'[l].activeTaskIds = lanes[l].activeTaskIds
        /\ lanes'[l].maxConcurrent = lanes[l].maxConcurrent
        /\ lanes'[l].generation = lanes[l].generation
  <2> TAKE l \in Lanes
  <2>1. lanes[l] \in LaneState(Entries)
    BY <1>2
  <2>2. CASE l = s
    <3>1. lanes'[l] = Cleared(lanes[l])
      BY <1>1, <1>2, <2>2
    <3> QED BY <2>1, <2>2, <3>1, ClearedShape
  <2>3. CASE l # s
    BY <1>1, <1>2, <2>1, <2>3
  <2> QED BY <2>2, <2>3
<1>5. \A e \in Entries : stage'[e] = IF e \in removed THEN "cleared" ELSE stage[e]
  BY <1>1
<1>6. Shaped(lanes', stage', generationOf')
  <2>1. lanes' \in [Lanes -> LaneState(Entries)]
    BY <1>1, <1>2, <1>4
  <2>2. stage' \in [Entries -> Stages]
    BY <1>1, <1>2 DEF Stages, Over
  <2> QED BY <1>1, <1>2, <2>1, <2>2 DEF Shaped
<1>7. Queues(lanes', stage')
  <2> SUFFICES ASSUME NEW l \in Lanes
               PROVE  /\ Distinct(lanes'[l].queue)
                      /\ \A i \in DOMAIN lanes'[l].queue :
                           LaneOf(lanes'[l].queue[i]) = l /\ stage'[lanes'[l].queue[i]] = "queued"
    BY DEF Queues
  <2>1. CASE l = s
    <3>1. lanes'[l].queue = <<>>
      BY <1>4, <2>1
    <3> QED BY <3>1 DEF Distinct
  <2>2. CASE l # s
    <3>1. lanes'[l].queue = lanes[l].queue
      BY <1>4, <2>2
    <3>2. /\ Distinct(lanes[l].queue)
          /\ \A i \in DOMAIN lanes[l].queue :
               /\ lanes[l].queue[i] \in Entries
               /\ LaneOf(lanes[l].queue[i]) = l /\ stage[lanes[l].queue[i]] = "queued"
      BY <1>2 DEF Inv, Core, Queues, LaneState
    <3>3. \A i \in DOMAIN lanes[l].queue : stage'[lanes[l].queue[i]] = "queued"
      BY <1>3, <1>5, <2>2, <3>2
    <3> QED BY <3>1, <3>2, <3>3
  <2> QED BY <2>1, <2>2
<1>8. Slots(lanes', stage', generationOf')
  <2> SUFFICES ASSUME NEW l \in Lanes, NEW e \in Entries
               PROVE  e \in lanes'[l].activeTaskIds
                        <=> LaneOf(e) = l /\ stage'[e] = "running"
                            /\ generationOf'[e] = lanes'[l].generation
    BY DEF Slots
  <2>1. e \in lanes[l].activeTaskIds
          <=> LaneOf(e) = l /\ stage[e] = "running" /\ generationOf[e] = lanes[l].generation
    BY DEF Inv, Core, Slots
  <2>2. stage'[e] = "running" <=> stage[e] = "running"
    BY <1>3, <1>5
  <2> QED BY <1>1, <1>4, <2>1, <2>2
<1>9. Gens(lanes', generationOf')
  BY <1>1, <1>4, EntryFacts DEF Inv, Core, Gens
<1>10. Caps(lanes')
  BY <1>4 DEF Inv, Core, Caps, Lanes
<1>11. Nested(stage')
  <2> SUFFICES ASSUME NEW r \in Runs
               PROVE  /\ stage'[Turn(r)] \in {"queued", "running"} => stage'[SessionEntry(r)] = "running"
                      /\ stage'[SessionEntry(r)] \in {"idle", "queued"} => stage'[Turn(r)] = "idle"
    BY DEF Nested
  <2>1. Turn(r) \in Entries /\ SessionEntry(r) \in Entries
    BY RunFacts
  <2>2. Turn(r) \notin removed
    <3> SUFFICES ASSUME Turn(r) \in removed PROVE FALSE
      OBVIOUS
    <3>1. Turn(r) = SessionEntry(Turn(r)[1])
      BY <1>3, EntryFacts
    <3> QED BY <3>1, RunFacts
  <2>3. stage'[Turn(r)] = stage[Turn(r)]
    BY <1>5, <2>1, <2>2
  <2>4. /\ stage[Turn(r)] \in {"queued", "running"} => stage[SessionEntry(r)] = "running"
        /\ stage[SessionEntry(r)] \in {"idle", "queued"} => stage[Turn(r)] = "idle"
    BY DEF Inv, Nested
  <2> QED BY <1>3, <1>5, <2>1, <2>3, <2>4
<1>12. gatewayDraining => \A r \in Runs :
         stage'[Turn(r)] \in {"queued", "running"} => stage[Turn(r)] \in {"queued", "running"}
  BY <1>3, <1>5, RunFacts
<1>13. Kept
  BY <1>1, <1>4, <1>6, <1>7, <1>8, <1>9, <1>10, <1>11, <1>12 DEF Kept, Core
<1> QED BY <1>1, <1>13, KeptInv DEF Inv, TypeOK, runVars

LEMMA RequestRestartInv == ASSUME Inv, RequestRestart PROVE Inv'
<1>1. /\ lanes' = lanes /\ stage' = stage /\ generationOf' = generationOf
      /\ registered' = registered /\ embedded' = embedded
      /\ gatewayDraining' = TRUE /\ verdict' = "none" /\ phase' \in {"draining", "closing"}
  BY DEF RequestRestart, laneVars, runVars
<1>2. Core(lanes, stage, generationOf)' /\ Nested(stage)'
  BY <1>1 DEF Inv, Core, Shaped, Queues, Slots, Gens, Caps, Nested
<1>3. lanes \in [Lanes -> LaneState(Entries)]
  BY DEF Inv, TypeOK
<1>4. AllActive(lanes) \subseteq Entries
  BY <1>3 DEF AllActive, LaneState
<1>5. \/ drain' = [tasks |-> AllActive(lanes), tasksDrained |-> AllActive(lanes) = {},
                  runsDrained |-> ActiveRuns = {}]
      \/ drain' = drain /\ phase' = "closing"
  BY DEF RequestRestart
<1>6. drain' \in [tasks : SUBSET Entries, tasksDrained : BOOLEAN, runsDrained : BOOLEAN]
  <2> DEFINE none == AllActive(lanes) = {}
             quiet == ActiveRuns = {}
             T == AllActive(lanes)
  <2>1. none \in BOOLEAN /\ quiet \in BOOLEAN /\ T \in SUBSET Entries
    BY <1>4
  <2>2. CASE drain' = [tasks |-> T, tasksDrained |-> none, runsDrained |-> quiet]
    <3> HIDE DEF none, quiet, T
    <3> QED BY <2>1, <2>2
  <2>3. CASE drain' = drain
    BY <2>3 DEF Inv, TypeOK
  <2> QED BY <1>5, <2>2, <2>3
<1>7. TypeOK'
  BY <1>1, <1>6 DEF Inv, TypeOK
<1>8. Draining'
  <2>1. ASSUME phase' = "draining", NEW r \in Runs,
               stage'[Turn(r)] \in {"queued", "running"}, AdmittedInThisLife(r)'
        PROVE  SessionEntry(r) \in drain'.tasks /\ ~ drain'.tasksDrained
    <3>1. stage[SessionEntry(r)] = "running"
      BY <1>1, <2>1 DEF Inv, Nested
    <3>2. generationOf[SessionEntry(r)] = lanes[LaneOf(SessionEntry(r))].generation
      BY <1>1, <2>1 DEF AdmittedInThisLife, Current
    <3>3. SessionEntry(r) \in lanes[SessionOf[r]].activeTaskIds /\ SessionOf[r] \in Lanes
      BY <3>1, <3>2, RunFacts DEF Inv, Core, Slots, Lanes
    <3>4. SessionEntry(r) \in AllActive(lanes)
      BY <1>3, <3>3 DEF AllActive
    <3>5. drain'.tasks = AllActive(lanes) /\ drain'.tasksDrained = (AllActive(lanes) = {})
      BY <1>5, <2>1
    <3> QED BY <3>4, <3>5
  <2> QED BY <1>1, <2>1 DEF Draining
<1> QED BY <1>2, <1>7, <1>8 DEF Inv

(* The other steps of the loop, but for the restart, are about drain.      *)
LEMMA WaitingInv ==
  ASSUME Inv, UNCHANGED laneVars, UNCHANGED runVars, UNCHANGED gatewayDraining,
         phase = "draining", phase' \in {"draining", "closing"},
         verdict' \in {"none", "drained", "timedOut"},
         drain' \in [tasks : SUBSET Entries, tasksDrained : BOOLEAN, runsDrained : BOOLEAN],
         drain'.tasks = drain.tasks,
         drain'.tasksDrained =>
           drain.tasksDrained \/ ~ HasPendingActiveTasks(drain.tasks, lanes)
  PROVE  Inv'
<1>1. /\ lanes' = lanes /\ stage' = stage /\ generationOf' = generationOf
      /\ registered' = registered /\ embedded' = embedded
      /\ gatewayDraining' = gatewayDraining
  BY DEF laneVars, runVars
<1>2. Core(lanes, stage, generationOf)' /\ Nested(stage)'
  BY <1>1 DEF Inv, Core, Shaped, Queues, Slots, Gens, Caps, Nested
<1>3. TypeOK'
  BY <1>1 DEF Inv, TypeOK
<1>4. Draining'
  <2>1. ASSUME NEW r \in Runs,
               stage'[Turn(r)] \in {"queued", "running"}, AdmittedInThisLife(r)'
        PROVE  SessionEntry(r) \in drain'.tasks /\ ~ drain'.tasksDrained
    <3>1. stage[Turn(r)] \in {"queued", "running"} /\ AdmittedInThisLife(r)
      BY <1>1, <2>1 DEF AdmittedInThisLife, Current
    <3>2. SessionEntry(r) \in drain.tasks /\ ~ drain.tasksDrained
      BY <3>1 DEF Inv, Draining
    <3>3. stage[SessionEntry(r)] = "running"
      BY <3>1 DEF Inv, Nested
    <3>4. SessionEntry(r) \in lanes[SessionOf[r]].activeTaskIds /\ SessionOf[r] \in Lanes
      BY <3>1, <3>3, RunFacts DEF AdmittedInThisLife, Current, Inv, Core, Slots, Lanes
    <3>5. DOMAIN lanes = Lanes
      BY DEF Inv, TypeOK
    <3>6. HasPendingActiveTasks(drain.tasks, lanes)
      BY <3>2, <3>4, <3>5 DEF HasPendingActiveTasks
    <3> QED BY <3>2, <3>6
  <2>2. gatewayDraining' <=> phase' # "serving"
    BY <1>1 DEF Inv, Draining
  <2> QED BY <2>1, <2>2 DEF Draining
<1> QED BY <1>2, <1>3, <1>4 DEF Inv

LEMMA LoopInv == ASSUME Inv, TasksDrained \/ RunsDrained \/ DrainOver PROVE Inv'
<1>1. drain \in [tasks : SUBSET Entries, tasksDrained : BOOLEAN, runsDrained : BOOLEAN]
      /\ verdict \in {"none", "drained", "timedOut"}
  BY DEF Inv, TypeOK
<1>2. CASE TasksDrained
  <2>1. drain' = [drain EXCEPT !.tasksDrained = TRUE]
        /\ ~ HasPendingActiveTasks(drain.tasks, lanes)
        /\ phase = "draining" /\ phase' = phase /\ verdict' = verdict
        /\ UNCHANGED laneVars /\ UNCHANGED runVars /\ UNCHANGED gatewayDraining
    BY <1>2 DEF TasksDrained
  <2>2. drain' \in [tasks : SUBSET Entries, tasksDrained : BOOLEAN, runsDrained : BOOLEAN]
        /\ drain'.tasks = drain.tasks
    BY <1>1, <2>1
  <2> QED BY <1>1, <2>1, <2>2, WaitingInv
<1>3. CASE RunsDrained
  <2>1. drain' = [drain EXCEPT !.runsDrained = TRUE]
        /\ phase = "draining" /\ phase' = phase /\ verdict' = verdict
        /\ UNCHANGED laneVars /\ UNCHANGED runVars /\ UNCHANGED gatewayDraining
    BY <1>3 DEF RunsDrained
  <2>2. drain' \in [tasks : SUBSET Entries, tasksDrained : BOOLEAN, runsDrained : BOOLEAN]
        /\ drain'.tasks = drain.tasks /\ drain'.tasksDrained = drain.tasksDrained
    BY <1>1, <2>1
  <2> QED BY <1>1, <2>1, <2>2, WaitingInv
<1>4. CASE DrainOver
  <2>1. drain' = drain /\ phase = "draining" /\ phase' = "closing"
        /\ verdict' \in {"drained", "timedOut"}
        /\ UNCHANGED laneVars /\ UNCHANGED runVars /\ UNCHANGED gatewayDraining
    BY <1>4 DEF DrainOver
  <2> QED BY <1>1, <2>1, WaitingInv
<1> QED BY <1>2, <1>3, <1>4

LEMMA RestartIterationInv == ASSUME Inv, RestartIteration PROVE Inv'
<1> DEFINE ls == [l \in Lanes |-> Reset(lanes[l])]
           S == {l \in Lanes : lanes[l].queue # <<>>}
<1>1. /\ Pump(FALSE, S, ls, stage)
      /\ phase' = "serving" /\ gatewayDraining' = FALSE /\ drain' = NoDrain
      /\ verdict' = verdict /\ registered' = registered /\ embedded' = embedded
  BY DEF RestartIteration, runVars
<1>2. \A l \in Lanes :
        /\ ls[l] \in LaneState(Entries)
        /\ ls[l].queue = lanes[l].queue /\ ls[l].activeTaskIds = {}
        /\ ls[l].maxConcurrent = lanes[l].maxConcurrent
        /\ ls[l].generation = lanes[l].generation + 1
        /\ lanes[l].generation \in Nat
  <2> TAKE l \in Lanes
  <2>1. lanes[l] \in LaneState(Entries)
    BY DEF Inv, TypeOK
  <2>2. ls[l] = Reset(lanes[l])
    OBVIOUS
  <2>3. lanes[l].generation \in Nat
    BY <2>1 DEF LaneState
  <2> HIDE DEF ls
  <2> QED BY <2>1, <2>2, <2>3, ResetShape
<1>3. ls \in [Lanes -> LaneState(Entries)]
  BY <1>2
<1> HIDE DEF ls
<1>4. Queues(ls, stage)
  <2> SUFFICES ASSUME NEW l \in Lanes
               PROVE  /\ Distinct(ls[l].queue)
                      /\ \A i \in DOMAIN ls[l].queue :
                           LaneOf(ls[l].queue[i]) = l /\ stage[ls[l].queue[i]] = "queued"
    BY DEF Queues
  <2>1. ls[l].queue = lanes[l].queue
    BY <1>2
  <2>2. /\ Distinct(lanes[l].queue)
        /\ \A i \in DOMAIN lanes[l].queue :
             LaneOf(lanes[l].queue[i]) = l /\ stage[lanes[l].queue[i]] = "queued"
    BY DEF Inv, Core, Queues
  <2> QED BY <2>1, <2>2
<1>5. \A e \in Entries : generationOf[e] < ls[LaneOf(e)].generation /\ generationOf[e] \in Nat
  <2> TAKE e \in Entries
  <2>1. /\ generationOf[e] <= lanes[LaneOf(e)].generation
        /\ lanes[LaneOf(e)].generation \in Nat
        /\ ls[LaneOf(e)].generation = lanes[LaneOf(e)].generation + 1
    BY <1>2, EntryFacts DEF Inv, Core, Gens
  <2>2. generationOf[e] \in Nat
    BY DEF Inv, TypeOK
  <2> QED BY <2>1, <2>2
<1>6. Slots(ls, stage, generationOf)
  <2> SUFFICES ASSUME NEW l \in Lanes, NEW e \in Entries
               PROVE  e \in ls[l].activeTaskIds
                        <=> LaneOf(e) = l /\ stage[e] = "running" /\ generationOf[e] = ls[l].generation
    BY DEF Slots
  <2>1. e \notin ls[l].activeTaskIds
    BY <1>2
  <2>2. LaneOf(e) = l => generationOf[e] # ls[l].generation
    <3>1. ls[LaneOf(e)].generation \in Nat
      BY <1>2, EntryFacts
    <3> QED BY <1>5, <3>1
  <2> QED BY <2>1, <2>2
<1>7. Gens(ls, generationOf)
  <2> SUFFICES ASSUME NEW e \in Entries PROVE generationOf[e] <= ls[LaneOf(e)].generation
    BY DEF Gens
  <2>1. ls[LaneOf(e)].generation \in Nat
    BY <1>2, EntryFacts
  <2> QED BY <1>5, <2>1
<1>8. Caps(ls)
  <2> SUFFICES ASSUME NEW s \in Sessions
               PROVE  ls[s].maxConcurrent = 1 /\ Cardinality(ls[s].activeTaskIds) <= 1
    BY DEF Caps
  <2>1. Cardinality({}) = 0
    BY FS_EmptySet
  <2>2. s \in Lanes /\ lanes[s].maxConcurrent = 1
    BY DEF Lanes, Inv, Core, Caps
  <2>3. ls[s].maxConcurrent = 1 /\ ls[s].activeTaskIds = {}
    BY <1>2, <2>2
  <2>4. Cardinality(ls[s].activeTaskIds) = 0
    BY <2>1, <2>3
  <2> QED BY <2>3, <2>4
<1>9. Core(ls, stage, generationOf)
  BY <1>3, <1>4, <1>6, <1>7, <1>8 DEF Core, Shaped, Inv
<1>10. Pumped(FALSE, ls, stage)
  <2>1. S \in SUBSET Lanes /\ FALSE \in BOOLEAN /\ Nested(stage)
    BY DEF Inv
  <2> HIDE DEF S
  <2> QED BY <1>1, <1>9, <2>1, Pumps
<1>11. Core(lanes, stage, generationOf)' /\ Nested(stage)'
  <2>1. Core(lanes', stage', generationOf') /\ Nested(stage')
    BY <1>10, NestedPumped DEF Pumped, Inv
  <2> QED BY <2>1 DEF Core, Shaped, Queues, Slots, Gens, Caps, Nested
<1>12. TypeOK'
  <2>1. drain' \in [tasks : SUBSET Entries, tasksDrained : BOOLEAN, runsDrained : BOOLEAN]
    BY <1>1 DEF NoDrain
  <2> QED BY <1>1, <1>11, <2>1 DEF TypeOK, Inv, Core, Shaped, Stages
<1>13. Draining'
  BY <1>1 DEF Draining
<1> QED BY <1>11, <1>12, <1>13 DEF Inv
-----------------------------------------------------------------------------
(* The theorems. *)

LEMMA StepInv == ASSUME Inv, [Next]_vars PROVE Inv'
<1>1. CASE Next
  BY <1>1, SubmitInv, CronDispatchInv, CronEndsInv, RegisterInv, FinishTurnInv, FinishOuterInv,
     InterruptInv, RequestRestartInv, LoopInv, RestartIterationInv DEF Next
<1>2. CASE UNCHANGED vars
  <2>1. /\ lanes' = lanes /\ stage' = stage /\ generationOf' = generationOf
        /\ registered' = registered /\ embedded' = embedded
        /\ gatewayDraining' = gatewayDraining /\ phase' = phase
        /\ drain' = drain /\ verdict' = verdict
    BY <1>2 DEF vars, loopVars, laneVars, runVars
  <2>2. Core(lanes, stage, generationOf)' /\ Nested(stage)'
    BY <2>1 DEF Inv, Core, Shaped, Queues, Slots, Gens, Caps, Nested
  <2>3. TypeOK'
    BY <2>1 DEF Inv, TypeOK
  <2>4. Draining'
    BY <2>1 DEF Inv, Draining, AdmittedInThisLife, Current
  <2> QED BY <2>2, <2>3, <2>4 DEF Inv
<1> QED BY <1>1, <1>2

(* The invariant the theorems below rest on: lanes, stages and generations *)
(* agree through every pump, turns are nested in session slots, and a      *)
(* drain has all of this life's turns in its snapshot.                     *)
THEOREM InvHolds == Spec => []Inv
<1> QED BY InitInv, StepInv, PTL DEF Spec

(* Every variable of the model keeps its type.                             *)
THEOREM TypesHold == Spec => []TypeOK
<1>1. Inv => TypeOK
  BY DEF Inv
<1> QED BY <1>1, InvHolds, PTL

LEMMA OneSlot ==
  ASSUME NEW T, IsFiniteSet(T), Cardinality(T) <= 1, NEW a \in T, NEW b \in T
  PROVE  a = b
<1>1. /\ IsFiniteSet(T \ {a}) /\ Cardinality(T \ {a}) = Cardinality(T) - 1
  BY FS_RemoveElement
<1>2. Cardinality(T) \in Nat /\ Cardinality(T \ {a}) \in Nat
  BY <1>1, FS_CardinalityType
<1>3. Cardinality(T \ {a}) = 0
  BY <1>1, <1>2
<1>4. T \ {a} = {}
  BY <1>1, <1>3, FS_EmptySet
<1> QED BY <1>4

(* Whatever is queued, interrupted, drained or restarted, two turns of one *)
(* session that were admitted in the present life do not overlap.          *)
THEOREM SessionRunsDoNotOverlap == Spec => []OneRunPerSessionInALife
<1>1. Inv => OneRunPerSessionInALife
  <2> SUFFICES ASSUME Inv, NEW r \in Runs, NEW q \in Runs,
                      r # q, SessionOf[r] = SessionOf[q],
                      AdmittedInThisLife(r), AdmittedInThisLife(q), Executing(r), Executing(q)
               PROVE  FALSE
    BY DEF OneRunPerSessionInALife
  <2> DEFINE T == lanes[SessionOf[r]].activeTaskIds
  <2>1. stage[SessionEntry(r)] = "running" /\ stage[SessionEntry(q)] = "running"
    BY DEF Executing, Inv, Nested
  <2>2. SessionEntry(r) \in T /\ SessionEntry(q) \in T /\ SessionOf[r] \in Lanes
    <3>1. ASSUME NEW p \in {r, q} PROVE SessionEntry(p) \in T /\ SessionOf[r] \in Lanes
      <4>1. /\ p \in Runs /\ SessionOf[p] = SessionOf[r]
            /\ stage[SessionEntry(p)] = "running" /\ Current(SessionEntry(p))
        BY <2>1 DEF AdmittedInThisLife
      <4>2. /\ SessionEntry(p) \in Entries /\ LaneOf(SessionEntry(p)) = SessionOf[r]
            /\ SessionOf[r] \in Lanes
        BY <4>1, RunFacts DEF Lanes
      <4> QED BY <4>1, <4>2 DEF Current, Inv, Core, Slots
    <3> QED BY <3>1
  <2>3. Cardinality(T) <= 1
    BY RunFacts DEF Inv, Core, Caps
  <2>4. T \in SUBSET Entries
    BY <2>2 DEF Inv, TypeOK, LaneState
  <2>5. IsFiniteSet(T)
    BY <2>4, FiniteEntries, FS_Subset
  <2> HIDE DEF T
  <2>6. SessionEntry(r) = SessionEntry(q)
    BY <2>2, <2>3, <2>5, OneSlot
  <2> QED BY <2>6, RunFacts
<1> QED BY <1>1, InvHolds, PTL

(* Only a drain whose wait for the snapshot has ended is called drained,   *)
(* and by then no turn of this life executes.                              *)
THEOREM ADrainedGatewayIsQuiet == Spec => DrainedMeansQuiet
<1>1. Inv /\ [Next]_vars =>
        [verdict' = "drained" /\ verdict # "drained" =>
           \A r \in Runs : ~ (Executing(r) /\ AdmittedInThisLife(r))]_vars
  <2> SUFFICES ASSUME Inv, Next, verdict' = "drained", verdict # "drained"
               PROVE  \A r \in Runs : ~ (Executing(r) /\ AdmittedInThisLife(r))
    OBVIOUS
  <2>1. DrainOver
    BY DEF Next, Submit, CronDispatch, CronEnds, Register, FinishTurn, FinishOuter, Interrupt,
           RequestRestart, TasksDrained, RunsDrained, RestartIteration, loopVars
  <2>2. phase = "draining" /\ drain.tasksDrained
    BY <2>1 DEF DrainOver
  <2> QED BY <2>2 DEF Inv, Draining, Executing
<1> QED BY <1>1, InvHolds, PTL DEF Spec, DrainedMeansQuiet
=============================================================================

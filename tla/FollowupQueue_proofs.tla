------------------------- MODULE FollowupQueue_proofs -------------------------
(***************************************************************************)
(* Proofs about the followup queue, for all messages, routes, caps and     *)
(* policies and any number of failures, clears and queue objects: the      *)
(* types, that nothing is lost below the cap, and that a message is run    *)
(* again only after a failure.                                             *)
(*                                                                         *)
(* A turn is taken from the queue when it starts and removed from it, by   *)
(* number, when it has ended, and in between the queue may have been       *)
(* appended to, shortened from its head or emptied.  That the number still *)
(* covers the turn's messages is Batch, and that it covers no others is    *)
(* Calm, which holds as long as nothing is dropped or cleared; Calm also   *)
(* says that there is only one queue object then, so that a drain loop     *)
(* which deletes the registered key deletes its own.                       *)
(***************************************************************************)
EXTENDS FollowupQueue, SequenceTheorems, TLAPS

Records == [items : Seq(Messages), mode : Modes, dropPolicy : DropPolicies, dropped : SUBSET Messages]
Loops == [pc : {"idle", "debounce", "running"}, force : BOOLEAN, turn : SUBSET Messages,
          remove : Nat, summary : BOOLEAN]

Running(q) == drains[q].pc = "running"

(* A message is accepted once, so it has at most one place, for good.      *)
Accepted ==
  /\ \A q \in QueueIds : Items(queues[q]) \subseteq recent
  /\ \A q \in QueueIds : Running(q) => drains[q].turn \subseteq recent
  /\ \A m \in Messages \ recent : turns[m] = 0

Apart ==
  \A p, q \in QueueIds : \A i \in DOMAIN queues[p].items, k \in DOMAIN queues[q].items :
    queues[p].items[i] = queues[q].items[k] => p = q /\ i = k

(* What a turn is for is removed when it has ended, whatever has been      *)
(* dropped from the head or cleared meanwhile.                             *)
Batch ==
  \A q \in QueueIds : Running(q) =>
    \A i \in DOMAIN queues[q].items : queues[q].items[i] \in drains[q].turn => i <= drains[q].remove

Counted ==
  /\ \A m \in Messages : turns[m] <= 1 + failures
  /\ \A q \in QueueIds : \A m \in Items(queues[q]) :
       turns[m] <= failures \/ (Running(q) /\ m \in drains[q].turn)

(* As long as nothing is dropped or cleared there is one queue object, and *)
(* a turn is for exactly the head of it.                                   *)
Calm ==
  /\ \A q \in QueueIds : queues[q].dropped = {}
  /\ \A q \in QueueIds : Draining(q) => q = current
  /\ \A q \in QueueIds : q # current => queues[q].items = <<>>
  /\ \A m \in Messages : fate[m] # "dropped"
  /\ \A m \in Messages : fate[m] = "waiting" => current # 0 /\ m \in Items(queues[current])
  /\ \A q \in QueueIds : Running(q) =>
       /\ drains[q].remove <= Len(queues[q].items)
       /\ \A i \in 1 .. drains[q].remove : fate[queues[q].items[i]] # "waiting"

Inv == TypeOK /\ Accepted /\ Apart /\ Batch /\ Counted /\ (Undisturbed => Calm)

-----------------------------------------------------------------------------
(* Sequences. *)

(* What is left after n elements, as many as there are. *)
LEMMA SpliceShape ==
  ASSUME NEW S, NEW s \in Seq(S), NEW n \in Nat
  PROVE  /\ Splice(s, n) \in Seq(S)
         /\ \A i \in DOMAIN Splice(s, n) : i + n \in DOMAIN s /\ Splice(s, n)[i] = s[i + n]
         /\ \A i \in DOMAIN s : i > n => i - n \in DOMAIN Splice(s, n) /\ Splice(s, n)[i - n] = s[i]
         /\ n = 0 => Splice(s, n) = s
<1>1. Len(s) \in Nat /\ DOMAIN s = 1 .. Len(s) /\ n + 1 \in 1 .. n + 1
  OBVIOUS
<1>2. CASE n <= Len(s)
  <2> DEFINE rest == SubSeq(s, n + 1, Len(s))
  <2>1. n \in 0 .. Len(s)
    BY <1>1, <1>2
  <2>2. rest \in Seq(S) /\ Len(rest) = Len(s) - n /\ \A i \in 1 .. Len(rest) : rest[i] = s[i + n]
    <3>1. \A i \in n + 1 .. Len(s) : s[i] \in S
      BY <1>1, <2>1
    <3>2. /\ rest \in Seq(S)
          /\ Len(rest) = IF n + 1 <= Len(s) THEN Len(s) - (n + 1) + 1 ELSE 0
          /\ \A i \in 1 .. Len(s) - (n + 1) + 1 : rest[i] = s[(n + 1) + i - 1]
      BY <1>1, <3>1, SubSeqProperties
    <3> HIDE DEF rest
    <3>3. Len(rest) = Len(s) - n
      <4>1. \A l, k \in Nat : k \in 0 .. l =>
              (IF k + 1 <= l THEN l - (k + 1) + 1 ELSE 0) = l - k
        OBVIOUS
      <4> QED
        BY <1>1, <2>1, <3>2, <4>1
    <3>4. ASSUME NEW i \in 1 .. Len(rest)
          PROVE  rest[i] = s[i + n]
      <4>1. i \in 1 .. Len(s) - (n + 1) + 1 /\ (n + 1) + i - 1 = i + n
        BY <1>1, <2>1, <3>3
      <4> QED
        BY <3>2, <4>1
    <3> QED
      BY <3>2, <3>3, <3>4
  <2>3. Splice(s, n) = rest
    BY DEF Splice
  <2> HIDE DEF rest
  <2>4. DOMAIN rest = 1 .. Len(s) - n
    BY <2>2
  <2>5. n = 0 => rest = s
    BY <1>1, <2>2, <2>4
  <2> QED
    BY <1>1, <1>2, <2>2, <2>3, <2>4, <2>5
<1>3. CASE n > Len(s)
  <2>1. Splice(s, n) = <<>>
    BY <1>1, <1>3 DEF Splice
  <2> QED
    BY <1>1, <1>3, <2>1
<1> QED
  BY <1>1, <1>2, <1>3

LEMMA ItemsAre ==
  ASSUME NEW Q
  PROVE  \A m : m \in Items(Q) <=> \E i \in DOMAIN Q.items : Q.items[i] = m
BY DEF Items

-----------------------------------------------------------------------------
(* What a loop that ends, and a new one that is scheduled, do to the loops *)
(* and the registry: st is what they leave of d and c, E the loops that    *)
(* have ended.  A registry entry is only lost with its work if there is    *)
(* more than one queue object.                                             *)

Sole(d, c) == \A q \in QueueIds : d[q].pc # "idle" => q = c

Moves(E, d, c, st) ==
  /\ st.drains \in [QueueIds -> Loops] /\ st.current \in QueueIds \cup {0}
  /\ \A q \in QueueIds : \/ q \notin E /\ st.drains[q] = d[q]
                         \/ (q \in E \/ d[q].pc = "idle") /\ st.drains[q].pc # "running"
  /\ Sole(d, c) /\ E \subseteq {c} =>
       /\ Sole(st.drains, st.current)
       /\ st.current = c \/ (c # 0 /\ st.current = 0 /\ ~ Work(queues'[c]))

LEMMA IdleLoops ==
  \A force \in BOOLEAN :
    Idle \in Loops /\ Idle.pc = "idle"
    /\ [Idle EXCEPT !.pc = "debounce", !.force = force] \in Loops
    /\ [Idle EXCEPT !.pc = "debounce"] \in Loops
    /\ [Idle EXCEPT !.pc = "debounce", !.force = force].pc = "debounce"
    /\ [Idle EXCEPT !.pc = "debounce"].pc = "debounce"
BY DEF Idle, Loops

LEMMA ScheduleMoves ==
  ASSUME NEW d \in [QueueIds -> Loops], NEW c \in QueueIds \cup {0}
  PROVE  Moves({}, d, c, Schedule(State(d, c)))
<1> DEFINE st == Schedule(State(d, c))
           begun == [Idle EXCEPT !.pc = "debounce"]
<1>1. begun \in Loops /\ begun.pc = "debounce"
  BY IdleLoops
<1> HIDE DEF begun
<1>2. CASE c = 0 \/ d[c].pc # "idle"
  <2>1. st.drains = d /\ st.current = c
    BY <1>2 DEF Schedule, State
  <2> QED
    BY <2>1 DEF Moves, Sole
<1>3. CASE ~ (c = 0 \/ d[c].pc # "idle") /\ Work(queues'[c])
  <2>1. st.drains = [d EXCEPT ![c] = begun] /\ st.current = c
    BY <1>3 DEF Schedule, State, begun
  <2> QED
    BY <1>1, <1>3, <2>1 DEF Moves, Sole
<1>4. CASE ~ (c = 0 \/ d[c].pc # "idle") /\ ~ Work(queues'[c])
  <2>1. st.drains = d /\ st.current = 0
    BY <1>4 DEF Schedule, State
  <2> QED
    BY <1>4, <2>1 DEF Moves, Sole
<1> QED
  BY <1>2, <1>3, <1>4

LEMMA FinallyMoves ==
  ASSUME NEW d \in [QueueIds -> Loops], NEW c \in QueueIds \cup {0}, NEW q \in QueueIds
  PROVE  Moves({q}, d, c, Finally(q, State(d, c)))
<1> DEFINE st == Finally(q, State(d, c))
           stopped == [d EXCEPT ![q] = Idle]
<1>1. /\ stopped \in [QueueIds -> Loops] /\ stopped[q].pc = "idle"
      /\ \A p \in QueueIds : p # q => stopped[p] = d[p]
  BY IdleLoops
<1> HIDE DEF stopped
<1>2. CASE ~ Work(queues'[q])
  <2>1. st.drains = stopped /\ st.current = 0
    BY <1>2 DEF Finally, State, stopped
  <2> QED
    BY <1>1, <1>2, <2>1 DEF Moves, Sole
<1>3. CASE Work(queues'[q])
  <2>1. st = Schedule(State(stopped, c))
    BY <1>3 DEF Finally, State, stopped
  <2>2. Moves({}, stopped, c, st)
    BY <1>1, <2>1, ScheduleMoves
  <2> HIDE DEF st
  <2>3. \A p \in QueueIds : \/ p \notin {q} /\ st.drains[p] = d[p]
                            \/ (p \in {q} \/ d[p].pc = "idle") /\ st.drains[p].pc # "running"
    BY <1>1, <2>2 DEF Moves
  <2>4. Sole(d, c) => Sole(stopped, c)
    BY <1>1 DEF Sole
  <2> QED
    BY <2>2, <2>3, <2>4 DEF Moves, st
<1> QED
  BY <1>2, <1>3

LEMMA LoopMoves ==
  ASSUME NEW d \in [QueueIds -> Loops], NEW c \in QueueIds \cup {0}, NEW q \in QueueIds,
         d[q].pc # "idle"
  PROVE  Moves({q}, d, c, Loop(q, State(d, c)))
<1> DEFINE st == Loop(q, State(d, c))
           again == [Idle EXCEPT !.pc = "debounce", !.force = d[q].force]
<1>1. again \in Loops /\ again.pc = "debounce"
  <2>1. d[q].force \in BOOLEAN
    BY DEF Loops
  <2> QED
    BY <2>1, IdleLoops
<1> HIDE DEF again
<1>2. CASE Work(queues'[q])
  <2>1. st.drains = [d EXCEPT ![q] = again] /\ st.current = c
    BY <1>2 DEF Loop, State, again
  <2> QED
    BY <1>1, <2>1 DEF Moves, Sole
<1>3. CASE ~ Work(queues'[q])
  BY <1>3, FinallyMoves DEF Loop
<1> QED
  BY <1>2, <1>3

-----------------------------------------------------------------------------
LEMMA NoQueueZero == ASSUME FollowupAssumption PROVE 0 \notin QueueIds
BY DEF QueueIds, FollowupAssumption

(* One lemma for each kind of step. *)

(* Loops end and are scheduled, the queue objects stay as they are.  What  *)
(* goes back to waiting was for a turn that has failed.                    *)
LEMMA QuietStep ==
  ASSUME FollowupAssumption, Inv, NEW E \in SUBSET QueueIds, NEW st,
         Moves(E, drains, current, st), Becomes(st), queues' = queues,
         \A q \in E : Draining(q) /\ (Running(q) => failures' = failures + 1),
         UNCHANGED <<recent, overflowed, turns, clears>>, mainRun' \in BOOLEAN,
         failures' \in failures .. MaxFailures,
         fate' \in [Messages -> {"new", "waiting", "ran", "dropped", "announced", "discarded"}],
         \A m \in Messages : fate'[m] = "waiting" =>
           fate[m] = "waiting" \/ \E q \in E : Running(q) /\ m \in Items(queues[q]),
         \A m \in Messages : fate'[m] = "dropped" =>
           fate[m] = "dropped" \/ \E q \in E : m \in queues[q].dropped
  PROVE  Inv'
<1>1. TypeOK
  BY DEF Inv
<1>2. failures \in Nat /\ MaxFailures \in Nat /\ failures' \in Nat /\ failures <= failures'
  BY <1>1 DEF TypeOK, FollowupAssumption
<1>3. drains' = st.drains /\ current' = st.current
  BY DEF Becomes
<1>4. \A q \in QueueIds : /\ Running(q)' => q \notin E /\ drains'[q] = drains[q] /\ Running(q)
                          /\ Running(q) /\ q \notin E => drains'[q] = drains[q] /\ Running(q)'
  BY <1>3 DEF Moves, Running
<1>5. TypeOK'
  BY <1>1, <1>2, <1>3 DEF TypeOK, Moves, Loops
<1>6. Accepted' /\ Apart'
  BY <1>4 DEF Inv, Accepted, Apart, Items
<1>7. Batch'
  BY <1>4 DEF Inv, Batch
<1>8. Counted'
  <2>1. \A m \in Messages : turns[m] \in Nat
    BY <1>1 DEF TypeOK
  <2>2. ASSUME NEW m \in Messages
        PROVE  turns'[m] <= 1 + failures'
    BY <1>2, <2>1 DEF Inv, Counted
  <2>3. ASSUME NEW q \in QueueIds, NEW m \in Items(queues[q])
        PROVE  turns'[m] <= failures' \/ (Running(q)' /\ m \in drains'[q].turn)
    <3>1. m \in Messages /\ turns[m] \in Nat
      BY <1>1, <2>1 DEF TypeOK, Items
    <3>2. turns[m] <= 1 + failures /\ (turns[m] <= failures \/ (Running(q) /\ m \in drains[q].turn))
      BY <3>1 DEF Inv, Counted
    <3>3. CASE turns[m] <= failures
      BY <1>2, <3>1, <3>3
    <3>4. CASE Running(q) /\ q \in E
      <4>1. failures' = failures + 1
        BY <3>4
      <4> QED
        BY <1>2, <3>1, <3>2, <4>1
    <3>5. CASE Running(q) /\ m \in drains[q].turn /\ q \notin E
      BY <1>4, <3>5
    <3> QED
      BY <3>2, <3>3, <3>4, <3>5
  <2>4. \A q \in QueueIds : Items(queues[q])' = Items(queues[q])
    BY DEF Items
  <2>5. \A q \in QueueIds : \A m \in Items(queues[q])' :
          turns'[m] <= failures' \/ (Running(q)' /\ m \in drains'[q].turn)
    BY <2>3, <2>4
  <2> QED
    BY <2>2, <2>5 DEF Counted
<1>9. ASSUME Undisturbed'
      PROVE  Calm'
  <2>1. Undisturbed /\ Calm
    BY <1>9 DEF Undisturbed, Inv
  <2>2. Sole(drains, current) /\ E \subseteq {current}
    BY <2>1 DEF Calm, Sole, Draining
  <2>3. /\ \A q \in QueueIds : drains'[q].pc # "idle" => q = current'
        /\ current' = current \/ (current # 0 /\ current' = 0 /\ ~ Work(queues[current]))
    BY <1>3, <2>2 DEF Moves, Sole
  <2>4. \A q \in QueueIds : q # current' => queues[q].items = <<>>
    BY <2>1, <2>3 DEF Calm, Work
  <2>5. ASSUME NEW m \in Messages, fate'[m] = "waiting"
        PROVE  current # 0 /\ m \in Items(queues[current])
    <3>1. CASE fate[m] = "waiting"
      BY <2>1, <3>1 DEF Calm
    <3>2. CASE \E q \in E : Running(q) /\ m \in Items(queues[q])
      <4>1. PICK q \in E : Running(q) /\ m \in Items(queues[q])
        BY <3>2
      <4>2. q = current /\ q # 0
        BY <2>2, NoQueueZero
      <4> QED
        BY <4>1, <4>2
    <3> QED
      BY <2>5, <3>1, <3>2
  <2>6. current # 0 /\ current' = 0 => Items(queues[current]) = {}
    BY <2>3 DEF Work, Items
  <2>7. ASSUME NEW m \in Messages
        PROVE  /\ fate'[m] # "dropped"
               /\ fate'[m] = "waiting" => current' # 0 /\ m \in Items(queues[current'])
    BY <2>1, <2>3, <2>5, <2>6 DEF Calm
  <2>8. ASSUME NEW q \in QueueIds, Running(q)'
        PROVE  /\ drains'[q].remove <= Len(queues[q].items)
               /\ \A i \in 1 .. drains'[q].remove : fate'[queues[q].items[i]] # "waiting"
    <3>1. q \notin E /\ drains'[q] = drains[q] /\ Running(q) /\ q = current
      BY <1>4, <2>1, <2>8 DEF Calm, Running, Draining
    <3>2. drains[q].remove <= Len(queues[q].items)
      BY <2>1, <3>1 DEF Calm
    <3>3. ASSUME NEW i \in 1 .. drains[q].remove
          PROVE  fate'[queues[q].items[i]] # "waiting"
      <4>1. fate[queues[q].items[i]] # "waiting"
        BY <2>1, <3>1 DEF Calm
      <4>2. queues[q].items[i] \in Messages
        <5>1. queues[q].items \in Seq(Messages) /\ drains[q].remove \in Nat
          BY <1>1 DEF TypeOK
        <5>2. i \in 1 .. Len(queues[q].items)
          BY <3>2, <5>1
        <5> QED
          BY <5>1, <5>2
      <4>3. E = {}
        BY <2>2, <3>1
      <4> QED
        BY <4>1, <4>2, <4>3
    <3> QED
      BY <3>1, <3>2, <3>3
  <2>9. \A q \in QueueIds : queues[q].dropped = {}
    BY <2>1 DEF Calm
  <2>10. Items(queues[current])' = Items(queues[current'])
    BY DEF Items
  <2>11. \A m \in Messages : /\ fate'[m] # "dropped"
                             /\ fate'[m] = "waiting" => current' # 0 /\ m \in Items(queues[current])'
    BY <2>7, <2>10
  <2>12. \A q \in QueueIds : Running(q)' =>
           /\ drains'[q].remove <= Len(queues[q].items)
           /\ \A i \in 1 .. drains'[q].remove : fate'[queues[q].items[i]] # "waiting"
    BY <2>8
  <2> QED
    BY <2>3, <2>4, <2>9, <2>11, <2>12 DEF Calm, Draining
<1> QED
  BY <1>5, <1>6, <1>7, <1>8, <1>9 DEF Inv

(* A turn starts for the first messages of the queue, all that it will     *)
(* remove, unless it carries a summary only.                               *)
Batched(q, ms, remove) ==
  /\ ms \in SUBSET Messages /\ ms \subseteq Items(queues[q]) /\ remove \in Nat
  /\ \A i \in DOMAIN queues[q].items : queues[q].items[i] \in ms => i <= remove
  /\ queues[q].dropped = {} => /\ remove <= Len(queues[q].items)
                               /\ \A i \in 1 .. remove : queues[q].items[i] \in ms

LEMMA RunStep ==
  ASSUME Inv, NEW q \in QueueIds, drains[q].pc = "debounce",
         \E ms \in SUBSET Messages, remove \in Nat, summary \in BOOLEAN, force \in BOOLEAN :
           Run(q, ms, remove, summary, force) /\ Batched(q, ms, remove)
  PROVE  Inv'
<1>1. PICK ms \in SUBSET Messages, remove \in Nat, summary \in BOOLEAN, force \in BOOLEAN :
        Run(q, ms, remove, summary, force) /\ Batched(q, ms, remove)
  OBVIOUS
<1>2. /\ ms \subseteq Items(queues[q])
      /\ \A i \in DOMAIN queues[q].items : queues[q].items[i] \in ms => i <= remove
      /\ queues[q].dropped = {} => /\ remove <= Len(queues[q].items)
                                   /\ \A i \in 1 .. remove : queues[q].items[i] \in ms
  BY <1>1 DEF Batched
<1> DEFINE loop == [pc |-> "running", force |-> force, turn |-> ms, remove |-> remove,
                    summary |-> summary]
<1>3. TypeOK
  BY DEF Inv
<1>4. loop \in Loops /\ loop.pc = "running" /\ loop.turn = ms /\ loop.remove = remove
  BY DEF Loops
<1>5. drains' = [drains EXCEPT ![q] = loop]
  BY <1>1 DEF Run
<1> HIDE DEF loop
<1>6. drains' \in [QueueIds -> Loops] /\ drains'[q] = loop /\ \A p \in QueueIds : p # q => drains'[p] = drains[p]
  BY <1>3, <1>4, <1>5 DEF TypeOK, Loops
<1>7. Running(q)' /\ ~ Running(q) /\ \A p \in QueueIds : p # q => (Running(p)' <=> Running(p))
  BY <1>4, <1>6 DEF Running
<1>8. /\ UNCHANGED <<queues, current, recent, mainRun, overflowed, failures, clears>>
      /\ turns' = [n \in Messages |-> IF n \in ms THEN turns[n] + 1 ELSE turns[n]]
  BY <1>1 DEF Run
<1>9. /\ fate' \in [Messages -> {"new", "waiting", "ran", "dropped", "announced", "discarded"}]
      /\ \A n \in Messages : \/ n \in ms /\ fate'[n] = "ran"
                             \/ n \notin ms /\ fate'[n] \in {"announced", fate[n]}
  <2>1. fate' = [n \in Messages |->
                   CASE n \in ms -> "ran"
                     [] summary /\ n \in queues[q].dropped \ ms /\ fate[n] = "dropped" -> "announced"
                     [] OTHER -> fate[n]]
    BY <1>1 DEF Run
  <2>2. ASSUME NEW n \in Messages
        PROVE  /\ fate[n] \in {"new", "waiting", "ran", "dropped", "announced", "discarded"}
               /\ \/ n \in ms /\ fate'[n] = "ran"
                  \/ n \notin ms /\ (fate'[n] = "announced" \/ fate'[n] = fate[n])
    <3>1. fate[n] \in {"new", "waiting", "ran", "dropped", "announced", "discarded"}
      BY <1>3 DEF TypeOK
    <3>2. CASE n \in ms
      BY <2>1, <3>1, <3>2
    <3>3. CASE n \notin ms
      <4> DEFINE told == summary /\ n \in queues[q].dropped \ ms /\ fate[n] = "dropped"
      <4>1. fate'[n] = CASE n \in ms -> "ran" [] told -> "announced" [] OTHER -> fate[n]
        BY <2>1
      <4> HIDE DEF told
      <4>2. CASE told
        <5>1. fate'[n] = "announced"
          BY <3>3, <4>1, <4>2, Zenon
        <5> QED
          BY <3>1, <3>3, <5>1
      <4>3. CASE ~ told
        <5>1. fate'[n] = fate[n]
          BY <3>3, <4>1, <4>3, Zenon
        <5> QED
          BY <3>1, <3>3, <5>1
      <4> QED
        BY <4>2, <4>3
    <3> QED
      BY <3>1, <3>2, <3>3
  <2>3. DOMAIN fate' = Messages /\ fate' = [n \in Messages |-> fate'[n]]
    BY <2>1
  <2> QED
    BY <2>2, <2>3
<1>10. TypeOK'
  BY <1>3, <1>6, <1>8, <1>9 DEF TypeOK, Loops
<1>11. \A p \in QueueIds : Items(queues[p])' = Items(queues[p])
  BY <1>8 DEF Items
<1>12. Accepted'
  <2>1. ms \subseteq recent
    BY <1>2 DEF Inv, Accepted
  <2>2. \A p \in QueueIds : Running(p)' => drains'[p].turn \subseteq recent
    BY <1>4, <1>6, <1>7, <2>1 DEF Inv, Accepted
  <2> QED
    BY <1>8, <1>11, <2>1, <2>2 DEF Inv, Accepted
<1>13. Apart'
  BY <1>8 DEF Inv, Apart
<1>14. Batch'
  BY <1>4, <1>6, <1>7, <1>8, <1>2 DEF Inv, Batch
<1>15. Counted'
  <2>1. failures \in Nat /\ \A m \in Messages : turns[m] \in Nat
    BY <1>3 DEF TypeOK
  <2>2. \A m \in ms : turns[m] <= failures
    BY <1>7, <1>2 DEF Inv, Counted
  <2>3. ASSUME NEW m \in Messages
        PROVE  turns'[m] <= 1 + failures
    <3>1. CASE m \in ms
      BY <1>8, <2>1, <2>2, <3>1
    <3>2. CASE m \notin ms
      BY <1>8, <3>2 DEF Inv, Counted
    <3> QED
      BY <3>1, <3>2
  <2>4. ASSUME NEW p \in QueueIds, NEW m \in Items(queues[p])
        PROVE  turns'[m] <= failures \/ (Running(p)' /\ m \in drains'[p].turn)
    <3>1. m \in Messages
      BY <1>3 DEF TypeOK, Items
    <3>2. turns[m] <= failures \/ (Running(p) /\ m \in drains[p].turn)
      BY DEF Inv, Counted
    <3>3. CASE m \in ms
      <4>1. p = q
        BY <1>2, <3>3 DEF Inv, Apart, Items
      <4> QED
        BY <1>4, <1>6, <1>7, <3>3, <4>1
    <3>4. CASE m \notin ms
      BY <1>6, <1>7, <1>8, <3>1, <3>2, <3>4
    <3> QED
      BY <3>3, <3>4
  <2>5. \A p \in QueueIds : \A m \in Items(queues[p])' :
          turns'[m] <= failures \/ (Running(p)' /\ m \in drains'[p].turn)
    BY <1>11, <2>4
  <2> QED
    BY <1>8, <2>3, <2>5 DEF Counted
<1>16. ASSUME Undisturbed'
       PROVE  Calm'
  <2>1. Undisturbed /\ Calm
    BY <1>8, <1>16 DEF Undisturbed, Inv
  <2>2. q = current
    BY <2>1 DEF Calm, Draining
  <2>3. \A p \in QueueIds : (Draining(p)' => p = current) /\ (Running(p)' => p = q)
    BY <1>6, <1>7, <2>1, <2>2 DEF Calm, Draining, Running
  <2>4. \A i \in 1 .. remove : fate'[queues[q].items[i]] # "waiting"
    <3>1. \A i \in 1 .. remove : queues[q].items[i] \in ms
      BY <1>2, <2>1 DEF Calm
    <3> QED
      BY <1>9, <3>1
  <2>5. remove <= Len(queues[q].items)
    BY <1>2, <2>1 DEF Calm
  <2>6. \A m \in Messages : fate'[m] # "dropped"
    BY <1>9, <2>1 DEF Calm
  <2>7. \A m \in Messages : fate'[m] = "waiting" => current # 0 /\ m \in Items(queues[current])
    BY <1>9, <2>1 DEF Calm
  <2>8. \A m \in Messages : fate'[m] = "waiting" => current' # 0 /\ m \in Items(queues[current])'
    BY <1>8, <2>7 DEF Items
  <2>9. \A p \in QueueIds : Running(p)' =>
          /\ drains'[p].remove <= Len(queues'[p].items)
          /\ \A i \in 1 .. drains'[p].remove : fate'[queues'[p].items[i]] # "waiting"
    BY <1>4, <1>6, <1>8, <2>3, <2>4, <2>5
  <2>10. \A p \in QueueIds : queues'[p].dropped = {} /\ (p # current' => queues'[p].items = <<>>)
    BY <1>8, <2>1 DEF Calm
  <2>11. \A p \in QueueIds : Draining(p)' => p = current'
    BY <1>8, <2>3
  <2> QED
    BY <2>6, <2>8, <2>9, <2>10, <2>11 DEF Calm
<1> QED
  BY <1>10, <1>12, <1>13, <1>14, <1>15, <1>16 DEF Inv

(* A turn has ended: what is left of the queue was not part of it.         *)
LEMMA TurnEndsStep ==
  ASSUME FollowupAssumption, Inv, NEW q \in QueueIds, TurnEnds(q)
  PROVE  Inv'
<1> DEFINE s == queues[q].items
           n == drains[q].remove
           Q == [queues[q] EXCEPT !.items = Splice(@, drains[q].remove),
                                  !.dropped = IF drains[q].summary THEN {} ELSE @]
           st == Loop(q, State(drains, current))
<1>1. TypeOK
  BY DEF Inv
<1>2. queues \in [QueueIds -> Records] /\ drains \in [QueueIds -> Loops] /\ current \in QueueIds \cup {0}
  BY <1>1 DEF TypeOK, Records, Loops
<1>3. Running(q) /\ Draining(q)
  BY DEF TurnEnds, Running, Draining
<1>4. s \in Seq(Messages) /\ n \in Nat /\ queues[q] \in Records
  BY <1>2 DEF Records, Loops
<1> HIDE DEF s, n
<1>5. /\ Splice(s, n) \in Seq(Messages)
      /\ \A i \in DOMAIN Splice(s, n) : i + n \in DOMAIN s /\ Splice(s, n)[i] = s[i + n]
      /\ \A i \in DOMAIN s : i > n => i - n \in DOMAIN Splice(s, n) /\ Splice(s, n)[i - n] = s[i]
      /\ n = 0 => Splice(s, n) = s
  BY <1>4, SpliceShape, Zenon
<1>6. Q \in Records /\ Q.items = Splice(s, n) /\ Q.dropped \in {{}, queues[q].dropped}
  BY <1>4, <1>5 DEF Records, s, n
<1>7. queues' = [queues EXCEPT ![q] = Q] /\ Becomes(st)
      /\ UNCHANGED <<recent, mainRun, fate, overflowed, turns, failures, clears>>
  BY DEF TurnEnds
<1>8. Moves({q}, drains, current, st)
  BY <1>2, <1>3, LoopMoves DEF Draining
<1>9. drains' = st.drains /\ current' = st.current
  BY <1>7 DEF Becomes
<1> HIDE DEF Q, st
<1>10. queues' \in [QueueIds -> Records] /\ queues'[q] = Q /\ \A p \in QueueIds : p # q => queues'[p] = queues[p]
  BY <1>2, <1>6, <1>7
<1>11. \A p \in QueueIds : Running(p)' => p # q /\ drains'[p] = drains[p] /\ Running(p)
  BY <1>8, <1>9 DEF Moves, Running
<1>12. \A p \in QueueIds : p # q /\ Running(p) => drains'[p] = drains[p] /\ Running(p)'
  BY <1>8, <1>9 DEF Moves, Running
<1>13. TypeOK'
  BY <1>1, <1>7, <1>8, <1>9, <1>10 DEF TypeOK, Moves, Loops, Records
<1>14. \A i \in DOMAIN Q.items : i \in Nat /\ i + n \in DOMAIN s /\ i + n > n /\ Q.items[i] = s[i + n]
  <2>1. DOMAIN Splice(s, n) = 1 .. Len(Splice(s, n)) /\ Len(Splice(s, n)) \in Nat
    BY <1>5
  <2> QED
    BY <1>4, <1>5, <1>6, <2>1
<1>15. \A p \in QueueIds : Items(queues[p])' \subseteq Items(queues[p])
  <2>1. Items(Q) \subseteq Items(queues[q])
    BY <1>14 DEF Items, s
  <2> QED
    BY <1>10, <2>1 DEF Items
<1>16. Accepted'
  <2>1. \A p \in QueueIds : Running(p)' => drains'[p].turn \subseteq recent
    BY <1>11 DEF Inv, Accepted
  <2> QED
    BY <1>7, <1>15, <2>1 DEF Inv, Accepted
<1>17. Apart'
  <2>1. \A p \in QueueIds : \A i \in DOMAIN queues'[p].items :
          \E k \in DOMAIN queues[p].items :
            queues'[p].items[i] = queues[p].items[k] /\ k = IF p = q THEN i + n ELSE i
    BY <1>10, <1>14 DEF s
  <2>2. ASSUME NEW p \in QueueIds, NEW r \in QueueIds,
               NEW i \in DOMAIN queues'[p].items, NEW k \in DOMAIN queues'[r].items,
               queues'[p].items[i] = queues'[r].items[k]
        PROVE  p = r /\ i = k
    <3>1. PICK i1 \in DOMAIN queues[p].items :
            queues'[p].items[i] = queues[p].items[i1] /\ i1 = IF p = q THEN i + n ELSE i
      BY <2>1
    <3>2. PICK k1 \in DOMAIN queues[r].items :
            queues'[r].items[k] = queues[r].items[k1] /\ k1 = IF r = q THEN k + n ELSE k
      BY <2>1
    <3>3. p = r /\ i1 = k1
      <4>1. queues[p].items[i1] = queues[r].items[k1] /\ Apart
        BY <2>2, <3>1, <3>2 DEF Inv
      <4> QED
        BY <4>1 DEF Apart
    <3>4. CASE p = q
      <4>1. i \in Nat /\ k \in Nat /\ i + n = k + n
        BY <1>10, <1>14, <3>1, <3>2, <3>3, <3>4
      <4> QED
        BY <1>4, <3>3, <4>1 DEF n
    <3>5. CASE p # q
      BY <3>1, <3>2, <3>3, <3>5
    <3> QED
      BY <3>4, <3>5
  <2> QED
    BY <2>2 DEF Apart
<1>18. Batch'
  <2>1. ASSUME NEW p \in QueueIds, Running(p)', NEW i \in DOMAIN queues'[p].items,
               queues'[p].items[i] \in drains'[p].turn
        PROVE  i <= drains'[p].remove
    BY <1>10, <1>11, <2>1 DEF Inv, Batch
  <2> QED
    BY <2>1 DEF Batch
<1>19. Counted'
  <2>1. ASSUME NEW p \in QueueIds, NEW m \in Items(queues[p])'
        PROVE  turns[m] <= failures \/ (Running(p)' /\ m \in drains'[p].turn)
    <3>1. m \in Items(queues[p])
      BY <1>15, <2>1
    <3>2. CASE p = q
      <4>1. PICK i \in DOMAIN Q.items : Q.items[i] = m
        BY <1>10, <2>1, <3>2 DEF Items
      <4>2. i + n \in DOMAIN queues[q].items /\ queues[q].items[i + n] = m /\ i + n > n
        BY <1>14, <4>1 DEF s
      <4>3. m \notin drains[q].turn
        <5>1. SUFFICES ASSUME m \in drains[q].turn PROVE FALSE
          OBVIOUS
        <5>2. i + n <= n
          BY <1>3, <4>2, <5>1 DEF Inv, Batch, n
        <5>3. i + n \in Nat /\ n \in Nat
          BY <1>4, <1>14 DEF n
        <5> QED
          BY <4>2, <5>2, <5>3
      <4>4. turns[m] <= failures
        BY <3>1, <3>2, <4>3 DEF Inv, Counted
      <4> QED
        BY <4>4
    <3>3. CASE p # q
      BY <1>12, <3>1, <3>3 DEF Inv, Counted
    <3> QED
      BY <3>2, <3>3
  <2>2. \A m \in Messages : turns[m] <= 1 + failures
    BY DEF Inv, Counted
  <2> QED
    BY <1>7, <2>1, <2>2 DEF Counted
<1>20. ASSUME Undisturbed'
       PROVE  Calm'
  <2>1. Undisturbed /\ Calm
    BY <1>7, <1>20 DEF Undisturbed, Inv
  <2>2. q = current
    BY <1>3, <2>1 DEF Calm
  <2>3. Sole(drains, current) /\ {q} \subseteq {current}
    BY <2>1, <2>2 DEF Calm, Sole, Draining
  <2>4. /\ \A p \in QueueIds : drains'[p].pc # "idle" => p = current'
        /\ current' = q \/ (current' = 0 /\ ~ Work(Q))
    BY <1>8, <1>9, <1>10, <2>2, <2>3 DEF Moves, Sole
  <2>5. \A p \in QueueIds : queues'[p].dropped = {}
    BY <1>6, <1>10, <2>1 DEF Calm
  <2>6. \A p \in QueueIds : p # current' => queues'[p].items = <<>>
    BY <1>10, <2>1, <2>2, <2>4 DEF Calm, Work
  <2>7. \A p \in QueueIds : ~ Running(p)'
    BY <1>3, <1>11, <2>1, <2>2 DEF Calm, Running, Draining
  <2>8. ASSUME NEW m \in Messages, fate[m] = "waiting"
        PROVE  current' # 0 /\ m \in Items(queues[current])'
    <3>1. m \in Items(queues[q])
      BY <2>1, <2>2, <2>8 DEF Calm
    <3>2. PICK i \in DOMAIN s : s[i] = m
      BY <3>1 DEF Items, s
    <3>3. i \in Nat /\ i >= 1
      BY <1>4, <3>2 DEF s
    <3>4. i > n
      <4>1. SUFFICES ASSUME i <= n PROVE FALSE
        BY <1>4, <3>3 DEF n
      <4>2. i \in 1 .. n
        BY <1>4, <3>3, <4>1 DEF n
      <4>3. fate[m] # "waiting"
        BY <1>3, <2>1, <3>2, <4>2 DEF Calm, s, n
      <4> QED
        BY <2>8, <4>3
    <3>5. i - n \in DOMAIN Q.items /\ Q.items[i - n] = m
      BY <1>5, <1>6, <3>2, <3>4
    <3>6. Work(Q) /\ m \in Items(Q)
      BY <3>5 DEF Work, Items
    <3>7. current' = q
      BY <2>4, <3>6
    <3> QED
      BY <1>10, <2>2, NoQueueZero, <3>6, <3>7 DEF Items
  <2>9. \A m \in Messages : fate[m] # "dropped"
    BY <2>1 DEF Calm
  <2> QED
    BY <1>7, <2>4, <2>5, <2>6, <2>7, <2>8, <2>9 DEF Calm, Draining
<1> QED
  BY <1>13, <1>16, <1>17, <1>18, <1>19, <1>20 DEF Inv

(* The session is cleared: an empty queue has nothing to lose.             *)
LEMMA ClearStep ==
  ASSUME FollowupAssumption, Inv, Clear
  PROVE  Inv'
<1> DEFINE Q == [queues[current] EXCEPT !.items = <<>>, !.dropped = {}]
<1>1. TypeOK
  BY DEF Inv
<1>2. current \in QueueIds /\ queues \in [QueueIds -> Records] /\ clears \in Nat /\ MaxClears \in Nat
  BY <1>1 DEF TypeOK, Clear, Records, FollowupAssumption
<1>3. Q \in Records /\ Q.items = <<>>
  <2>1. queues[current] \in Records /\ <<>> \in Seq(Messages)
    BY <1>2
  <2> QED
    BY <2>1 DEF Records
<1>4. queues' = [queues EXCEPT ![current] = Q]
  BY DEF Clear
<1> HIDE DEF Q
<1>5. /\ queues' \in [QueueIds -> Records] /\ queues'[current].items = <<>>
      /\ \A p \in QueueIds : p # current => queues'[p] = queues[p]
  BY <1>2, <1>3, <1>4
<1>6. /\ current' = 0 /\ clears' = clears + 1 /\ clears < MaxClears
      /\ UNCHANGED <<drains, recent, mainRun, overflowed, turns, failures>>
  BY DEF Clear
<1>7. fate' \in [Messages -> {"new", "waiting", "ran", "dropped", "announced", "discarded"}]
  BY <1>1 DEF Clear, TypeOK
<1>8. TypeOK'
  <2>1. clears' \in 0 .. MaxClears
    BY <1>2, <1>6
  <2> QED
    BY <1>1, <1>5, <1>6, <1>7, <2>1 DEF TypeOK, Records
<1>9. \A p \in QueueIds : Items(queues[p])' \subseteq Items(queues[p])
  BY <1>5 DEF Items
<1>10. Accepted'
  BY <1>6, <1>9 DEF Inv, Accepted, Running
<1>11. Apart'
  BY <1>5 DEF Inv, Apart
<1>12. Batch'
  BY <1>5, <1>6 DEF Inv, Batch, Running
<1>13. Counted'
  BY <1>6, <1>9 DEF Inv, Counted, Running
<1>14. ~ Undisturbed'
  BY <1>2, <1>6 DEF Undisturbed
<1> QED
  BY <1>8, <1>10, <1>11, <1>12, <1>13, <1>14 DEF Inv

(* What the arrival of m does to the registered queue, or to a new one: k  *)
(* items are dropped from the head and m may be appended.                  *)
Fates == {"new", "waiting", "ran", "dropped", "announced", "discarded"}

Arrival(q, R, m, k) ==
  /\ q = current \/ (current = 0 /\ ~ Draining(q))
  /\ queues' = [queues EXCEPT ![q] = R]
  /\ \A i \in DOMAIN R.items :
       \/ current = q /\ i + k \in DOMAIN queues[q].items /\ R.items[i] = queues[q].items[i + k]
       \/ R.items[i] = m /\ i = Len(R.items) /\ m \notin recent /\ m \in recent'
  /\ recent \subseteq recent' /\ recent' \subseteq Messages
  /\ ~ overflowed' =>
       /\ ~ overflowed /\ R.dropped \in {{}, queues[q].dropped}
       /\ current = q => \A i \in DOMAIN queues[q].items :
                           i \in DOMAIN R.items /\ R.items[i] = queues[q].items[i]
       /\ \A n \in Messages : fate'[n] = "dropped" => fate[n] = "dropped"
  /\ \A n \in Messages : fate'[n] = "waiting" =>
       fate[n] = "waiting" \/ (n = m /\ m \in Items(R) /\ m \notin recent)
  /\ fate' \in [Messages -> Fates] /\ overflowed' \in BOOLEAN
  /\ UNCHANGED <<mainRun, turns, failures, clears>>
  /\ \E st : Moves({}, drains, q, st) /\ Becomes(st)

(* An appended message stands at the end, the others move up.              *)
LEMMA AppendSplice ==
  ASSUME NEW s \in Seq(Messages), NEW k \in Nat, NEW m \in Messages
  PROVE  /\ Append(Splice(s, k), m) \in Seq(Messages)
         /\ \A i \in DOMAIN Append(Splice(s, k), m) :
              \/ i + k \in DOMAIN s /\ Append(Splice(s, k), m)[i] = s[i + k]
              \/ Append(Splice(s, k), m)[i] = m /\ i = Len(Append(Splice(s, k), m))
         /\ \E i \in DOMAIN Append(Splice(s, k), m) : Append(Splice(s, k), m)[i] = m
         /\ k = 0 => \A i \in DOMAIN s : /\ i \in DOMAIN Append(Splice(s, k), m)
                                         /\ Append(Splice(s, k), m)[i] = s[i]
<1> DEFINE r == Splice(s, k)
           a == Append(r, m)
<1>1. /\ r \in Seq(Messages)
      /\ \A i \in DOMAIN r : i + k \in DOMAIN s /\ r[i] = s[i + k]
      /\ \A i \in DOMAIN s : i > k => i - k \in DOMAIN r /\ r[i - k] = s[i]
      /\ k = 0 => r = s
  BY SpliceShape, Zenon
<1> HIDE DEF r
<1>2. /\ a \in Seq(Messages) /\ Len(a) = Len(r) + 1 /\ Len(r) \in Nat
      /\ DOMAIN a = 1 .. Len(r) + 1 /\ DOMAIN r = 1 .. Len(r)
      /\ a[Len(r) + 1] = m /\ \A i \in 1 .. Len(r) : a[i] = r[i]
  BY <1>1
<1> HIDE DEF a
<1>3. \A i \in DOMAIN a : i \in DOMAIN r \/ i = Len(a)
  BY <1>2
<1>4. \A i \in DOMAIN a : \/ i + k \in DOMAIN s /\ a[i] = s[i + k]
                          \/ a[i] = m /\ i = Len(a)
  BY <1>1, <1>2, <1>3
<1>5. \E i \in DOMAIN a : a[i] = m
  BY <1>2
<1>6. k = 0 => \A i \in DOMAIN s : i \in DOMAIN a /\ a[i] = s[i]
  BY <1>1, <1>2
<1> QED
  BY <1>2, <1>4, <1>5, <1>6 DEF a, r

LEMMA EnqueueShape ==
  ASSUME FollowupAssumption, TypeOK, NEW m \in Messages, NEW mode \in Modes,
         NEW policy \in DropPolicies, NEW isRunActive \in BOOLEAN,
         Enqueue(m, mode, policy, isRunActive)
  PROVE  \E q \in QueueIds, R \in Records, k \in Nat : Arrival(q, R, m, k)
<1> DEFINE unused == {p \in QueueIds : ~ InUse(p)}
           q == IF current = 0 THEN CHOOSE p \in unused : TRUE ELSE current
           Q == IF current = 0 THEN EmptyQueue(mode, policy)
                ELSE [queues[q] EXCEPT !.mode = mode, !.dropPolicy = policy]
           accepted == m \notin recent /\ m \notin Items(Q) /\ ~ Refused(Q)
           dropped == IF accepted THEN Overflow(Q) ELSE {}
           reported == IF policy = "summarize" THEN dropped ELSE {}
           k == IF accepted THEN DropCount(Q) ELSE 0
           A == [Q EXCEPT !.items = Append(Splice(@, DropCount(Q)), m), !.dropped = @ \cup reported]
           R == IF accepted THEN A ELSE Q
           st == Recheck(isRunActive, State(drains, q))
<1>1. /\ current = 0 => unused # {}
      /\ queues' = [queues EXCEPT ![q] = R]
      /\ recent' = IF accepted THEN recent \cup {m} ELSE recent
      /\ Becomes(st)
      /\ overflowed' = (overflowed \/ dropped # {})
      /\ UNCHANGED <<mainRun, turns, failures, clears>>
  BY Zenon DEF Enqueue
<1>2. fate' = [n \in Messages |->
          CASE n = m /\ accepted -> "waiting"
            [] n \in dropped \ {m} /\ fate[n] = "waiting" ->
                 IF n \in reported THEN "dropped" ELSE "discarded"
            [] OTHER -> fate[n]]
  BY Zenon DEF Enqueue
<1>3. /\ queues \in [QueueIds -> Records] /\ drains \in [QueueIds -> Loops]
      /\ current \in QueueIds \cup {0} /\ recent \subseteq Messages /\ overflowed \in BOOLEAN
      /\ fate \in [Messages -> Fates] /\ Cap \in Nat \ {0}
  BY DEF TypeOK, Records, Loops, Fates, FollowupAssumption
<1>4. accepted \in BOOLEAN
  OBVIOUS
<1>5. q \in QueueIds /\ (q = current \/ (current = 0 /\ ~ Draining(q)))
  <2>1. CASE current = 0
    <3>1. q \in unused
      BY <1>1, <2>1
    <3> QED
      BY <2>1, <3>1 DEF InUse
  <2>2. CASE current # 0
    BY <1>3, <2>2
  <2> QED
    BY <2>1, <2>2
<1> HIDE DEF unused, q
<1>6. Q \in Records /\ Q.items = (IF current = 0 THEN <<>> ELSE queues[q].items)
      /\ Q.dropped = (IF current = 0 THEN {} ELSE queues[q].dropped)
  <2>1. queues[q] \in Records /\ <<>> \in Seq(Messages)
    BY <1>3, <1>5
  <2> QED
    BY <2>1 DEF Records, EmptyQueue
<1> HIDE DEF Q
<1>7. Q.items \in Seq(Messages) /\ Q.dropped \subseteq Messages /\ Len(Q.items) \in Nat
  BY <1>6 DEF Records
<1>8. DropCount(Q) \in Nat /\ DropCount(Q) <= Len(Q.items)
  BY <1>3, <1>7 DEF DropCount
<1>9. Overflow(Q) \subseteq Messages /\ (Overflow(Q) = {} => DropCount(Q) = 0)
  <2>1. \A i \in 1 .. DropCount(Q) : i \in 1 .. Len(Q.items)
    BY <1>7, <1>8
  <2>2. \A i \in 1 .. DropCount(Q) : Q.items[i] \in Messages
    BY <1>7, <2>1
  <2>3. DropCount(Q) # 0 => 1 \in 1 .. DropCount(Q)
    BY <1>8
  <2> QED
    BY <2>2, <2>3 DEF Overflow
<1> HIDE DEF accepted
<1>10. k \in Nat /\ dropped \subseteq Messages /\ reported \subseteq dropped /\ (dropped = {} => k = 0)
  BY <1>4, <1>8, <1>9
<1>11. m \notin recent \/ ~ accepted
  BY DEF accepted
<1> DEFINE a == Append(Splice(Q.items, DropCount(Q)), m)
<1>12. /\ a \in Seq(Messages)
       /\ \A i \in DOMAIN a : \/ i + DropCount(Q) \in DOMAIN Q.items /\ a[i] = Q.items[i + DropCount(Q)]
                              \/ a[i] = m /\ i = Len(a)
       /\ \E i \in DOMAIN a : a[i] = m
       /\ DropCount(Q) = 0 => \A i \in DOMAIN Q.items : i \in DOMAIN a /\ a[i] = Q.items[i]
  <2> DEFINE s == Q.items
             d == DropCount(Q)
  <2>1. s \in Seq(Messages) /\ d \in Nat
    BY <1>7, <1>8
  <2> HIDE DEF s, d
  <2>2. /\ Append(Splice(s, d), m) \in Seq(Messages)
        /\ \A i \in DOMAIN Append(Splice(s, d), m) :
             \/ i + d \in DOMAIN s /\ Append(Splice(s, d), m)[i] = s[i + d]
             \/ Append(Splice(s, d), m)[i] = m /\ i = Len(Append(Splice(s, d), m))
        /\ \E i \in DOMAIN Append(Splice(s, d), m) : Append(Splice(s, d), m)[i] = m
        /\ d = 0 => \A i \in DOMAIN s : /\ i \in DOMAIN Append(Splice(s, d), m)
                                        /\ Append(Splice(s, d), m)[i] = s[i]
    BY <2>1, AppendSplice, Zenon
  <2> QED
    BY <2>2, Zenon DEF s, d
<1> HIDE DEF a
<1> HIDE DEF dropped, reported
<1>13. A \in Records /\ A.items = a /\ A.dropped = Q.dropped \cup reported
  <2>1. Q.dropped \cup reported \subseteq Messages
    BY <1>7, <1>10
  <2> QED
    BY <1>6, <1>12, <2>1 DEF Records, a
<1> HIDE DEF A
<1>14. R \in Records
  BY <1>6, <1>13
<1>15. \A i \in DOMAIN R.items :
         \/ current = q /\ i + k \in DOMAIN queues[q].items /\ R.items[i] = queues[q].items[i + k]
         \/ R.items[i] = m /\ i = Len(R.items) /\ m \notin recent /\ m \in recent'
  <2>1. \A i \in DOMAIN Q.items : current = q /\ queues[q].items = Q.items
    BY <1>5, <1>6
  <2>2. CASE accepted
    <3>1. R.items = a /\ k = DropCount(Q) /\ m \notin recent /\ m \in recent'
      BY <1>1, <1>11, <1>13, <2>2
    <3> QED
      BY <1>12, <2>1, <3>1
  <2>3. CASE ~ accepted
    <3>1. R.items = Q.items /\ k = 0
      BY <2>3
    <3>2. \A i \in DOMAIN Q.items : i + 0 = i
      BY <1>7
    <3> QED
      BY <2>1, <3>1, <3>2
  <2> QED
    BY <2>2, <2>3
<1>16. recent \subseteq recent' /\ recent' \subseteq Messages /\ overflowed' \in BOOLEAN
  BY <1>1, <1>3
<1>17. ASSUME NEW n \in Messages
       PROVE  /\ fate'[n] \in Fates
              /\ fate'[n] = "dropped" => fate[n] = "dropped" \/ dropped # {}
              /\ fate'[n] = "waiting" => fate[n] = "waiting" \/ (n = m /\ accepted)
  <2> DEFINE taken == n \in dropped \ {m} /\ fate[n] = "waiting"
             told == IF n \in reported THEN "dropped" ELSE "discarded"
  <2>1. fate'[n] = CASE n = m /\ accepted -> "waiting" [] taken -> told [] OTHER -> fate[n]
    BY <1>2, Zenon
  <2>2. told \in Fates /\ told # "waiting" /\ (taken => dropped # {} /\ n # m)
    BY DEF Fates
  <2> HIDE DEF taken, told
  <2>3. fate[n] \in Fates /\ "waiting" \in Fates
    BY <1>3 DEF Fates
  <2>4. CASE n = m /\ accepted
    <3>1. fate'[n] = "waiting"
      BY <2>1, <2>2, <2>4, Zenon
    <3> QED
      BY <2>3, <2>4, <3>1
  <2>5. CASE taken
    <3>1. fate'[n] = told
      BY <2>1, <2>2, <2>5, Zenon
    <3> QED
      BY <2>2, <2>5, <3>1
  <2>6. CASE ~ (n = m /\ accepted) /\ ~ taken
    <3>1. fate'[n] = fate[n]
      BY <2>1, <2>6, Zenon
    <3> QED
      BY <2>3, <3>1
  <2> QED
    BY <2>4, <2>5, <2>6
<1>18. fate' \in [Messages -> Fates]
  <2>1. DOMAIN fate' = Messages /\ fate' = [n \in Messages |-> fate'[n]]
    BY <1>2
  <2> QED
    BY <1>17, <2>1
<1>19. ASSUME ~ overflowed'
       PROVE  /\ ~ overflowed /\ R.dropped \in {{}, queues[q].dropped}
              /\ current = q => \A i \in DOMAIN queues[q].items :
                                  i \in DOMAIN R.items /\ R.items[i] = queues[q].items[i]
              /\ \A n \in Messages : fate'[n] = "dropped" => fate[n] = "dropped"
  <2>1. ~ overflowed /\ dropped = {}
    BY <1>1, <1>19
  <2>2. reported = {} /\ k = 0
    BY <1>10, <2>1
  <2>3. R.dropped = Q.dropped
    BY <1>13, <2>2
  <2>4. ASSUME current = q
        PROVE  \A i \in DOMAIN queues[q].items : i \in DOMAIN R.items /\ R.items[i] = queues[q].items[i]
    <3>1. Q.items = queues[q].items
      <4>1. current # 0
        BY <1>5, <2>4, NoQueueZero
      <4> QED
        BY <1>6, <4>1
    <3>2. CASE accepted
      <4>1. R.items = a /\ DropCount(Q) = 0
        BY <1>13, <2>2, <3>2
      <4> QED
        BY <1>12, <3>1, <4>1
    <3>3. CASE ~ accepted
      BY <3>1, <3>3
    <3> QED
      BY <3>2, <3>3
  <2> QED
    BY <1>6, <1>17, <2>1, <2>3, <2>4
<1>20. \A n \in Messages : fate'[n] = "waiting" =>
         fate[n] = "waiting" \/ (n = m /\ m \in Items(R) /\ m \notin recent)
  <2>1. accepted => m \in Items(R)
    BY <1>12, <1>13 DEF Items
  <2> QED
    BY <1>11, <1>17, <2>1
<1>21. Moves({}, drains, q, st)
  <2>1. CASE isRunActive
    <3>1. st.drains = drains /\ st.current = q
      BY <2>1 DEF Recheck, State
    <3> QED
      BY <1>3, <1>5, <3>1 DEF Moves, Sole
  <2>2. CASE ~ isRunActive
    BY <1>3, <1>5, <2>2, ScheduleMoves DEF Recheck
  <2> QED
    BY <2>1, <2>2
<1>22. \E s1 : Moves({}, drains, q, s1) /\ Becomes(s1)
  BY <1>1, <1>21
<1> HIDE DEF st, R, k
<1>23. Arrival(q, R, m, k)
  BY <1>1, <1>5, <1>15, <1>16, <1>18, <1>19, <1>20, <1>22 DEF Arrival
<1> QED
  BY <1>5, <1>10, <1>14, <1>23

LEMMA ArrivalStep ==
  ASSUME FollowupAssumption, Inv, NEW m \in Messages,
         NEW q \in QueueIds, NEW R \in Records, NEW k \in Nat, Arrival(q, R, m, k)
  PROVE  Inv'
<1>1. TypeOK
  BY DEF Inv
<1>2. queues \in [QueueIds -> Records] /\ drains \in [QueueIds -> Loops] /\ R.items \in Seq(Messages)
  BY <1>1 DEF TypeOK, Records, Loops
<1>3. /\ queues' \in [QueueIds -> Records] /\ queues'[q] = R
      /\ \A p \in QueueIds : p # q => queues'[p] = queues[p]
  BY <1>2 DEF Arrival
<1>4. /\ recent \subseteq recent' /\ recent' \subseteq Messages
      /\ UNCHANGED <<mainRun, turns, failures, clears>>
      /\ fate' \in [Messages -> Fates] /\ overflowed' \in BOOLEAN
      /\ (q = current \/ (current = 0 /\ ~ Draining(q)))
  BY DEF Arrival
<1>5. PICK st : Moves({}, drains, q, st) /\ Becomes(st)
  BY DEF Arrival
<1>6. /\ drains' \in [QueueIds -> Loops] /\ current' \in QueueIds \cup {0}
      /\ \A p \in QueueIds : \/ drains'[p] = drains[p]
                             \/ drains[p].pc = "idle" /\ drains'[p].pc # "running"
      /\ Sole(drains, q) =>
           /\ Sole(drains', current')
           /\ current' = q \/ (current' = 0 /\ ~ Work(R))
  BY <1>3, <1>5 DEF Moves, Becomes
<1>7. \A p \in QueueIds : (Running(p)' <=> Running(p)) /\ (Running(p) => drains'[p] = drains[p])
  BY <1>6 DEF Running
<1>8. TypeOK'
  BY <1>1, <1>3, <1>4, <1>6 DEF TypeOK, Records, Loops, Fates
<1>9. \A i \in DOMAIN R.items :
        \/ current = q /\ i + k \in DOMAIN queues[q].items /\ R.items[i] = queues[q].items[i + k]
        \/ R.items[i] = m /\ i = Len(R.items) /\ m \notin recent /\ m \in recent'
  BY DEF Arrival
<1>10. \A i \in DOMAIN R.items : i \in Nat
  BY <1>2
<1>11. \A p \in QueueIds : \A n \in Items(queues[p])' :
         n \in Items(queues[p]) \/ (n = m /\ m \notin recent /\ m \in recent')
  BY <1>3, <1>9 DEF Items
<1>12. Accepted'
  <2>1. \A p \in QueueIds : Items(queues[p])' \subseteq recent'
    BY <1>4, <1>11 DEF Inv, Accepted
  <2>2. \A p \in QueueIds : Running(p)' => drains'[p].turn \subseteq recent'
    BY <1>4, <1>7 DEF Inv, Accepted
  <2>3. \A n \in Messages \ recent' : turns'[n] = 0
    BY <1>4 DEF Inv, Accepted
  <2> QED
    BY <2>1, <2>2, <2>3 DEF Accepted
<1>13. Apart'
  <2>1. \A p \in QueueIds : \A i \in DOMAIN queues'[p].items :
          \/ \E j \in DOMAIN queues[p].items :
               queues'[p].items[i] = queues[p].items[j] /\ j = IF p = q THEN i + k ELSE i
          \/ p = q /\ queues'[p].items[i] = m /\ i = Len(R.items) /\ m \notin recent
    BY <1>3, <1>9
  <2>2. \A p \in QueueIds : \A j \in DOMAIN queues[p].items : queues[p].items[j] \in recent
    BY DEF Inv, Accepted, Items
  <2>3. ASSUME NEW p \in QueueIds, NEW r \in QueueIds,
               NEW i \in DOMAIN queues'[p].items, NEW l \in DOMAIN queues'[r].items,
               queues'[p].items[i] = queues'[r].items[l]
        PROVE  p = r /\ i = l
    <3>1. CASE queues'[p].items[i] \in recent
      <4>1. PICK i1 \in DOMAIN queues[p].items :
              queues'[p].items[i] = queues[p].items[i1] /\ i1 = IF p = q THEN i + k ELSE i
        BY <2>1, <3>1
      <4>2. PICK l1 \in DOMAIN queues[r].items :
              queues'[r].items[l] = queues[r].items[l1] /\ l1 = IF r = q THEN l + k ELSE l
        BY <2>1, <2>3, <3>1
      <4>3. queues[p].items[i1] = queues[r].items[l1] /\ Apart
        BY <2>3, <4>1, <4>2 DEF Inv
      <4>4. p = r /\ i1 = l1
        BY <4>3 DEF Apart
      <4>5. CASE p = q
        <5>1. i \in Nat /\ l \in Nat /\ i + k = l + k
          BY <1>3, <1>10, <4>1, <4>2, <4>4, <4>5
        <5> QED
          BY <4>4, <5>1
      <4>6. CASE p # q
        BY <4>1, <4>2, <4>4, <4>6
      <4> QED
        BY <4>5, <4>6
    <3>2. CASE queues'[p].items[i] \notin recent
      <4>1. p = q /\ i = Len(R.items)
        BY <2>1, <2>2, <3>2
      <4>2. r = q /\ l = Len(R.items)
        BY <2>1, <2>2, <2>3, <3>2
      <4> QED
        BY <4>1, <4>2
    <3> QED
      BY <3>1, <3>2
  <2> QED
    BY <2>3 DEF Apart
<1>14. Batch'
  <2>1. ASSUME NEW p \in QueueIds, Running(p)', NEW i \in DOMAIN queues'[p].items,
               queues'[p].items[i] \in drains'[p].turn
        PROVE  i <= drains'[p].remove
    <3>1. Running(p) /\ drains'[p] = drains[p]
      BY <1>7, <2>1
    <3>2. CASE p = q
      <4>1. R.items[i] \in drains[q].turn /\ i \in DOMAIN R.items /\ Running(q)
        BY <1>3, <2>1, <3>1, <3>2
      <4>2. R.items[i] \in recent
        BY <4>1 DEF Inv, Accepted
      <4>3. i + k \in DOMAIN queues[q].items /\ R.items[i] = queues[q].items[i + k]
        BY <1>9, <4>1, <4>2
      <4>4. i + k <= drains[q].remove
        BY <4>1, <4>3 DEF Inv, Batch
      <4>5. i \in Nat /\ drains[q].remove \in Nat
        BY <1>2, <1>10, <4>1 DEF Loops
      <4> QED
        BY <3>1, <3>2, <4>4, <4>5
    <3>3. CASE p # q
      BY <1>3, <2>1, <3>1, <3>3 DEF Inv, Batch
    <3> QED
      BY <3>2, <3>3
  <2> QED
    BY <2>1 DEF Batch
<1>15. Counted'
  <2>1. failures \in Nat
    BY <1>1 DEF TypeOK
  <2>2. ASSUME NEW p \in QueueIds, NEW n \in Items(queues[p])'
        PROVE  turns[n] <= failures \/ (Running(p)' /\ n \in drains'[p].turn)
    <3>1. CASE n \in Items(queues[p])
      <4>1. turns[n] <= failures \/ (Running(p) /\ n \in drains[p].turn)
        BY <3>1 DEF Inv, Counted
      <4> QED
        BY <1>7, <4>1
    <3>2. CASE n = m /\ m \notin recent
      <4>1. turns[n] = 0
        BY <3>2 DEF Inv, Accepted
      <4> QED
        BY <2>1, <4>1
    <3> QED
      BY <1>11, <3>1, <3>2
  <2>3. \A n \in Messages : turns[n] <= 1 + failures
    BY DEF Inv, Counted
  <2> QED
    BY <1>4, <2>2, <2>3 DEF Counted
<1>16. ASSUME Undisturbed'
       PROVE  Calm'
  <2>1. /\ ~ overflowed /\ R.dropped \in {{}, queues[q].dropped}
        /\ current = q => \A i \in DOMAIN queues[q].items :
                            i \in DOMAIN R.items /\ R.items[i] = queues[q].items[i]
        /\ \A n \in Messages : fate'[n] = "dropped" => fate[n] = "dropped"
    BY <1>16 DEF Arrival, Undisturbed
  <2>2. Calm
    BY <1>4, <1>16, <2>1 DEF Undisturbed, Inv
  <2>3. \A p \in QueueIds : Draining(p) => p = current /\ p = q
    BY <1>4, <2>2, NoQueueZero DEF Calm
  <2>4. /\ \A p \in QueueIds : drains'[p].pc # "idle" => p = current'
        /\ current' = q \/ (current' = 0 /\ ~ Work(R))
    BY <1>6, <2>3 DEF Sole, Draining
  <2>5. \A p \in QueueIds : queues'[p].dropped = {}
    BY <1>3, <2>1, <2>2 DEF Calm
  <2>6. \A p \in QueueIds : p # current' => queues'[p].items = <<>>
    BY <1>3, <1>4, <2>2, <2>4, NoQueueZero DEF Calm, Work
  <2>7. ASSUME NEW n \in Messages, fate'[n] = "waiting"
        PROVE  current' # 0 /\ n \in Items(queues[current])'
    <3>1. n \in Items(R)
      <4>1. fate[n] = "waiting" \/ (n = m /\ m \in Items(R))
        BY <2>7 DEF Arrival
      <4>2. ASSUME fate[n] = "waiting"
            PROVE  n \in Items(R)
        <5>1. current # 0 /\ n \in Items(queues[current])
          BY <2>2, <4>2 DEF Calm
        <5> QED
          BY <1>4, <2>1, <5>1 DEF Items
      <4> QED
        BY <4>1, <4>2
    <3>2. Work(R)
      BY <3>1 DEF Work, Items
    <3>3. current' = q
      BY <2>4, <3>2
    <3> QED
      BY <1>3, <3>1, <3>3, NoQueueZero DEF Items
  <2>8. \A n \in Messages : fate'[n] # "dropped"
    BY <2>1, <2>2 DEF Calm
  <2>9. ASSUME NEW p \in QueueIds, Running(p)'
        PROVE  /\ drains'[p].remove <= Len(queues'[p].items)
               /\ \A i \in 1 .. drains'[p].remove : fate'[queues'[p].items[i]] # "waiting"
    <3>1. Running(p) /\ drains'[p] = drains[p] /\ p = current /\ p = q
      BY <1>7, <2>3, <2>9 DEF Running, Draining
    <3>2. drains[q].remove <= Len(queues[q].items) /\ drains[q].remove \in Nat
          /\ queues[q].items \in Seq(Messages)
      BY <1>2, <2>2, <3>1 DEF Calm, Loops, Records
    <3>3. \A i \in 1 .. drains[q].remove :
            i \in DOMAIN queues[q].items /\ i \in DOMAIN R.items /\ R.items[i] = queues[q].items[i]
      BY <2>1, <3>1, <3>2
    <3>4. drains[q].remove <= Len(R.items)
      <4>1. drains[q].remove = 0 \/ drains[q].remove \in 1 .. drains[q].remove
        BY <3>2
      <4>2. DOMAIN R.items = 1 .. Len(R.items) /\ Len(R.items) \in Nat
        BY <1>2
      <4> QED
        BY <3>2, <3>3, <4>1, <4>2
    <3>5. ASSUME NEW i \in 1 .. drains[q].remove
          PROVE  fate'[R.items[i]] # "waiting"
      <4>1. fate[queues[q].items[i]] # "waiting"
        BY <2>2, <3>1 DEF Calm
      <4>2. queues[q].items[i] \in recent /\ queues[q].items[i] \in Messages
        BY <3>2, <3>3 DEF Inv, Accepted, Items
      <4>3. \A n \in Messages : fate'[n] = "waiting" => fate[n] = "waiting" \/ n \notin recent
        BY DEF Arrival
      <4> QED
        BY <3>3, <4>1, <4>2, <4>3
    <3> QED
      BY <1>3, <3>1, <3>4, <3>5
  <2> QED
    BY <2>4, <2>5, <2>6, <2>7, <2>8, <2>9 DEF Calm, Draining
<1> QED
  BY <1>8, <1>12, <1>13, <1>14, <1>15, <1>16 DEF Inv

(* The loop wakes: what it runs is the head of the queue or all of it.     *)
LEMMA HeadOnly ==
  ASSUME Inv, NEW q \in QueueIds, queues[q].items # <<>>
  PROVE  /\ {Head(queues[q].items)} \in SUBSET Messages
         /\ {Head(queues[q].items)} \subseteq Items(queues[q])
         /\ \A i \in DOMAIN queues[q].items : queues[q].items[i] \in {Head(queues[q].items)} => i <= 1
         /\ 1 <= Len(queues[q].items)
         /\ \A i \in 1 .. 1 : queues[q].items[i] \in {Head(queues[q].items)}
<1>1. queues[q].items \in Seq(Messages) /\ Apart
  BY DEF Inv, TypeOK
<1> DEFINE s == queues[q].items
<1>2. 1 \in DOMAIN s /\ Head(s) = s[1] /\ s[1] \in Messages /\ 1 <= Len(s)
  BY <1>1
<1>3. \A i \in DOMAIN s : s[i] = s[1] => i = 1
  BY <1>1, <1>2 DEF Apart
<1> QED
  BY <1>2, <1>3 DEF Items

LEMMA BreakStep ==
  ASSUME FollowupAssumption, Inv, NEW q \in QueueIds, drains[q].pc = "debounce", Break(q)
  PROVE  Inv'
<1>1. TypeOK
  BY DEF Inv
<1>2. drains \in [QueueIds -> Loops] /\ current \in QueueIds \cup {0}
  BY <1>1 DEF TypeOK, Loops
<1> DEFINE st == Finally(q, State(drains, current))
<1>3. Becomes(st) /\ UNCHANGED <<queues, recent, mainRun, fate, overflowed, turns, failures, clears>>
  BY DEF Break
<1>4. Moves({q}, drains, current, st)
  BY <1>2, FinallyMoves
<1> HIDE DEF st
<1>5. Draining(q) /\ ~ Running(q)
  BY DEF Draining, Running
<1>6. mainRun' \in BOOLEAN /\ failures' \in failures .. MaxFailures
      /\ fate' \in [Messages -> {"new", "waiting", "ran", "dropped", "announced", "discarded"}]
  BY <1>1, <1>3 DEF TypeOK, FollowupAssumption
<1> QED
  BY <1>3, <1>4, <1>5, <1>6, QuietStep

LEMMA WakeStep ==
  ASSUME FollowupAssumption, Inv, NEW q \in QueueIds, Wake(q)
  PROVE  Inv'
<1> DEFINE Q == queues[q]
<1>1. TypeOK
  BY DEF Inv
<1>2. /\ Q.items \in Seq(Messages) /\ Items(Q) \subseteq Messages /\ drains[q].force \in BOOLEAN
      /\ HasSummary(Q) \in BOOLEAN
  BY <1>1 DEF TypeOK, Items, HasSummary
<1>3. drains[q].pc = "debounce"
  BY DEF Wake, RunIndividually, RunCollected, RunNext
<1>4. CASE Break(q)
  BY <1>3, <1>4, BreakStep
<1>5. Q.items # <<>> => {Head(Q.items)} \in SUBSET Messages /\ Batched(q, {Head(Q.items)}, 1)
  <2>1. SUFFICES ASSUME Q.items # <<>>
                 PROVE  {Head(Q.items)} \in SUBSET Messages /\ Batched(q, {Head(Q.items)}, 1)
    OBVIOUS
  <2>2. Batched(q, {Head(Q.items)}, 1)
    BY <2>1, HeadOnly DEF Batched
  <2> QED
    BY <2>2 DEF Batched
<1>6. Items(Q) \in SUBSET Messages /\ Len(Q.items) \in Nat /\ Batched(q, Items(Q), Len(Q.items))
  <2>1. Len(Q.items) \in Nat /\ DOMAIN Q.items = 1 .. Len(Q.items)
    BY <1>2
  <2>2. \A i \in DOMAIN Q.items : i <= Len(Q.items) /\ Q.items[i] \in Items(Q)
    BY <2>1 DEF Items
  <2> QED
    BY <1>2, <2>1, <2>2 DEF Batched
<1>7. HasSummary(Q) /\ Q.items # <<>> => {} \in SUBSET Messages /\ Batched(q, {}, 1)
  BY DEF HasSummary, Batched
<1>8. ASSUME NEW ms \in SUBSET Messages, NEW remove \in Nat, NEW summary \in BOOLEAN,
             NEW force \in BOOLEAN, Run(q, ms, remove, summary, force), Batched(q, ms, remove)
      PROVE  Inv'
  <2>1. \E ms1 \in SUBSET Messages, remove1 \in Nat, summary1 \in BOOLEAN, force1 \in BOOLEAN :
          Run(q, ms1, remove1, summary1, force1) /\ Batched(q, ms1, remove1)
    BY <1>8, Zenon
  <2> QED
    BY <1>3, <2>1, RunStep
<1>9. CASE RunIndividually(q)
  <2>1. Break(q) \/ (Q.items # <<>> /\ Run(q, {Head(Q.items)}, 1, FALSE, TRUE))
    BY <1>9 DEF RunIndividually
  <2>2. 1 \in Nat /\ FALSE \in BOOLEAN /\ TRUE \in BOOLEAN
    OBVIOUS
  <2> QED
    BY <1>4, <1>5, <1>8, <2>1, <2>2, Zenon
<1>10. CASE RunCollected(q)
  <2>1. Break(q) \/ Run(q, Items(Q), Len(Q.items), HasSummary(Q), FALSE)
    BY <1>10 DEF RunCollected
  <2>2. FALSE \in BOOLEAN
    OBVIOUS
  <2> QED
    BY <1>2, <1>4, <1>6, <1>8, <2>1, <2>2, Zenon
<1>11. CASE RunNext(q)
  <2> DEFINE ms == IF HasSummary(Q) THEN {} ELSE {Head(Q.items)}
  <2>1. Break(q) \/ (Q.items # <<>> /\ Run(q, ms, 1, HasSummary(Q), drains[q].force))
    BY <1>11 DEF RunNext
  <2>2. 1 \in Nat
    OBVIOUS
  <2>3. Q.items # <<>> => ms \in SUBSET Messages /\ Batched(q, ms, 1)
    BY <1>5, <1>7
  <2> HIDE DEF ms
  <2> QED
    BY <1>2, <1>4, <1>8, <2>1, <2>2, <2>3, Zenon
<1> QED
  BY <1>9, <1>10, <1>11 DEF Wake

(* A turn throws: what it was for and is still in the queue waits again.   *)
LEMMA TurnFailsStep ==
  ASSUME FollowupAssumption, Inv, NEW q \in QueueIds, TurnFails(q)
  PROVE  Inv'
<1> DEFINE Q == queues[q]
           st == Finally(q, State(drains, current))
<1>1. TypeOK
  BY DEF Inv
<1>2. drains \in [QueueIds -> Loops] /\ current \in QueueIds \cup {0}
      /\ failures \in Nat /\ MaxFailures \in Nat /\ mainRun \in BOOLEAN /\ fate \in [Messages -> Fates]
  BY <1>1 DEF TypeOK, Loops, FollowupAssumption, Fates
<1>3. /\ Running(q) /\ failures < MaxFailures /\ failures' = failures + 1
      /\ Becomes(st) /\ queues' = queues /\ UNCHANGED <<recent, mainRun, overflowed, turns, clears>>
  BY DEF TurnFails, Running
<1>4. fate' = [n \in Messages |->
       CASE n \in drains[q].turn \cap Items(Q) -> "waiting"
         [] /\ n \in Q.dropped \ (drains[q].turn \cap Items(Q))
            /\ n \in drains[q].turn \/ fate[n] = "announced" -> "dropped"
         [] n \in drains[q].turn \ (Items(Q) \cup Q.dropped) -> "discarded"
         [] OTHER -> fate[n]]
  BY Zenon DEF TurnFails
<1>5. Moves({q}, drains, current, st)
  BY <1>2, FinallyMoves
<1> HIDE DEF st
<1>6. Draining(q)
  BY <1>3 DEF Running, Draining
<1>7. failures' \in failures .. MaxFailures
  BY <1>2, <1>3
<1>8. ASSUME NEW n \in Messages
      PROVE  /\ fate'[n] \in Fates
             /\ fate'[n] = "waiting" => fate[n] = "waiting" \/ n \in Items(queues[q])
             /\ fate'[n] = "dropped" => fate[n] = "dropped" \/ n \in queues[q].dropped
  <2> DEFINE back == n \in drains[q].turn \cap Items(Q)
             untold == /\ n \in Q.dropped \ (drains[q].turn \cap Items(Q))
                       /\ n \in drains[q].turn \/ fate[n] = "announced"
             gone == n \in drains[q].turn \ (Items(Q) \cup Q.dropped)
  <2>1. fate'[n] = CASE back -> "waiting" [] untold -> "dropped" [] gone -> "discarded" [] OTHER -> fate[n]
    BY <1>4, Zenon
  <2>2. /\ ~ (back /\ untold) /\ ~ (back /\ gone) /\ ~ (untold /\ gone)
        /\ (back => n \in Items(Q)) /\ (untold => n \in Q.dropped)
    OBVIOUS
  <2> HIDE DEF back, untold, gone
  <2>3. fate[n] \in Fates /\ {"waiting", "dropped", "discarded"} \subseteq Fates
    BY <1>2 DEF Fates
  <2>4. CASE back
    <3>1. fate'[n] = "waiting"
      BY <2>1, <2>2, <2>4, Zenon
    <3> QED
      BY <2>2, <2>3, <2>4, <3>1
  <2>5. CASE untold
    <3>1. fate'[n] = "dropped"
      BY <2>1, <2>2, <2>5, Zenon
    <3> QED
      BY <2>2, <2>3, <2>5, <3>1
  <2>6. CASE gone
    <3>1. fate'[n] = "discarded"
      BY <2>1, <2>2, <2>6, Zenon
    <3> QED
      BY <2>3, <3>1
  <2>7. CASE ~ back /\ ~ untold /\ ~ gone
    <3>1. fate'[n] = fate[n]
      BY <2>1, <2>7, Zenon
    <3> QED
      BY <2>3, <3>1
  <2> QED
    BY <2>4, <2>5, <2>6, <2>7
<1>9. fate' \in [Messages -> {"new", "waiting", "ran", "dropped", "announced", "discarded"}]
  <2>1. DOMAIN fate' = Messages /\ fate' = [n \in Messages |-> fate'[n]]
    BY <1>4
  <2> QED
    BY <1>8, <2>1 DEF Fates
<1> QED
  BY <1>2, <1>3, <1>5, <1>6, <1>7, <1>8, <1>9, QuietStep

(* A turn outside the drain starts or ends, or nothing happens.            *)
LEMMA OtherStep ==
  ASSUME FollowupAssumption, Inv, MainRunEnds \/ MainRunStarts \/ UNCHANGED vars
  PROVE  Inv'
<1>1. TypeOK
  BY DEF Inv
<1>2. drains \in [QueueIds -> Loops] /\ current \in QueueIds \cup {0}
  BY <1>1 DEF TypeOK, Loops
<1>3. \E st : Moves({}, drains, current, st) /\ Becomes(st)
  <2>1. CASE MainRunEnds
    BY <1>2, <2>1, ScheduleMoves DEF MainRunEnds
  <2>2. CASE MainRunStarts \/ UNCHANGED vars
    <3>1. Becomes(State(drains, current))
      BY <2>2 DEF Becomes, State, MainRunStarts, vars
    <3>2. Moves({}, drains, current, State(drains, current))
      BY <1>2 DEF Moves, State, Sole
    <3> QED
      BY <3>1, <3>2
  <2> QED
    BY <2>1, <2>2
<1>4. PICK st : Moves({}, drains, current, st) /\ Becomes(st)
  BY <1>3
<1>5. /\ queues' = queues /\ UNCHANGED <<recent, overflowed, turns, clears, failures, fate>>
      /\ mainRun' \in BOOLEAN
  BY <1>1 DEF MainRunEnds, MainRunStarts, vars, TypeOK
<1>6. failures' \in failures .. MaxFailures
  BY <1>1, <1>5 DEF TypeOK, FollowupAssumption
<1>7. fate' \in [Messages -> {"new", "waiting", "ran", "dropped", "announced", "discarded"}]
  BY <1>1, <1>5 DEF TypeOK
<1> QED
  BY <1>4, <1>5, <1>6, <1>7, QuietStep

LEMMA InitInv == ASSUME FollowupAssumption, Init PROVE Inv
<1> DEFINE mode == CHOOSE mode \in Modes : TRUE
           policy == CHOOSE policy \in DropPolicies : TRUE
<1>1. mode \in Modes /\ policy \in DropPolicies
  BY DEF FollowupAssumption
<1>2. queues = [q \in QueueIds |-> EmptyQueue(mode, policy)]
  BY DEF Init
<1> HIDE DEF mode, policy
<1>3. EmptyQueue(mode, policy) \in Records /\ EmptyQueue(mode, policy).items = <<>>
      /\ EmptyQueue(mode, policy).dropped = {}
  BY <1>1 DEF EmptyQueue, Records
<1>4. \A q \in QueueIds : queues[q].items = <<>> /\ queues[q].dropped = {}
  BY <1>2, <1>3
<1>5. queues \in [QueueIds -> Records]
  BY <1>2, <1>3
<1>6. \A q \in QueueIds : drains[q] = Idle /\ Idle \in Loops /\ Idle.pc = "idle"
  BY IdleLoops DEF Init
<1>7. \A q \in QueueIds : ~ Running(q) /\ ~ Draining(q)
  BY <1>6 DEF Running, Draining
<1>8. drains \in [QueueIds -> Loops]
  BY IdleLoops DEF Init
<1>9. TypeOK
  <2>1. /\ current \in QueueIds \cup {0} /\ recent \subseteq Messages /\ mainRun \in BOOLEAN
        /\ fate \in [Messages -> {"new", "waiting", "ran", "dropped", "announced", "discarded"}]
        /\ overflowed \in BOOLEAN /\ turns \in [Messages -> Nat]
    BY DEF Init
  <2>2. failures \in 0 .. MaxFailures /\ clears \in 0 .. MaxClears
    BY DEF Init, FollowupAssumption
  <2> QED
    BY <1>5, <1>8, <2>1, <2>2 DEF TypeOK, Records, Loops
<1>10. \A q \in QueueIds : Items(queues[q]) = {}
  BY <1>4 DEF Items
<1>11. Accepted /\ Batch
  BY <1>7, <1>10 DEF Init, Accepted, Batch
<1>12. Apart
  BY <1>4 DEF Apart
<1>13. Counted
  BY <1>10 DEF Init, Counted
<1>14. Calm
  BY <1>4, <1>7 DEF Init, Calm
<1> QED
  BY <1>9, <1>11, <1>12, <1>13, <1>14 DEF Inv

LEMMA StepInv == ASSUME FollowupAssumption, Inv, [Next]_vars PROVE Inv'
<1>1. TypeOK
  BY DEF Inv
<1>2. ASSUME NEW m \in Messages, NEW mode \in Modes, NEW policy \in DropPolicies,
             NEW active \in BOOLEAN, Enqueue(m, mode, policy, active)
      PROVE  Inv'
  <2>1. PICK q \in QueueIds, R \in Records, k \in Nat : Arrival(q, R, m, k)
    BY <1>1, <1>2, EnqueueShape
  <2> QED
    BY <2>1, ArrivalStep
<1>3. CASE Clear
  BY <1>3, ClearStep
<1>4. ASSUME NEW q \in QueueIds, Wake(q) \/ TurnEnds(q) \/ TurnFails(q)
      PROVE  Inv'
  BY <1>4, WakeStep, TurnEndsStep, TurnFailsStep
<1>5. CASE MainRunEnds \/ MainRunStarts \/ UNCHANGED vars
  BY <1>5, OtherStep
<1> QED
  BY <1>2, <1>3, <1>4, <1>5 DEF Next

LEMMA Invariance == Spec => []Inv
<1>1. Init => Inv
  BY FollowupAssumption, InitInv
<1>2. Inv /\ [Next]_vars => Inv'
  BY FollowupAssumption, StepInv
<1> QED
  BY <1>1, <1>2, PTL DEF Spec

-----------------------------------------------------------------------------
(* The fields of queues and drain loops, the registry, the counters and    *)
(* the history keep their types in every behaviour of the queue.           *)
THEOREM TypesHold == Spec => []TypeOK
<1>1. Inv => TypeOK
  BY DEF Inv
<1> QED
  BY <1>1, Invariance, PTL

(* As long as nothing is dropped by the overflow policy or cleared, every  *)
(* accepted message that has not had its turn is in the registered queue,  *)
(* for any number of redeliveries, failing turns and restarted drains: the *)
(* count taken off the head when a turn has ended covers no message that   *)
(* came while it ran, and the finally block deletes no other queue's key.  *)
THEOREM NothingLost == Spec => []NothingLostBelowCap
<1>1. ASSUME Inv, Undisturbed, NEW m \in Messages, fate[m] \in {"waiting", "dropped"}
      PROVE  Served(m)
  <2>1. Calm /\ current \in QueueIds \cup {0}
    BY <1>1 DEF Inv, TypeOK
  <2>2. fate[m] = "waiting" /\ current \in QueueIds /\ m \in Items(queues[current])
    BY <1>1, <2>1 DEF Calm
  <2> QED
    BY <2>2 DEF Served, InUse
<1>2. Inv => NothingLostBelowCap
  BY <1>1 DEF NothingLostBelowCap, AllAccountedFor
<1> QED
  BY <1>2, Invariance, PTL

(* A message is part of a second turn only after a turn has failed, also   *)
(* when queues overflow or are cleared while a turn runs.                  *)
THEOREM RunOnce == Spec => []RunOnceUnlessFailed
<1>1. Inv => RunOnceUnlessFailed
  BY DEF Inv, Counted, RunOnceUnlessFailed
<1> QED
  BY <1>1, Invariance, PTL
=============================================================================

----------------------------- MODULE LaneService -----------------------------
(***************************************************************************)
(* What a caller of the command queue is promised, without slots, caps,    *)
(* generations, drains or waiters: a command that is accepted waits in its *)
(* lane, the commands of a lane are started in the order in which they     *)
(* were accepted, none is started twice, and the promise of each is        *)
(* settled at most once, by its own task or by a clear of the lane.        *)
(* CommandLanes implements it.                                             *)
(***************************************************************************)
EXTENDS Naturals, Sequences

CONSTANTS Commands, Lanes

VARIABLES pending,  \* pending[l]: the accepted commands of lane l, oldest first
          stage     \* stage[c]: where the command is in its life

svars == <<pending, stage>>

Init == /\ pending = [l \in Lanes |-> <<>>]
        /\ stage = [c \in Commands |-> "new"]

(* From the pending queues p and the stages s every lane may start a       *)
(* number of commands of its own, always from the head of its queue.       *)
Serve(p, s) ==
  \E k \in [Lanes -> UNION {0 .. Len(p[l]) : l \in Lanes}] :
    /\ \A l \in Lanes : k[l] <= Len(p[l])
    /\ pending' = [l \in Lanes |-> SubSeq(p[l], k[l] + 1, Len(p[l]))]
    /\ stage' = [c \in Commands |->
                  IF \E l \in Lanes : \E i \in 1 .. k[l] : p[l][i] = c
                  THEN "running" ELSE s[c]]

(* A new command is accepted behind those already waiting in the lane. *)
Submit(c) ==
  /\ stage[c] = "new"
  /\ \E l \in Lanes : Serve([pending EXCEPT ![l] = Append(@, c)],
                           [stage EXCEPT ![c] = "queued"])

(* The service may refuse a new command; a refused command never runs. *)
Refuse(c) ==
  /\ stage[c] = "new"
  /\ stage' = [stage EXCEPT ![c] = "refused"]
  /\ UNCHANGED pending

(* The task of a running command ends and settles the command's promise. *)
Settle(c) ==
  /\ stage[c] = "running"
  /\ \E r \in {"resolved", "rejected"} : Serve(pending, [stage EXCEPT ![c] = r])

(* All commands waiting in a lane are given up at once. *)
Discard(l) ==
  /\ pending' = [pending EXCEPT ![l] = <<>>]
  /\ stage' = [c \in Commands |->
                IF \E i \in 1 .. Len(pending[l]) : pending[l][i] = c
                THEN "cleared" ELSE stage[c]]

(* More room was found, by a larger cap or a restart. *)
Resume == Serve(pending, stage)

Next == \/ \E c \in Commands : Submit(c) \/ Refuse(c) \/ Settle(c)
        \/ \E l \in Lanes : Discard(l)
        \/ Resume

Spec == Init /\ [][Next]_svars
=============================================================================

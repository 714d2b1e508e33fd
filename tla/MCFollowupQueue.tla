--------------------------- MODULE MCFollowupQueue ---------------------------
(* Three messages, two of them with one target; a queue of two. *)
EXTENDS FollowupQueue, TLC

CONSTANTS m1, m2, m3

MCMessages == {m1, m2, m3}
MCRouteOf == (m1 :> "chat") @@ (m2 :> "chat") @@ (m3 :> "thread")
MCOneRoute == [m \in MCMessages |-> "chat"]
=============================================================================

--------------------------- MODULE MCDeliveryQueue ---------------------------
(* Finite instances of DeliveryQueue for TLC. *)
EXTENDS DeliveryQueue

CONSTANTS first, second, drain  \* the workers

MCNone == {}
MCFirst == {1}
MCOneStart == {first}
MCTwoStarts == {first, second}
MCOneDrain == {drain}
MCOnFirst == [w \in Drains |-> {1}]

=============================================================================

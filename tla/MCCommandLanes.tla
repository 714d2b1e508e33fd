--------------------------- MODULE MCCommandLanes ---------------------------
(* The command queue with a few commands, two lanes, up to two slots per    *)
(* lane, one in-process restart and one caller of waitForActiveTasks.       *)
EXTENDS CommandLanes, TLC

MCMaxCap == 2
MCMaxGeneration == 1

(* Commands are interchangeable: no definition tells one from another. *)
CommandSymmetry == Permutations(Commands)
=============================================================================

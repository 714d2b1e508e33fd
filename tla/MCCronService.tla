---------------------------- MODULE MCCronService ----------------------------
(* A repeating job and a one-shot job. *)
EXTENDS CronService, TLC

MCScheduleOf ==
  (1 :> [kind |-> "cron", time |-> 2, deleteAfterRun |-> FALSE])
  @@ (2 :> [kind |-> "at", time |-> 2, deleteAfterRun |-> TRUE])
=============================================================================

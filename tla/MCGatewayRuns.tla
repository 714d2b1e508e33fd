--------------------------- MODULE MCGatewayRuns ---------------------------
(* A reply run and a cron run of one session and a reply run of another,  *)
(* one slot in the main lane, one in-process restart.                     *)
EXTENDS GatewayRuns

MCRuns == {"r1", "r2", "r3"}
MCSessions == {"session:a", "session:b"}
MCCronRuns == {"r3"}
MCSessionOf == [r \in MCRuns |-> IF r = "r2" THEN "session:b" ELSE "session:a"]
=============================================================================

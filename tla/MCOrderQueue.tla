---------------------------- MODULE MCOrderQueue ----------------------------
(* Small instances of OrderQueue.  Five runs carry three orders: each order *)
(* is submitted once, and two of them may be filed and spawned again.       *)
EXTENDS OrderQueue

Deaths == {"kill", "abort"}
Races == {"race"}
Starvation == {"starve"}
Telemetry == {"telemetry"}
Everything == AdverseEvents
=============================================================================

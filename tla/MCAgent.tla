------------------------------ MODULE MCAgent ------------------------------
(* Small instances of Agent for TLC.  The worker heads the ring of c1 and is *)
(* second in the ring of c2.                                                 *)
EXTENDS Agent, TLC

CONSTANTS c1, c2, home, away

MCClusters == {c1, c2}
MCRank == c1 :> 0 @@ c2 :> 1
OneHost == {home}
TwoHosts == {home, away}

\* Disturbances of a service life without restarts.
ServiceEvents == {"drop", "rest", "wg", "launch", "exit", "revoke", "down", "show", "pkill"}
\* ... and of a life with restarts, the host moving only while it is down.
RestartEvents == Kinds \ {"drift"}
\* Disturbances the liveness properties are to survive.
LiveEvents == {"drop", "exit", "crash", "stop"}
NoEvents == {}
StopOnly == {"stop"}
CrashOnly == {"crash"}
LaunchOnly == {"launch"}
=============================================================================

--------------------------- MODULE MCRelayMonitor ---------------------------
(* Two clusters: c1 with a plain peer, a peer marked for the relay and the   *)
(* server, c2 with a plain peer; this worker is in both.                     *)
EXTENDS RelayMonitor, TLC

CONSTANTS c1, c2, own1, own2, plain, marked, server, other

MCClusters == {c1, c2}
MCEntries == {own1, own2, plain, marked, server, other}
MCListed == c1 :> {plain, marked, server} @@ c2 :> {other}
MCOwn == c1 :> own1 @@ c2 :> own2
MCServers == {server}
MCPreferred == {marked}
=============================================================================

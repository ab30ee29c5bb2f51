------------------------------- MODULE MCPool -------------------------------
(* Three workers and two clusters.  The configs have three and two members in *)
(* different orders, with the server's peer between them and before them.  w1 *)
(* heads the one and is second in the other, and things go wrong there only.  *)
(* A frame carries the address and may carry the position.                    *)
EXTENDS Pool

CONSTANTS w1, w2, w3

MCWorkers == {w1, w2, w3}
MCConfigs == {<<w1, Server, w3, w2>>, <<Server, w2, w1>>}
MCCarries == {{"assigned_ip"}, {"assigned_ip", "ring_position"}}
MCFlaky == {w1}
=============================================================================

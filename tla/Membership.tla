----------------------------- MODULE Membership -----------------------------
(***************************************************************************)
(* What a worker machine promises the ring it serves in, whatever happens  *)
(* to the agent: it is in at most one cluster at a time, enters one only   *)
(* when nothing of an earlier one is left, runs at most one prima.cpp and  *)
(* starts it only over the tunnel of its cluster, and says "ready" only    *)
(* for the cluster it is in.                                               *)
(***************************************************************************)
CONSTANTS Clusters, Ranks, NoCluster

VARIABLES
    tunnel,  \* the cluster whose network the machine is part of
    serving, \* its prima.cpp processes: [cluster, rank]
    ready    \* clusters it was accepted as ready in

vars == <<tunnel, serving, ready>>

Init == tunnel = NoCluster /\ serving = {} /\ ready = {}

Join(c) ==
    /\ tunnel = NoCluster /\ serving = {}
    /\ tunnel' = c /\ UNCHANGED <<serving, ready>>

Serve(r) ==
    /\ tunnel # NoCluster /\ serving = {}
    /\ serving' = {[cluster |-> tunnel, rank |-> r]} /\ UNCHANGED <<tunnel, ready>>

BecomeReady ==
    /\ tunnel # NoCluster
    /\ ready' = ready \cup {tunnel} /\ UNCHANGED <<tunnel, serving>>

\* The process may outlive the tunnel for a moment, or die before it.
Leave ==
    /\ tunnel' \in {tunnel, NoCluster} /\ serving' \in {serving, {}}
    /\ UNCHANGED ready

Next ==
    \/ \E c \in Clusters : Join(c)
    \/ \E r \in Ranks : Serve(r)
    \/ BecomeReady \/ Leave

Spec == Init /\ [][Next]_vars
=============================================================================

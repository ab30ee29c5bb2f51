-------------------------------- MODULE Ring --------------------------------
(***************************************************************************)
(* The ring of prima.cpp nodes as each member computes it from the cluster *)
(* config (prima.py, agent.py).  A peer of a config is named by its owner, *)
(* which stands for its key and for its address; the control plane may be  *)
(* one of the peers, anywhere in the list.  Ranks count from 0.            *)
(***************************************************************************)
EXTENDS Naturals, Sequences

CONSTANT Server \* the peer with role "server"

RingMembers(peers) == SelectSeq(peers, LAMBDA p : p # Server)

Members(peers) == {RingMembers(peers)[i] : i \in DOMAIN RingMembers(peers)}

\* Mutant: the index is taken among all peers.
FindRingPosition_AmongPeers(peers, me) ==
    IF me \in Members(peers) THEN (CHOOSE i \in DOMAIN peers : peers[i] = me) - 1 ELSE 0

\* Mutant: ranks count from 1.
FindRingPosition_FromOne(peers, me) ==
    LET ring == RingMembers(peers)
    IN  IF me \in Members(peers) THEN CHOOSE i \in DOMAIN ring : ring[i] = me ELSE 0

\* Whoever does not find its own address takes itself for the head.
FindRingPosition(peers, me) ==
    LET ring == RingMembers(peers)
    IN  IF me \in Members(peers) THEN (CHOOSE i \in DOMAIN ring : ring[i] = me) - 1 ELSE 0

\* Mutant: the successor is looked up among all peers.
RingNeighbors_AmongPeers(peers, position) ==
    [master |-> RingMembers(peers)[1], next |-> peers[((position + 1) % Len(peers)) + 1]]

\* Mutant: the ring is followed backwards.
RingNeighbors_Predecessor(peers, position) ==
    LET ring == RingMembers(peers)
    IN  [master |-> ring[1], next |-> ring[((position + Len(ring) - 1) % Len(ring)) + 1]]

RingNeighbors(peers, position) ==
    LET ring == RingMembers(peers)
    IN  [master |-> ring[1], next |-> ring[((position + 1) % Len(ring)) + 1]]

\* What prima.cpp is started with.
BuildEnv(peers, position) ==
    [rank |-> position, world |-> Len(RingMembers(peers)),
     master |-> RingNeighbors(peers, position).master,
     next |-> RingNeighbors(peers, position).next]
=============================================================================

--------------------------- MODULE PoolLiveProofs ---------------------------
(***************************************************************************)
(* That a live ring is whole and closed: when the control plane has        *)
(* counted every member as ready, each of them has started its place of    *)
(* this very ring and has not stopped it, although it left an earlier one  *)
(* and may be told to leave this one.  Whether what it has started still   *)
(* runs is not known to anybody: a prima.cpp that ends by itself is a step *)
(* of Pool, and nothing here excludes it.                                  *)
(***************************************************************************)
EXTENDS PoolProofs, WellFoundedInduction

-----------------------------------------------------------------------------
(* The ring of one config *)

LEMMA MembersCount ==
    ASSUME NEW peers \in Configs
    PROVE  Cardinality(Members(peers)) = Len(RingMembers(peers))
<1> DEFINE ring == RingMembers(peers)
<1>1. /\ ring \in Seq(Workers) /\ Len(ring) \in Nat
      /\ \A i, j \in DOMAIN ring : ring[i] = ring[j] => i = j
    BY RingFacts
<1>2. Members(peers) = {ring[i] : i \in DOMAIN ring}
    BY DEF Members
<1> HIDE DEF ring
<1>3. ring \in Bijection(1..Len(ring), {ring[i] : i \in 1..Len(ring)})
    <2>1. ring \in [1..Len(ring) -> {ring[i] : i \in 1..Len(ring)}]
        BY <1>1
    <2>2. \A i, j \in 1..Len(ring) : ring[i] = ring[j] => i = j
        BY <1>1
    <2> QED
        BY <2>1, <2>2 DEF Bijection, Injection, Surjection, IsInjective
<1>4. IsFiniteSet(1..Len(ring)) /\ Cardinality(1..Len(ring)) = Len(ring)
    BY <1>1, FS_Interval
<1>5. Cardinality({ring[i] : i \in 1..Len(ring)}) = Len(ring)
    BY <1>3, <1>4, FS_Bijection DEF ExistsBijection
<1>6. DOMAIN ring = 1..Len(ring)
    BY <1>1
<1> QED
    BY <1>2, <1>5, <1>6 DEF ring

\* The places of the ring are taken in order, and each by one member.
LEMMA PlacesInRing ==
    ASSUME NEW peers \in Configs, NEW k \in 0..(Len(RingMembers(peers)) - 1)
    PROVE  /\ RingMembers(peers)[k + 1] \in Members(peers)
           /\ FindRingPosition(peers, RingMembers(peers)[k + 1]) = k
<1> DEFINE ring == RingMembers(peers)
           w == ring[k + 1]
<1>1. /\ ring \in Seq(Workers) /\ Len(ring) \in Nat \ {0}
      /\ \A i, j \in DOMAIN ring : ring[i] = ring[j] => i = j
    BY RingFacts, FS_CardinalityType, WorkersAssumption
<1>2. Members(peers) = {ring[i] : i \in DOMAIN ring}
    BY DEF Members
<1> HIDE DEF ring
<1>3. k + 1 \in DOMAIN ring /\ w \in Members(peers)
    BY <1>1, <1>2 DEF ring
<1>4. FindRingPosition(peers, w) \in 0..(Len(ring) - 1) /\ ring[FindRingPosition(peers, w) + 1] = w
    BY <1>3, PlaceFacts DEF ring
<1>5. FindRingPosition(peers, w) + 1 \in DOMAIN ring
    BY <1>1, <1>4
<1>6. FindRingPosition(peers, w) = k
    BY <1>1, <1>3, <1>4, <1>5
<1> QED
    BY <1>3, <1>6 DEF ring

\* A member's successor is the member with the next rank; the head has rank 0.
LEMMA SuccessorFacts ==
    ASSUME NEW peers \in Configs, NEW rank \in 0..(Len(RingMembers(peers)) - 1)
    PROVE  /\ Successor(peers, rank) \in Members(peers)
           /\ FindRingPosition(peers, Successor(peers, rank)) =
                  (rank + 1) % Len(RingMembers(peers))
           /\ RingMembers(peers)[1] \in Members(peers)
           /\ FindRingPosition(peers, RingMembers(peers)[1]) = 0
<1> DEFINE next == (rank + 1) % Len(RingMembers(peers))
<1>1. Len(RingMembers(peers)) \in Nat \ {0}
    BY RingFacts, FS_CardinalityType, WorkersAssumption
<1>2. next \in 0..(Len(RingMembers(peers)) - 1) /\ 0 \in 0..(Len(RingMembers(peers)) - 1)
    BY <1>1
<1>3. Successor(peers, rank) = RingMembers(peers)[next + 1]
    BY DEF Successor
<1> HIDE DEF next
<1>4. /\ RingMembers(peers)[0 + 1] \in Members(peers)
      /\ FindRingPosition(peers, RingMembers(peers)[0 + 1]) = 0
    BY <1>2, PlacesInRing
<1>5. /\ RingMembers(peers)[next + 1] \in Members(peers)
      /\ FindRingPosition(peers, RingMembers(peers)[next + 1]) = next
    BY <1>2, PlacesInRing
<1>6. 0 + 1 = 1
    OBVIOUS
<1> QED
    BY <1>3, <1>4, <1>5, <1>6 DEF next

-----------------------------------------------------------------------------
(* The inductive invariant *)

\* A cluster is there for all its members or for none.
WholeInv == \A c \in Clusters : Exists(c) => \A w \in Members(configs[c]) : assigned[w] = c

\* Nobody has reported ready in a cluster that is not formed yet.
UnformedInv == \A c \in Clusters : configs[c] = <<>> => ready[c] = {}

Dissolves(w, i) == chan[w][i].type = "cluster_dissolved"
Pending(w) == \E i \in 1..Len(chan[w]) : Dissolves(w, i)

\* Whoever is about to report has started what it reports; whoever has a dissolve to
\* handle has nothing going on in the cluster it is in; and an assignment with a
\* dissolve behind it is over.
LiveInv(w) ==
    /\ pc[w] = "report" => Started(w, mem[w].cluster)
    /\ monitor[w] # NoCluster => Started(w, monitor[w])
    /\ \A i, j \in 1..Len(chan[w]) :
           i < j /\ ~Dissolves(w, i) /\ Dissolves(w, j) => assigned[w] # chan[w][i].cluster
    /\ assigned[w] # NoCluster =>
           /\ w \in ready[assigned[w]] => Started(w, assigned[w])
           /\ Pending(w) => /\ w \notin ready[assigned[w]] /\ monitor[w] # assigned[w]
                            /\ pc[w] # "idle" => mem[w].cluster # assigned[w]

PoolLiveInv == WholeInv /\ UnformedInv /\ \A w \in Workers : LiveInv(w)

\* What a step of one worker does to another: nothing.
Untouched(w) ==
    /\ UNCHANGED <<pc[w], mem[w], monitor[w], process[w], chan[w], assigned[w]>>
    /\ \A c \in Clusters : (w \in ready'[c]) = (w \in ready[c])

LEMMA UntouchedKeepsLive ==
    ASSUME PoolInv, NEW w \in Workers, LiveInv(w), Untouched(w) PROVE LiveInv(w)'
<1>1. assigned[w] # NoCluster => assigned[w] \in Clusters
    BY DEF PoolInv, TypeOK, MaybeCluster
<1> QED
    BY <1>1 DEF Untouched, LiveInv, Started, Pending, Dissolves

-----------------------------------------------------------------------------
(* The control plane *)

\* A frame is pushed behind the others.
LEMMA PushOrder ==
    ASSUME TypeOK, NEW type \in {"cluster_assigned", "cluster_dissolved"},
           NEW c \in Clusters, NEW members, Push(members, type, c), NEW w \in Workers
    PROVE  /\ w \notin members => chan'[w] = chan[w]
           /\ w \in members =>
                  /\ Len(chan[w]) \in Nat /\ Len(chan'[w]) = Len(chan[w]) + 1
                  /\ chan'[w][Len(chan[w]) + 1] = [type |-> type, cluster |-> c]
                  /\ \A i \in 1..Len(chan[w]) : chan'[w][i] = chan[w][i]
<1> DEFINE frame == [type |-> type, cluster |-> c]
<1>1. frame \in Frames /\ chan[w] \in Seq(Frames)
    BY DEF Frames, TypeOK
<1>2. chan'[w] = IF w \in members THEN Append(chan[w], frame) ELSE chan[w]
    BY DEF Push
<1> HIDE DEF frame
<1>3. CASE w \in members
    <2>1. chan'[w] = Append(chan[w], frame)
        BY <1>2, <1>3
    <2>2. /\ Len(chan[w]) \in Nat /\ Len(chan'[w]) = Len(chan[w]) + 1
          /\ chan'[w][Len(chan[w]) + 1] = frame
          /\ \A i \in 1..Len(chan[w]) : chan'[w][i] = chan[w][i]
        BY <1>1, <2>1
    <2> QED
        BY <1>3, <2>2 DEF frame
<1>4. CASE w \notin members
    BY <1>2, <1>4
<1> QED
    BY <1>3, <1>4

LEMMA NamesAreFormed ==
    ASSUME PoolInv, NEW w \in Workers
    PROVE  /\ assigned[w] # NoCluster => Member(w, assigned[w])
           /\ \A i \in 1..Len(chan[w]) : Member(w, chan[w][i].cluster)
           /\ pc[w] # "idle" => Member(w, mem[w].cluster)
           /\ \A c : Started(w, c) => Member(w, c)
           /\ \A c : Member(w, c) => c \in Clusters /\ configs[c] # <<>> /\ c # NoCluster
<1>1. \A i \in 1..Len(chan[w]) : Member(w, chan[w][i].cluster)
    <2>1. chan[w] \in Seq(Frames) /\ \A i \in DOMAIN chan[w] : Member(w, chan[w][i].cluster)
        BY DEF PoolInv, TypeOK, WorkerInv
    <2> QED
        BY <2>1
<1>2. \A c : Started(w, c) => Member(w, c)
    BY DEF PoolInv, ProcessInv, Started
<1>3. \A c : Member(w, c) => c \in Clusters /\ configs[c] # <<>> /\ c # NoCluster
    BY ConfigsAssumption, SentinelsAssumption DEF Member, Clusters
<1> QED
    BY <1>1, <1>2, <1>3 DEF PoolInv, WorkerInv

LEMMA FormClusterLive ==
    ASSUME PoolInv, PoolLiveInv, NEW c \in Clusters, NEW peers \in Configs,
           FormCluster(c, peers)
    PROVE  PoolLiveInv'
<1> USE DEF FormCluster, localVars
<1>0. TypeOK /\ Push(Members(peers), "cluster_assigned", c)
    BY DEF PoolInv
<1>1. /\ configs[c] = <<>> /\ configs'[c] = peers /\ peers # <<>>
      /\ \A b \in Clusters \ {c} : configs'[b] = configs[b]
      /\ \A w \in Workers : assigned'[w] = IF w \in Members(peers) THEN c ELSE assigned[w]
      /\ \A w \in Members(peers) : assigned[w] = NoCluster
    BY ConfigsAssumption DEF PoolInv, TypeOK
<1>2. \A b \in Clusters : \A w \in Workers : assigned[w] = b => Member(w, b)
    BY SentinelsAssumption DEF PoolInv, WorkerInv, Clusters
<1>3. WholeInv'
    <2> SUFFICES ASSUME NEW b \in Clusters, NEW v \in Workers, assigned'[v] = b,
                        NEW w \in Members(configs'[b])
                 PROVE  assigned'[w] = b
        BY DEF WholeInv, Exists
    <2>1. CASE b = c
        <3>1. w \in Members(peers) /\ w \in Workers
            BY <1>1, <2>1, MembersAreWorkers
        <3> QED
            BY <1>1, <2>1, <3>1
    <2>2. CASE b # c
        <3>1. assigned[v] = b /\ Member(v, b)
            BY <1>1, <1>2, <2>2
        <3>2. configs'[b] = configs[b] /\ configs[b] \in Configs /\ w \in Workers
            BY <1>1, <2>2, <3>1, MembersAreWorkers DEF Member
        <3>3. assigned[w] = b /\ b # NoCluster
            BY <3>1, <3>2, SentinelsAssumption DEF PoolLiveInv, WholeInv, Exists, Clusters
        <3> QED
            BY <1>1, <3>2, <3>3
    <2> QED
        BY <2>1, <2>2
<1>4. UnformedInv'
    BY <1>1 DEF PoolLiveInv, UnformedInv
<1>5. ASSUME NEW w \in Workers PROVE LiveInv(w)'
    <2>0. LiveInv(w)
        BY DEF PoolLiveInv
    <2>1. CASE w \notin Members(peers)
        <3>1. chan'[w] = chan[w]
            BY <1>0, <2>1 DEF Push
        <3>2. UNCHANGED <<pc, mem, monitor, process, ready>>
            OBVIOUS
        <3>3. assigned'[w] = assigned[w]
            BY <1>1, <2>1
        <3>4. Untouched(w)
            BY <3>1, <3>2, <3>3 DEF Untouched
        <3> QED
            BY <2>0, <3>4, UntouchedKeepsLive
    <2>2. CASE w \in Members(peers)
        <3>1. /\ Len(chan[w]) \in Nat /\ Len(chan'[w]) = Len(chan[w]) + 1
              /\ chan'[w][Len(chan[w]) + 1] = [type |-> "cluster_assigned", cluster |-> c]
              /\ \A i \in 1..Len(chan[w]) : chan'[w][i] = chan[w][i]
            BY <1>0, <2>2, PushOrder
        <3>2. \A i \in 1..Len(chan'[w]) : Dissolves(w, i)' => i \in 1..Len(chan[w])
            BY <3>1 DEF Dissolves
        <3>3. assigned'[w] = c /\ w \notin ready'[c] /\ c # NoCluster
            BY <1>1, <2>2, SentinelsAssumption DEF PoolLiveInv, UnformedInv, Clusters
        <3>4. \A i \in 1..Len(chan[w]) : chan[w][i].cluster # c
            BY <1>1, NamesAreFormed
        <3>5. (monitor[w] # NoCluster => monitor[w] # c) /\ (pc[w] # "idle" => mem[w].cluster # c)
            BY <1>1, <2>0, NamesAreFormed DEF LiveInv
        <3>6. \A i, j \in 1..Len(chan'[w]) :
                  i < j /\ ~Dissolves(w, i)' /\ Dissolves(w, j)' => c # chan'[w][i].cluster
            <4> SUFFICES ASSUME NEW i \in 1..Len(chan'[w]), NEW j \in 1..Len(chan'[w]),
                                i < j, Dissolves(w, j)'
                         PROVE  c # chan'[w][i].cluster
                OBVIOUS
            <4>1. i \in 1..Len(chan[w])
                BY <3>1, <3>2
            <4> QED
                BY <3>1, <3>4, <4>1
        <3> QED
            BY <2>0, <3>3, <3>5, <3>6 DEF LiveInv, Started
    <2> QED
        BY <2>1, <2>2
<1> QED
    BY <1>3, <1>4, <1>5 DEF PoolLiveInv

LEMMA DissolveClusterLive ==
    ASSUME PoolInv, PoolLiveInv, NEW c \in Clusters, DissolveCluster(c) PROVE PoolLiveInv'
<1> USE DEF DissolveCluster, localVars
<1>0. TypeOK /\ Push(Members(configs[c]), "cluster_dissolved", c)
    BY DEF PoolInv
<1>1. /\ UNCHANGED <<configs, ready>>
      /\ \A w \in Workers : assigned'[w] = IF assigned[w] = c THEN NoCluster ELSE assigned[w]
      /\ c # NoCluster
    BY SentinelsAssumption DEF Clusters
<1>2. \A w \in Workers : (w \in Members(configs[c])) = (assigned[w] = c)
    <2>1. \A w \in Workers : assigned[w] = c => w \in Members(configs[c])
        BY <1>1, NamesAreFormed DEF Member
    <2> QED
        BY <2>1 DEF PoolLiveInv, WholeInv
<1>3. WholeInv'
    <2> SUFFICES ASSUME NEW b \in Clusters, NEW v \in Workers, assigned'[v] = b,
                        NEW w \in Members(configs[b])
                 PROVE  assigned'[w] = b
        BY <1>1 DEF WholeInv, Exists
    <2>1. assigned[v] = b /\ b # c
        BY <1>1, SentinelsAssumption DEF Clusters
    <2>2. assigned[w] = b
        BY <2>1 DEF PoolLiveInv, WholeInv, Exists
    <2>3. w \in Workers
        BY <2>1, NamesAreFormed, MembersAreWorkers, SentinelsAssumption DEF Member, Clusters
    <2> QED
        BY <1>1, <2>1, <2>2, <2>3
<1>4. UnformedInv'
    BY DEF PoolLiveInv, UnformedInv
<1>5. ASSUME NEW w \in Workers PROVE LiveInv(w)'
    <2>0. LiveInv(w)
        BY DEF PoolLiveInv
    <2>1. CASE w \notin Members(configs[c])
        <3>1. chan'[w] = chan[w]
            BY <1>0, <2>1, PushOrder
        <3>2. Untouched(w)
            BY <1>1, <1>2, <2>1, <3>1 DEF Untouched
        <3> QED
            BY <2>0, <3>2, UntouchedKeepsLive
    <2>2. CASE w \in Members(configs[c])
        <3>1. assigned'[w] = NoCluster
            BY <1>1, <1>2, <2>2
        <3>2. \A i \in 1..Len(chan'[w]) : chan'[w][i].cluster # NoCluster
            <4>1. PoolInv'
                BY DissolveClusterInv
            <4>2. chan'[w] \in Seq(Frames)
                BY <4>1 DEF PoolInv, TypeOK
            <4>3. \A i \in 1..Len(chan'[w]) : chan'[w][i] \in Frames
                BY <4>2
            <4> QED
                BY <4>3, SentinelsAssumption DEF Frames, Clusters
        <3> QED
            BY <2>0, <3>1, <3>2 DEF LiveInv, Started
    <2> QED
        BY <2>1, <2>2
<1> QED
    BY <1>3, <1>4, <1>5 DEF PoolLiveInv

-----------------------------------------------------------------------------
(* The agents *)

\* A step of worker w is nothing to the others, and to the control plane at
\* most one more member that is ready.
StepOf(w) ==
    /\ UNCHANGED <<configs, assigned>>
    /\ \A v \in Workers \ {w} : UNCHANGED <<pc[v], mem[v], monitor[v], process[v], chan[v]>>
    /\ \A c \in Clusters :
           ready'[c] = ready[c] \/ (configs[c] # <<>> /\ ready'[c] = ready[c] \cup {w})

LEMMA StepOfKeepsLive ==
    ASSUME PoolInv, PoolLiveInv, NEW w \in Workers, StepOf(w), LiveInv(w)' PROVE PoolLiveInv'
<1>1. WholeInv' /\ UnformedInv'
    BY DEF StepOf, PoolLiveInv, WholeInv, UnformedInv, Exists
<1>2. ASSUME NEW v \in Workers \ {w} PROVE LiveInv(v)'
    <2>1. UNCHANGED <<pc[v], mem[v], monitor[v], process[v], chan[v]>>
        BY DEF StepOf
    <2>2. UNCHANGED assigned[v]
        BY DEF StepOf
    <2>3. \A c \in Clusters : (v \in ready'[c]) = (v \in ready[c])
        BY DEF StepOf
    <2>4. Untouched(v)
        BY <2>1, <2>2, <2>3 DEF Untouched
    <2>5. v \in Workers /\ LiveInv(v)
        BY DEF PoolLiveInv
    <2> QED
        BY <2>4, <2>5, UntouchedKeepsLive
<1> QED
    BY <1>1, <1>2 DEF PoolLiveInv

LEMMA FrameStepLive ==
    ASSUME PoolInv, PoolLiveInv, NEW w \in Workers, HandleFrame(w) PROVE PoolLiveInv'
<1> PICK c \in Clusters : HandleAssigned(w, c) \/ HandleDissolved(w, c)
    BY DEF HandleFrame
<1> USE DEF serverVars
<1>0. LiveInv(w) /\ TypeOK
    BY DEF PoolInv, PoolLiveInv
<1>1. /\ pc[w] = "idle" /\ chan[w] # <<>> /\ Head(chan[w]).cluster = c
      /\ chan' = [chan EXCEPT ![w] = Tail(@)]
    BY DEF HandleAssigned, HandleDissolved, TakeFrame
<1>2. chan \in [Workers -> Seq(Frames)] /\ chan[w] \in Seq(Frames)
    BY <1>0 DEF TypeOK
<1>3. UNCHANGED <<configs, assigned, ready, process>> \/ UNCHANGED <<configs, assigned, ready>>
    BY DEF HandleAssigned, HandleDissolved
<1>4. /\ chan'[w] = Tail(chan[w]) /\ \A v \in Workers \ {w} : chan'[v] = chan[v]
      /\ Len(chan[w]) \in Nat \ {0} /\ Len(chan'[w]) = Len(chan[w]) - 1
      /\ chan[w][1] = Head(chan[w])
      /\ \A i \in 1..Len(chan'[w]) : i + 1 \in 1..Len(chan[w]) /\ chan'[w][i] = chan[w][i + 1]
    BY <1>1, <1>2
<1>5. \A v \in Workers \ {w} : UNCHANGED <<pc[v], mem[v], monitor[v], process[v], chan[v]>>
    BY <1>0, <1>4 DEF HandleAssigned, HandleDissolved, Goto, TypeOK
<1>6. StepOf(w)
    BY <1>3, <1>5 DEF StepOf
<1>7. \A i \in 1..Len(chan'[w]) : Dissolves(w, i)' = Dissolves(w, i + 1)
    BY <1>4 DEF Dissolves
<1>8. \A i, j \in 1..Len(chan'[w]) :
          i < j /\ ~Dissolves(w, i)' /\ Dissolves(w, j)' => assigned[w] # chan'[w][i].cluster
    <2> SUFFICES ASSUME NEW i \in 1..Len(chan'[w]), NEW j \in 1..Len(chan'[w]),
                        i < j, ~Dissolves(w, i)', Dissolves(w, j)'
                 PROVE  assigned[w] # chan'[w][i].cluster
        OBVIOUS
    <2>1. i + 1 \in 1..Len(chan[w]) /\ j + 1 \in 1..Len(chan[w]) /\ i + 1 < j + 1
        BY <1>4
    <2>2. ~Dissolves(w, i + 1) /\ Dissolves(w, j + 1)
        BY <1>7
    <2>3. assigned[w] # chan[w][i + 1].cluster
        BY <1>0, <2>1, <2>2 DEF LiveInv
    <2> QED
        BY <1>4, <2>3
<1>9. CASE HandleAssigned(w, c)
    <2>1. /\ pc'[w] = "config" /\ mem'[w].cluster = c /\ UNCHANGED <<monitor, process>>
          /\ ~Dissolves(w, 1)
        <3>1. Head(chan[w]) = [type |-> "cluster_assigned", cluster |-> c]
            BY <1>9 DEF HandleAssigned, TakeFrame
        <3> QED
            BY <1>0, <1>4, <1>9, <3>1 DEF HandleAssigned, Goto, TypeOK, Dissolves
    <2>2. Pending(w)' => Pending(w) /\ assigned[w] # c
        <3> SUFFICES ASSUME NEW j \in 1..Len(chan'[w]), Dissolves(w, j)'
                     PROVE  Pending(w) /\ assigned[w] # c
            BY DEF Pending
        <3>1. j + 1 \in 1..Len(chan[w]) /\ Dissolves(w, j + 1) /\ 1 < j + 1
            BY <1>4, <1>7
        <3>2. 1 \in 1..Len(chan[w]) /\ chan[w][1].cluster = c
            BY <1>1, <1>4
        <3>3. assigned[w] # chan[w][1].cluster
            BY <1>0, <2>1, <3>1, <3>2 DEF LiveInv
        <3> QED
            BY <3>1, <3>2, <3>3 DEF Pending
    <2>3. LiveInv(w)'
        BY <1>0, <1>3, <1>8, <2>1, <2>2 DEF LiveInv, Started
    <2> QED
        BY <1>6, <2>3, StepOfKeepsLive
<1>10. CASE HandleDissolved(w, c)
    <2>1. /\ UNCHANGED pc /\ monitor'[w] = NoCluster
          /\ Dissolves(w, 1) /\ 1 \in 1..Len(chan[w])
        <3>1. Head(chan[w]) = [type |-> "cluster_dissolved", cluster |-> c]
            BY <1>10 DEF HandleDissolved, TakeFrame
        <3> QED
            BY <1>0, <1>4, <1>10, <3>1 DEF HandleDissolved, TypeOK, Dissolves
    <2>2. assigned[w] # NoCluster => w \notin ready[assigned[w]]
        BY <1>0, <2>1 DEF LiveInv, Pending
    <2>3. LiveInv(w)'
        BY <1>1, <1>3, <1>8, <2>1, <2>2 DEF LiveInv
    <2> QED
        BY <1>6, <2>3, StepOfKeepsLive
<1> QED
    BY <1>9, <1>10

LEMMA BringUpLive ==
    ASSUME PoolInv, PoolLiveInv, NEW w \in Workers,
           BringUp(w) \/ FetchConfigFails(w) \/ WgUpFails(w) \/ LaunchFails(w)
    PROVE  PoolLiveInv'
<1> USE DEF serverVars, localVars, Goto
<1>1. UNCHANGED <<configs, assigned, ready, chan, monitor, process>>
    BY DEF BringUp, FetchConfigFails, WgUpFails, LaunchFails
<1>2. /\ \A v \in Workers \ {w} : UNCHANGED <<pc[v], mem[v]>>
      /\ pc[w] # "idle" /\ pc'[w] \in {"launch", "idle"}
      /\ pc'[w] = "launch" => mem'[w].cluster = mem[w].cluster
    BY DEF BringUp, FetchConfigFails, WgUpFails, LaunchFails, PoolInv, TypeOK
<1>3. StepOf(w)
    BY <1>1, <1>2 DEF StepOf
<1>4. LiveInv(w)'
    BY <1>1, <1>2 DEF PoolLiveInv, LiveInv, Started, Pending, Dissolves
<1> QED
    BY <1>3, <1>4, StepOfKeepsLive

LEMMA LaunchLive ==
    ASSUME PoolInv, PoolLiveInv, NEW w \in Workers, Launch(w) PROVE PoolLiveInv'
<1> USE DEF serverVars, Goto
<1>1. UNCHANGED <<configs, assigned, ready, chan, mem>>
    BY DEF Launch
<1>2. /\ \A v \in Workers \ {w} : UNCHANGED <<pc[v], monitor[v], process[v]>>
      /\ pc[w] = "launch" /\ process'[w] = Environment(w)
      /\ \/ monitor'[w] = mem[w].cluster /\ pc'[w] = "idle"
         \/ monitor'[w] = monitor[w] /\ pc'[w] = "report"
    BY DEF Launch, PoolInv, TypeOK
<1>3. process[w] = NoProcess /\ monitor[w] = NoCluster
    BY <1>2 DEF PoolInv, MachineInv
<1>4. Member(w, mem[w].cluster) /\ mem[w].pos \in InRing(mem[w].cluster)
    BY <1>2 DEF PoolInv, WorkerInv
<1>5. Environment(w) # NoProcess /\ Environment(w).cluster = mem[w].cluster
    BY <1>4, EnvironmentType, SentinelsAssumption
<1>6. Started(w, mem[w].cluster)'
    BY <1>1, <1>2, <1>5 DEF Started
<1>7. assigned[w] # NoCluster => w \notin ready[assigned[w]]
    BY <1>3 DEF PoolLiveInv, LiveInv, Started
<1>8. LiveInv(w)'
    <2>1. LiveInv(w)
        BY DEF PoolLiveInv
    <2>2. (Pending(w)' = Pending(w)) /\ \A i : Dissolves(w, i)' = Dissolves(w, i)
        BY <1>1 DEF Pending, Dissolves
    <2>3. /\ (pc[w] = "report" => Started(w, mem[w].cluster))'
          /\ (monitor[w] # NoCluster => Started(w, monitor[w]))'
        <3>1. CASE monitor'[w] = mem[w].cluster
            BY <1>1, <1>6, <3>1 DEF Started
        <3>2. CASE monitor'[w] = monitor[w]
            BY <1>3, <1>6, <3>2
        <3> QED
            BY <1>2, <3>1, <3>2
    <2>4. assigned[w] # NoCluster /\ Pending(w) =>
              mem[w].cluster # assigned[w] /\ monitor'[w] # assigned[w]
        BY <1>2, <1>3, <2>1 DEF LiveInv
    <2> QED
        BY <1>1, <1>7, <2>1, <2>2, <2>3, <2>4 DEF LiveInv
<1>9. StepOf(w)
    BY <1>1, <1>2 DEF StepOf
<1> QED
    BY <1>8, <1>9, StepOfKeepsLive

LEMMA ReportLive ==
    ASSUME PoolInv, PoolLiveInv, NEW w \in Workers, WorkerReports(w) \/ HeadReports(w)
    PROVE  PoolLiveInv'
<1> USE DEF localVars, Goto
<1>0. LiveInv(w)
    BY DEF PoolLiveInv
<1>1. UNCHANGED <<configs, assigned, chan, mem, process>>
    BY DEF WorkerReports, HeadReports
<1>2. PICK c : /\ ReportReady(w, c) /\ Started(w, c) /\ c # NoCluster
               /\ assigned[w] = c => ~Pending(w)
    <2>1. CASE WorkerReports(w)
        <3>1. pc[w] = "report" /\ ReportReady(w, mem[w].cluster)
            BY <2>1 DEF WorkerReports
        <3>2. Started(w, mem[w].cluster) /\ mem[w].cluster # NoCluster
            BY <1>0, <3>1, NamesAreFormed DEF LiveInv
        <3>3. assigned[w] = mem[w].cluster => ~Pending(w)
            BY <1>0, <3>1, <3>2 DEF LiveInv
        <3> QED
            BY <3>1, <3>2, <3>3
    <2>2. CASE HeadReports(w)
        <3>1. monitor[w] # NoCluster /\ ReportReady(w, monitor[w])
            BY <2>2 DEF HeadReports
        <3>2. Started(w, monitor[w])
            BY <1>0, <3>1 DEF LiveInv
        <3>3. assigned[w] = monitor[w] => ~Pending(w)
            BY <1>0, <3>1 DEF LiveInv
        <3> QED
            BY <3>1, <3>2, <3>3
    <2> QED
        BY <2>1, <2>2
<1>3. c \in Clusters /\ configs[c] # <<>>
    BY <1>2, NamesAreFormed
<1>4. \A b \in Clusters :
          ready'[b] = ready[b] \/ (b = c /\ assigned[w] = c /\ ready'[b] = ready[b] \cup {w})
    BY <1>2 DEF ReportReady, PoolInv, TypeOK
<1>5. /\ \A v \in Workers \ {w} : UNCHANGED <<pc[v], monitor[v]>>
      /\ pc'[w] \in {pc[w], "idle"} /\ monitor'[w] \in {monitor[w], NoCluster}
    BY DEF WorkerReports, HeadReports, PoolInv, TypeOK
<1>6. StepOf(w)
    BY <1>1, <1>3, <1>4, <1>5 DEF StepOf
<1>7. LiveInv(w)'
    <2>1. (Pending(w)' = Pending(w)) /\ \A i : Dissolves(w, i)' = Dissolves(w, i)
        BY <1>1 DEF Pending, Dissolves
    <2>2. \A b : Started(w, b)' = Started(w, b)
        BY <1>1 DEF Started
    <2>3. assigned[w] # NoCluster => assigned[w] \in Clusters
        BY DEF PoolInv, TypeOK, MaybeCluster
    <2>4. assigned[w] # NoCluster =>
              /\ w \in ready'[assigned[w]] => Started(w, assigned[w])
              /\ Pending(w) => w \notin ready'[assigned[w]]
        BY <1>0, <1>2, <1>4, <2>3 DEF LiveInv
    <2>5. /\ (pc[w] = "report" => Started(w, mem[w].cluster))'
          /\ (monitor[w] # NoCluster => Started(w, monitor[w]))'
        BY <1>0, <1>1, <1>5, <2>2 DEF LiveInv
    <2>6. assigned[w] # NoCluster /\ Pending(w) =>
              /\ monitor'[w] # assigned[w] /\ (pc'[w] # "idle" => mem[w].cluster # assigned[w])
        BY <1>0, <1>5 DEF LiveInv
    <2> QED
        BY <1>0, <1>1, <2>1, <2>2, <2>4, <2>5, <2>6 DEF LiveInv, Started
<1> QED
    BY <1>6, <1>7, StepOfKeepsLive

-----------------------------------------------------------------------------
LEMMA PoolLiveInvariant == Spec => []PoolLiveInv
<1>1. Init => PoolLiveInv
    <2> SUFFICES ASSUME Init PROVE PoolLiveInv
        OBVIOUS
    <2>1. WholeInv /\ UnformedInv
        BY SentinelsAssumption DEF Init, WholeInv, UnformedInv, Exists, Clusters
    <2>2. ASSUME NEW w \in Workers PROVE LiveInv(w)
        BY DEF Init, LiveInv
    <2> QED
        BY <2>1, <2>2 DEF PoolLiveInv
<1>2. PoolInv /\ PoolLiveInv /\ [Next]_vars => PoolLiveInv'
    <2> SUFFICES ASSUME PoolInv, PoolLiveInv, [Next]_vars PROVE PoolLiveInv'
        OBVIOUS
    <2>1. CASE ServerStep
        BY <2>1, FormClusterLive, DissolveClusterLive DEF ServerStep
    <2>2. ASSUME NEW w \in Workers, AgentStep(w) PROVE PoolLiveInv'
        BY <2>2, FrameStepLive, BringUpLive, LaunchLive, ReportLive DEF AgentStep, HandlerStep
    <2>3. ASSUME NEW v \in Workers, PrimaExits(v) PROVE PoolLiveInv'
        <3>1. UNCHANGED <<configs, assigned, ready, pc, mem, monitor, process, chan>>
            BY <2>3 DEF PrimaExits, serverVars
        <3>2. WholeInv' /\ UnformedInv'
            BY <3>1 DEF PoolLiveInv, WholeInv, UnformedInv, Exists
        <3>3. ASSUME NEW w \in Workers PROVE LiveInv(w)'
            <4>1. Untouched(w)
                BY <3>1 DEF Untouched
            <4> QED
                BY <4>1, UntouchedKeepsLive DEF PoolLiveInv
        <3> QED
            BY <3>2, <3>3 DEF PoolLiveInv
    <2>4. CASE UNCHANGED vars
        <3>1. UNCHANGED <<configs, assigned, ready, pc, mem, monitor, process, chan>>
            BY <2>4 DEF vars, serverVars, localVars
        <3>2. WholeInv' /\ UnformedInv'
            BY <3>1 DEF PoolLiveInv, WholeInv, UnformedInv, Exists
        <3>3. ASSUME NEW w \in Workers PROVE LiveInv(w)'
            <4>1. Untouched(w)
                BY <3>1 DEF Untouched
            <4> QED
                BY <4>1, UntouchedKeepsLive DEF PoolLiveInv
        <3> QED
            BY <3>2, <3>3 DEF PoolLiveInv
    <2> QED
        BY <2>1, <2>2, <2>3, <2>4 DEF Next
<1> QED
    BY <1>1, <1>2, PoolInvariant, PTL DEF Spec

\* Every member of a live cluster has started its place of it.
LEMMA LiveMembers ==
    ASSUME Told, PoolInv, PoolLiveInv, NEW c \in Clusters, Live(c)
    PROVE  /\ configs[c] \in Configs
           /\ \A v \in Members(configs[c]) :
                  /\ Started(v, c)
                  /\ process[v].rank = FindRingPosition(configs[c], v)
                  /\ process[v].world = Len(RingMembers(configs[c]))
                  /\ process[v].master = RingMembers(configs[c])[1]
                  /\ process[v].next = Successor(configs[c], process[v].rank)
<1>1. configs[c] \in Configs /\ c # NoCluster
    <2>1. PICK v \in Workers : assigned[v] = c
        BY DEF Live, Exists
    <2> QED
        BY <2>1, NamesAreFormed, SentinelsAssumption DEF Member, Clusters
<1>2. ASSUME NEW v \in Members(configs[c]) PROVE v \in Workers /\ Started(v, c)
    <2>1. v \in Workers
        BY <1>1, MembersAreWorkers
    <2>2. assigned[v] = c /\ v \in ready[c]
        BY DEF Live, PoolLiveInv, WholeInv
    <2> QED
        BY <1>1, <2>1, <2>2 DEF PoolLiveInv, LiveInv
<1> QED
    BY <1>1, <1>2 DEF Started, PoolInv, ProcessInv, Place

LEMMA WholeRing == Told /\ PoolInv /\ PoolLiveInv => LiveRingIsWhole
<1> SUFFICES ASSUME Told, PoolInv, PoolLiveInv, NEW c \in Clusters, Live(c),
                    NEW w \in Members(configs[c])
             PROVE  /\ Started(w, c) /\ process[w].world = Cardinality(Members(configs[c]))
                    /\ process[w].next \in Members(configs[c])
                    /\ process[w].master \in Members(configs[c])
                    /\ process[w].rank < Cardinality(Members(configs[c]))
                    /\ process[process[w].next].rank =
                           (process[w].rank + 1) % Cardinality(Members(configs[c]))
                    /\ process[process[w].master].rank = 0
    BY DEF LiveRingIsWhole
<1> DEFINE peers == configs[c]
<1>1. peers \in Configs
    BY LiveMembers
<1>2. \A v \in Members(peers) :
          /\ Started(v, c)
          /\ process[v].rank = FindRingPosition(peers, v)
          /\ process[v].world = Len(RingMembers(peers))
          /\ process[v].master = RingMembers(peers)[1]
          /\ process[v].next = Successor(peers, process[v].rank)
    BY LiveMembers
<1> HIDE DEF peers
<1>3. process[w].rank \in 0..(Len(RingMembers(peers)) - 1)
    BY <1>1, <1>2, PlaceFacts DEF peers
<1>4. /\ process[w].next \in Members(peers) /\ process[w].master \in Members(peers)
      /\ FindRingPosition(peers, process[w].next) =
             (process[w].rank + 1) % Len(RingMembers(peers))
      /\ FindRingPosition(peers, process[w].master) = 0
    <2>1. w \in Members(peers)
        BY DEF peers
    <2> QED
        BY <1>1, <1>2, <1>3, <2>1, SuccessorFacts
<1>5. Cardinality(Members(peers)) = Len(RingMembers(peers)) /\ Len(RingMembers(peers)) \in Nat
    BY <1>1, MembersCount, RingFacts, FS_CardinalityType, WorkersAssumption
<1>6. process[w].rank < Len(RingMembers(peers))
    BY <1>3, <1>5
<1> QED
    BY <1>2, <1>4, <1>5, <1>6 DEF peers

-----------------------------------------------------------------------------
(* The walk round the ring *)

LEMMA NextModulo ==
    ASSUME NEW n \in Nat, NEW w \in Nat \ {0} PROVE ((n % w) + 1) % w = (n + 1) % w
<1> DEFINE q == n \div w
           r == n % w
<1>1. q \in Nat /\ r \in 0..(w - 1) /\ n = w * q + r
    OBVIOUS
<1>2. \A p \in Nat, s \in 0..(w - 1), m \in Nat : m = w * p + s => m % w = s
    OBVIOUS
<1> HIDE DEF q, r
<1>3. CASE r + 1 < w
    <2>1. n + 1 = w * q + (r + 1) /\ r + 1 \in 0..(w - 1)
        BY <1>1, <1>3
    <2>2. (n + 1) % w = r + 1
        BY <1>1, <1>2, <2>1
    <2>3. (r + 1) % w = r + 1
        BY <2>1
    <2> QED
        BY <2>2, <2>3 DEF r
<1>4. CASE r + 1 = w
    <2>1. n + 1 = w * (q + 1) + 0 /\ w = w * 1 + 0 /\ 0 \in 0..(w - 1) /\ q + 1 \in Nat
        BY <1>1, <1>4
    <2>2. (n + 1) % w = 0 /\ w % w = 0
        BY <1>2, <2>1
    <2> QED
        BY <1>4, <2>2 DEF r
<1> QED
    BY <1>1, <1>3, <1>4

\* What Closed calls at.
Walk(master) ==
    CHOOSE at : at = [n \in Nat |-> IF n = 0 THEN master ELSE process[at[n - 1]].next]

\* A function that satisfies the equation of the walk is the walk: at the least
\* place where they differed, the place before would decide.
LEMMA WalkIsUnique ==
    ASSUME NEW master, NEW f,
           f = [n \in Nat |-> IF n = 0 THEN master ELSE process[f[n - 1]].next]
    PROVE  \A n \in Nat : Walk(master)[n] = f[n]
<1> DEFINE at == Walk(master)
           differ == {n \in Nat : at[n] # f[n]}
<1>1. at = [n \in Nat |-> IF n = 0 THEN master ELSE process[at[n - 1]].next]
    BY DEF Walk
<1> HIDE DEF at
<1> SUFFICES ASSUME differ # {} PROVE FALSE
    BY DEF at
<1>2. IsWellFoundedOn(OpToRel(<, Nat), Nat)
    BY NatLessThanWellFounded, Zenon
<1>3. PICK m \in differ : \A n \in differ : <<n, m>> \notin OpToRel(<, Nat)
    <2>1. differ \subseteq Nat
        OBVIOUS
    <2> HIDE DEF differ
    <2> QED
        BY <1>2, <2>1, WFMin, Zenon
<1>4. m \in Nat /\ \A n \in differ : ~(n < m)
    BY <1>3 DEF OpToRel
<1>5. m # 0
    <2>1. at[0] = master /\ f[0] = master
        BY <1>1
    <2> QED
        BY <2>1
<1>6. m - 1 \in Nat /\ at[m - 1] = f[m - 1]
    BY <1>4, <1>5
<1>7. at[m] = process[at[m - 1]].next /\ f[m] = process[f[m - 1]].next
    BY <1>1, <1>4, <1>5
<1> QED
    BY <1>6, <1>7

LEMMA WalkCloses ==
    ASSUME Told, PoolInv, PoolLiveInv, NEW c \in Clusters, Live(c)
    PROVE  Closed(c, RingMembers(configs[c])[1])
<1> DEFINE peers == configs[c]
           ring == RingMembers(peers)
           world == Len(ring)
           f == [n \in Nat |-> ring[(n % world) + 1]]
<1>1. /\ peers \in Configs
      /\ \A v \in Members(peers) :
             process[v].next = ring[((FindRingPosition(peers, v) + 1) % world) + 1]
    BY LiveMembers DEF Successor
<1>2. /\ world \in Nat \ {0} /\ ring \in Seq(Workers)
      /\ Members(peers) = {ring[i] : i \in 1..world}
      /\ Cardinality(Members(peers)) = world
    <2>1. ring \in Seq(Workers) /\ world \in Nat \ {0}
        BY <1>1, RingFacts, FS_CardinalityType, WorkersAssumption
    <2>2. DOMAIN ring = 1..world
        BY <2>1
    <2> QED
        BY <1>1, <2>1, <2>2, MembersCount DEF Members
<1>3. \A k \in 0..(world - 1) : process[ring[k + 1]].next = ring[((k + 1) % world) + 1]
    <2> TAKE k \in 0..(world - 1)
    <2>1. ring[k + 1] \in Members(peers) /\ FindRingPosition(peers, ring[k + 1]) = k
        BY <1>1, PlacesInRing
    <2> QED
        BY <1>1, <2>1
<1> HIDE DEF peers, ring, world
<1>4. \A n \in Nat : n % world \in 0..(world - 1) /\ ((n % world) + 1) % world = (n + 1) % world
    <2> TAKE n \in Nat
    <2>1. n % world \in 0..(world - 1)
        BY <1>2
    <2>2. ((n % world) + 1) % world = (n + 1) % world
        BY <1>2, NextModulo
    <2> QED
        BY <2>1, <2>2
<1>5. f[0] = ring[1] /\ f[world] = ring[1]
    BY <1>2
<1>6. ASSUME NEW n \in Nat, n # 0 PROVE f[n] = process[f[n - 1]].next
    <2>1. n - 1 \in Nat /\ (n - 1) + 1 = n
        BY <1>6
    <2>2. f[n - 1] = ring[((n - 1) % world) + 1] /\ f[n] = ring[(n % world) + 1]
        BY <2>1
    <2>3. process[f[n - 1]].next = ring[((((n - 1) % world) + 1) % world) + 1]
        BY <1>3, <1>4, <2>1, <2>2
    <2> QED
        BY <1>4, <2>1, <2>2, <2>3
<1>7. f = [n \in Nat |-> IF n = 0 THEN ring[1] ELSE process[f[n - 1]].next]
    BY <1>5, <1>6
<1>8. \A n \in 0..(world - 1) : f[n] = ring[n + 1]
    <2>1. \A n \in 0..(world - 1) : n % world = n
        BY <1>2
    <2> QED
        BY <1>2, <2>1
<1> HIDE DEF f
<1>9. \A n \in Nat : Walk(ring[1])[n] = f[n]
    BY <1>7, WalkIsUnique
<1>10. {Walk(ring[1])[n] : n \in 0..(world - 1)} = Members(peers)
    <2>1. \A n \in 0..(world - 1) : n + 1 \in 1..world /\ Walk(ring[1])[n] = ring[n + 1]
        BY <1>2, <1>8, <1>9
    <2>2. \A i \in 1..world : i - 1 \in 0..(world - 1) /\ Walk(ring[1])[i - 1] = ring[i]
        <3> TAKE i \in 1..world
        <3>1. i - 1 \in 0..(world - 1) /\ (i - 1) + 1 = i
            BY <1>2
        <3> QED
            BY <2>1, <3>1
    <2>3. \A n \in 0..(world - 1) : Walk(ring[1])[n] \in Members(peers)
        BY <1>2, <2>1
    <2>4. \A w \in Members(peers) : \E n \in 0..(world - 1) : w = Walk(ring[1])[n]
        BY <1>2, <2>2
    <2> QED
        BY <2>3, <2>4
<1>11. Walk(ring[1])[world] = ring[1]
    BY <1>2, <1>5, <1>9
<1>12. Closed(c, ring[1])
    BY <1>2, <1>10, <1>11 DEF Closed, Walk, peers
<1> QED
    BY <1>12 DEF ring, peers

LEMMA ClosedRing == Told /\ PoolInv /\ PoolLiveInv => LiveRingIsClosed
<1> SUFFICES ASSUME Told, PoolInv, PoolLiveInv, NEW c \in Clusters, Live(c)
             PROVE  /\ \A w \in Members(configs[c]) : Started(w, c)
                    /\ \E w \in Members(configs[c]) : process[w].rank = 0 /\ Closed(c, w)
    BY DEF LiveRingIsClosed
<1> DEFINE head == RingMembers(configs[c])[1]
<1>1. head \in Members(configs[c]) /\ FindRingPosition(configs[c], head) = 0
    <2>1. configs[c] \in Configs /\ 0 \in 0..(Len(RingMembers(configs[c])) - 1)
        BY LiveMembers, RingFacts, FS_CardinalityType, WorkersAssumption
    <2> QED
        BY <2>1, SuccessorFacts
<1>2. Closed(c, head)
    BY WalkCloses
<1> HIDE DEF head
<1> QED
    BY <1>1, <1>2, LiveMembers

\* Once the control plane serves a cluster, every member has started its place of
\* this ring and has not stopped it, although it may have been in another one and
\* may already have been told to leave: what the control plane counts as ready is
\* never of an earlier ring (agent.py:373, 446).  Every frame is assumed to carry
\* ring_position or assigned_ip; that what was started still runs is not claimed.
THEOREM LiveRingsAreWhole == ASSUME Told PROVE Spec => []LiveRingIsWhole
BY PoolInvariant, PoolLiveInvariant, WholeRing, PTL

\* What the members of a live ring have started, each knowing its own neighbors
\* only, is one ring: following the successors from the head visits every one of
\* them and comes back (prima.py:140, README.md:36, 47).
THEOREM LiveRingsAreClosed == ASSUME Told PROVE Spec => []LiveRingIsClosed
BY PoolInvariant, PoolLiveInvariant, ClosedRing, PTL
=============================================================================

----------------------------- MODULE PoolProofs -----------------------------
(***************************************************************************)
(* Type correctness of Pool, that the members of a ring never disagree on  *)
(* it if every frame tells its receiver the place or the address, and that *)
(* every worker keeps Membership whatever the frames tell: for every       *)
(* number of workers and clusters, every set of configs and every          *)
(* interleaving.                                                           *)
(***************************************************************************)
EXTENDS Pool, FiniteSetTheorems, TLAPS

-----------------------------------------------------------------------------
(* The ring of one config *)

LEMMA RingFacts ==
    ASSUME NEW peers \in Configs
    PROVE  /\ RingMembers(peers) \in Seq(Workers)
           /\ Len(RingMembers(peers)) \in 1..Cardinality(Workers)
           /\ \A i, j \in DOMAIN RingMembers(peers) :
                  RingMembers(peers)[i] = RingMembers(peers)[j] => i = j
<1> DEFINE ring == RingMembers(peers)
<1>1. /\ ring \in Seq(Workers) /\ ring # <<>>
      /\ \A i, j \in DOMAIN ring : ring[i] = ring[j] => i = j
    BY ConfigsAssumption
<1> HIDE DEF ring
<1>2. Len(ring) \in Nat \ {0} /\ ring \in [1..Len(ring) -> Workers]
    BY <1>1
<1>3. ring \in Injection(1..Len(ring), Workers)
    BY <1>1, <1>2 DEF Injection, IsInjective
<1>4. Cardinality(1..Len(ring)) <= Cardinality(Workers)
    BY <1>3, FS_Injection, WorkersAssumption
<1>5. Cardinality(1..Len(ring)) = Len(ring) /\ Cardinality(Workers) \in Nat
    BY <1>2, FS_Interval, FS_CardinalityType, WorkersAssumption
<1>6. Len(ring) \in 1..Cardinality(Workers)
    BY <1>2, <1>4, <1>5
<1> QED
    BY <1>1, <1>6 DEF ring

LEMMA MembersAreWorkers == ASSUME NEW peers \in Configs PROVE Members(peers) \subseteq Workers
<1>1. RingMembers(peers) \in Seq(Workers)
    BY RingFacts
<1> QED
    BY <1>1 DEF Members

\* Whoever does not know its address takes itself for the head.
LEMMA NoPlaceIsTheHead ==
    ASSUME NEW peers \in Configs PROVE FindRingPosition(peers, NoAddress) = 0
<1>1. NoAddress \notin Members(peers)
    BY MembersAreWorkers, SentinelsAssumption
<1> QED
    BY <1>1 DEF FindRingPosition

\* A member finds the place the control plane has given it.
LEMMA PlaceFacts ==
    ASSUME NEW peers \in Configs, NEW w \in Members(peers)
    PROVE  /\ FindRingPosition(peers, w) \in 0..(Len(RingMembers(peers)) - 1)
           /\ RingMembers(peers)[FindRingPosition(peers, w) + 1] = w
           /\ PlaceOf(peers, w) = FindRingPosition(peers, w)
<1> DEFINE ring == RingMembers(peers)
<1>1. PICK i \in DOMAIN ring : ring[i] = w
    BY DEF Members
<1>2. ring \in Seq(Workers) /\ \A j, k \in DOMAIN ring : ring[j] = ring[k] => j = k
    BY RingFacts
<1>3. FindRingPosition(peers, w) = (CHOOSE j \in DOMAIN ring : ring[j] = w) - 1
    BY DEF FindRingPosition
<1>4. PlaceOf(peers, w) = CHOOSE rank \in 0..(Len(ring) - 1) : ring[rank + 1] = w
    BY DEF PlaceOf
<1> HIDE DEF ring
<1>5. (CHOOSE j \in DOMAIN ring : ring[j] = w) = i
    BY <1>1, <1>2
<1>6. i - 1 \in 0..(Len(ring) - 1) /\ ring[(i - 1) + 1] = w
    BY <1>1, <1>2
<1>7. \A rank \in 0..(Len(ring) - 1) : ring[rank + 1] = w => rank = i - 1
    BY <1>1, <1>2
<1>8. (CHOOSE rank \in 0..(Len(ring) - 1) : ring[rank + 1] = w) = i - 1
    BY <1>6, <1>7
<1> QED
    BY <1>3, <1>4, <1>5, <1>6, <1>8 DEF ring

Successor(peers, rank) == RingMembers(peers)[((rank + 1) % Len(RingMembers(peers))) + 1]

LEMMA EnvironmentFacts ==
    ASSUME NEW peers \in Configs, NEW position \in 0..(Len(RingMembers(peers)) - 1)
    PROVE  /\ BuildEnv(peers, position).rank = position
           /\ BuildEnv(peers, position).world = Len(RingMembers(peers))
           /\ BuildEnv(peers, position).master = RingMembers(peers)[1]
           /\ BuildEnv(peers, position).master \in Workers
           /\ BuildEnv(peers, position).next \in Workers
           /\ BuildEnv(peers, position).next = Successor(peers, position)
<1> DEFINE ring == RingMembers(peers)
<1>1. ring \in Seq(Workers) /\ Len(ring) \in Nat \ {0}
    BY RingFacts
<1>2. BuildEnv(peers, position) =
          [rank |-> position, world |-> Len(ring), master |-> ring[1],
           next |-> ring[((position + 1) % Len(ring)) + 1]]
    BY DEF BuildEnv, RingNeighbors
<1> HIDE DEF ring
<1>3. ((position + 1) % Len(ring)) + 1 \in 1..Len(ring)
    BY <1>1
<1>4. ring[1] \in Workers /\ ring[((position + 1) % Len(ring)) + 1] \in Workers
    BY <1>1, <1>3
<1> QED
    BY <1>2, <1>4 DEF ring, Successor

-----------------------------------------------------------------------------
(* The inductive invariant *)

Member(w, c) == c \in Clusters /\ configs[c] \in Configs /\ w \in Members(configs[c])

Place(w, c) == FindRingPosition(configs[c], w)

InRing(c) == 0..(Len(RingMembers(configs[c])) - 1)

\* Every frame tells a member its place or the address that is in the config.
Told == {} \notin Carries

\* Whatever names a cluster at worker w names one it is or was a member of.
WorkerInv(w) ==
    /\ assigned[w] # NoCluster => Member(w, assigned[w])
    /\ \A i \in DOMAIN chan[w] : Member(w, chan[w][i].cluster)
    /\ pc[w] # "idle" => Member(w, mem[w].cluster)
    /\ pc[w] = "config" => /\ mem[w].pos \in {NoRank, Place(w, mem[w].cluster)}
                           /\ mem[w].ip \in {w, NoAddress}
                           /\ Told => mem[w].pos # NoRank \/ mem[w].ip = w
    /\ pc[w] = "launch" => /\ mem[w].pos \in InRing(mem[w].cluster)
                           /\ Told => mem[w].pos = Place(w, mem[w].cluster)

\* A process has the rank, the size, the head and the successor it has in the
\* ring it was started in.
ProcessInv(w) ==
    process[w] # NoProcess =>
        /\ Member(w, process[w].cluster)
        /\ process[w].rank \in InRing(process[w].cluster)
        /\ Told => process[w].rank = Place(w, process[w].cluster)
        /\ process[w].world = Len(RingMembers(configs[process[w].cluster]))
        /\ process[w].master = RingMembers(configs[process[w].cluster])[1]
        /\ process[w].next = Successor(configs[process[w].cluster], process[w].rank)

\* One cluster at a time on each machine; this needs no knowledge of the ring.
MachineInv(w) ==
    /\ tunnel[w] = NoCluster => process[w] = NoProcess
    /\ w \in exited => process[w] # NoProcess
    /\ pc[w] = "launch" => process[w] = NoProcess /\ monitor[w] = NoCluster
    /\ pc[w] \in {"launch", "report"} => tunnel[w] = mem[w].cluster
    /\ monitor[w] # NoCluster => monitor[w] = tunnel[w]

PoolInv == TypeOK /\ \A w \in Workers : WorkerInv(w) /\ ProcessInv(w) /\ MachineInv(w)

LEMMA PoolInvInit == Init => PoolInv
<1> SUFFICES ASSUME Init PROVE PoolInv
    OBVIOUS
<1>1. TypeOK
    BY BoundsAssumption, FS_EmptySet DEF Init, TypeOK, MaybeCluster, Unassigned
<1>2. ASSUME NEW w \in Workers PROVE WorkerInv(w) /\ ProcessInv(w) /\ MachineInv(w)
    BY DEF Init, WorkerInv, ProcessInv, MachineInv
<1> QED
    BY <1>1, <1>2 DEF PoolInv

LEMMA FailsFacts ==
    ASSUME TypeOK, NEW w \in Workers, NEW c \in Clusters, Fails(w, c)
    PROVE  failed' \subseteq Clusters
BY DEF TypeOK, Fails

LEMMA PushFacts ==
    ASSUME TypeOK, NEW type \in {"cluster_assigned", "cluster_dissolved"},
           NEW c \in Clusters, NEW members, Push(members, type, c)
    PROVE  /\ chan' \in [Workers -> Seq(Frames)]
           /\ \A w \in Workers : \A i \in DOMAIN chan'[w] :
                  \/ i \in DOMAIN chan[w] /\ chan'[w][i] = chan[w][i]
                  \/ w \in members /\ chan'[w][i].cluster = c
<1> DEFINE frame == [type |-> type, cluster |-> c]
<1>1. frame \in Frames /\ frame.cluster = c
    BY DEF Frames
<1>2. \A w \in Workers : chan'[w] = IF w \in members THEN Append(chan[w], frame) ELSE chan[w]
    BY DEF Push
<1> HIDE DEF frame
<1>3. \A w \in Workers : chan[w] \in Seq(Frames)
    BY DEF TypeOK
<1>4. ASSUME NEW w \in Workers
      PROVE  /\ chan'[w] \in Seq(Frames)
             /\ \A i \in DOMAIN chan'[w] :
                    \/ i \in DOMAIN chan[w] /\ chan'[w][i] = chan[w][i]
                    \/ w \in members /\ chan'[w][i].cluster = c
    <2>1. CASE w \in members
        <3>1. chan'[w] = Append(chan[w], frame) /\ chan[w] \in Seq(Frames)
            BY <1>2, <1>3, <2>1
        <3>2. chan'[w] \in Seq(Frames) /\ Len(chan'[w]) = Len(chan[w]) + 1
            BY <1>1, <3>1
        <3>3. \A i \in 1..Len(chan[w]) : i \in DOMAIN chan[w] /\ chan'[w][i] = chan[w][i]
            BY <1>1, <3>1
        <3>4. chan'[w][Len(chan[w]) + 1] = frame
            BY <1>1, <3>1
        <3>5. \A i \in DOMAIN chan'[w] : i \in 1..Len(chan[w]) \/ i = Len(chan[w]) + 1
            BY <3>1, <3>2
        <3> QED
            BY <1>1, <2>1, <3>2, <3>3, <3>4, <3>5
    <2>2. CASE w \notin members
        BY <1>2, <1>3, <2>2
    <2> QED
        BY <2>1, <2>2
<1>5. chan' \in [Workers -> Seq(Frames)]
    <2>1. chan' = [w \in Workers |-> IF w \in members THEN Append(chan[w], frame) ELSE chan[w]]
        BY DEF Push, frame
    <2> QED
        BY <1>2, <1>4, <2>1
<1>6. \A w \in Workers : \A i \in DOMAIN chan'[w] :
          \/ i \in DOMAIN chan[w] /\ chan'[w][i] = chan[w][i]
          \/ w \in members /\ chan'[w][i].cluster = c
    BY <1>4
<1> QED
    BY <1>5, <1>6

LEMMA FormClusterInv ==
    ASSUME PoolInv, NEW c \in Clusters, NEW peers \in Configs, FormCluster(c, peers)
    PROVE  PoolInv'
<1> USE DEF FormCluster, localVars
<1>0. /\ chan' \in [Workers -> Seq(Frames)]
      /\ \A w \in Workers : \A i \in DOMAIN chan'[w] :
             \/ i \in DOMAIN chan[w] /\ chan'[w][i] = chan[w][i]
             \/ w \in Members(peers) /\ chan'[w][i].cluster = c
    <2>1. TypeOK /\ Push(Members(peers), "cluster_assigned", c)
        BY DEF PoolInv
    <2> QED
        BY <2>1, PushFacts
<1>1. /\ configs' = [configs EXCEPT ![c] = peers] /\ configs[c] \notin Configs
      /\ configs \in [Clusters -> Configs \cup {<<>>}]
    BY ConfigsAssumption DEF PoolInv, TypeOK
<1>2. \A b \in Clusters : configs[b] \in Configs => configs'[b] = configs[b]
    BY <1>1
<1>3. configs'[c] = peers
    BY <1>1
<1>4. TypeOK'
    BY <1>0, <1>1 DEF PoolInv, TypeOK, MaybeCluster
<1>5. ASSUME NEW w \in Workers PROVE WorkerInv(w)'
    <2>1. WorkerInv(w)
        BY DEF PoolInv
    <2>2. (assigned[w] # NoCluster => Member(w, assigned[w]))'
        BY <1>2, <1>3, <2>1 DEF WorkerInv, PoolInv, TypeOK, Member
    <2>3. (\A i \in DOMAIN chan[w] : Member(w, chan[w][i].cluster))'
        BY <1>0, <1>2, <1>3, <2>1 DEF WorkerInv, Member
    <2> QED
        BY <1>2, <2>1, <2>2, <2>3 DEF WorkerInv, Member, Place, InRing
<1>6. ASSUME NEW w \in Workers PROVE ProcessInv(w)' /\ MachineInv(w)'
    BY <1>2, <1>6 DEF PoolInv, ProcessInv, MachineInv, Member, Place, InRing
<1> QED
    BY <1>4, <1>5, <1>6 DEF PoolInv

LEMMA DissolveClusterInv ==
    ASSUME PoolInv, NEW c \in Clusters, DissolveCluster(c) PROVE PoolInv'
<1> USE DEF DissolveCluster, localVars
<1>0. /\ chan' \in [Workers -> Seq(Frames)]
      /\ \A w \in Workers : \A i \in DOMAIN chan'[w] :
             \/ i \in DOMAIN chan[w] /\ chan'[w][i] = chan[w][i]
             \/ w \in Members(configs[c]) /\ chan'[w][i].cluster = c
    <2>1. TypeOK /\ Push(Members(configs[c]), "cluster_dissolved", c)
        BY DEF PoolInv
    <2> QED
        BY <2>1, PushFacts
<1>1. UNCHANGED configs /\ configs[c] \in Configs
    BY SentinelsAssumption DEF Exists, PoolInv, WorkerInv, Member, Clusters
<1>2. \A b \in Clusters : configs'[b] = configs[b]
    BY <1>1
<1>3. TypeOK'
    BY <1>0 DEF PoolInv, TypeOK, MaybeCluster
<1>4. ASSUME NEW w \in Workers PROVE WorkerInv(w)'
    <2>1. WorkerInv(w)
        BY DEF PoolInv
    <2>2. (assigned[w] # NoCluster => Member(w, assigned[w]))'
        BY <1>2, <2>1 DEF WorkerInv, PoolInv, TypeOK, Member
    <2>3. (\A i \in DOMAIN chan[w] : Member(w, chan[w][i].cluster))'
        BY <1>0, <1>1, <1>2, <2>1 DEF WorkerInv, Member
    <2> QED
        BY <1>2, <2>1, <2>2, <2>3 DEF WorkerInv, Member, Place, InRing
<1>5. ASSUME NEW w \in Workers PROVE ProcessInv(w)' /\ MachineInv(w)'
    BY <1>1, <1>2, <1>5 DEF PoolInv, ProcessInv, MachineInv, Member, Place, InRing
<1> QED
    BY <1>3, <1>4, <1>5 DEF PoolInv

LEMMA PlaceType ==
    ASSUME NEW w \in Workers, NEW c, Member(w, c)
    PROVE  /\ Place(w, c) \in InRing(c) /\ 0 \in InRing(c)
           /\ InRing(c) \subseteq Ranks /\ InRing(c) \subseteq Nat
<1>1. Place(w, c) \in 0..(Len(RingMembers(configs[c])) - 1)
    BY PlaceFacts DEF Member, Place
<1>2. Len(RingMembers(configs[c])) \in 1..Cardinality(Workers) /\ Cardinality(Workers) \in Nat
    BY RingFacts, FS_CardinalityType, WorkersAssumption DEF Member
<1> QED
    BY <1>1, <1>2 DEF Ranks, InRing

LEMMA EnvironmentType ==
    ASSUME NEW w \in Workers, Member(w, mem[w].cluster), mem[w].pos \in InRing(mem[w].cluster)
    PROVE  /\ Environment(w) \in Processes /\ Environment(w).cluster = mem[w].cluster
           /\ Environment(w).rank = mem[w].pos
           /\ Environment(w).world = Len(RingMembers(configs[mem[w].cluster]))
           /\ Environment(w).master = RingMembers(configs[mem[w].cluster])[1]
           /\ Environment(w).next = Successor(configs[mem[w].cluster], Environment(w).rank)
<1> DEFINE c == mem[w].cluster
           env == BuildEnv(configs[c], mem[w].pos)
<1>1. mem[w].pos \in 0..(Len(RingMembers(configs[c])) - 1)
    BY DEF InRing
<1>2. /\ env.rank = mem[w].pos /\ env.world = Len(RingMembers(configs[c]))
      /\ env.master = RingMembers(configs[c])[1]
      /\ env.master \in Workers /\ env.next \in Workers
      /\ env.next = Successor(configs[c], mem[w].pos)
    BY <1>1, EnvironmentFacts DEF Member
<1>3. Len(RingMembers(configs[c])) \in 1..Cardinality(Workers) /\ Cardinality(Workers) \in Nat
    BY RingFacts, FS_CardinalityType, WorkersAssumption DEF Member
<1>4. Environment(w) = [cluster |-> c, rank |-> env.rank, world |-> env.world,
                        master |-> env.master, next |-> env.next]
    BY DEF Environment
<1>5. c \in Clusters
    BY DEF Member
<1> HIDE DEF c, env
<1>6. env.rank \in Ranks /\ env.world \in Ranks /\ env.rank < env.world
    BY <1>1, <1>2, <1>3 DEF Ranks
<1>7. Environment(w) \in Processes
    BY <1>2, <1>4, <1>5, <1>6 DEF Processes
<1> QED
    BY <1>2, <1>4, <1>7 DEF c

LEMMA FrameStepInv ==
    ASSUME PoolInv, NEW w \in Workers, HandleFrame(w) PROVE PoolInv'
<1> PICK c \in Clusters : HandleAssigned(w, c) \/ HandleDissolved(w, c)
    BY DEF HandleFrame
<1> USE DEF serverVars
<1>1. \E type \in {"cluster_assigned", "cluster_dissolved"} : TakeFrame(w, type, c)
    BY DEF HandleAssigned, HandleDissolved
<1>2. /\ pc[w] = "idle" /\ chan[w] # <<>> /\ Head(chan[w]).cluster = c
      /\ chan' = [chan EXCEPT ![w] = Tail(@)]
    BY <1>1 DEF TakeFrame
<1>3. /\ \A v \in Workers : chan[v] \in Seq(Frames)
      /\ chan \in [Workers -> Seq(Frames)]
    BY DEF PoolInv, TypeOK
<1>4. Member(w, c)
    BY <1>2, <1>3 DEF PoolInv, WorkerInv
<1>5. /\ chan' \in [Workers -> Seq(Frames)]
      /\ \A v \in Workers : \A i \in DOMAIN chan'[v] :
             \E j \in DOMAIN chan[v] : chan'[v][i] = chan[v][j]
    <2>1. Tail(chan[w]) \in Seq(Frames) /\ chan'[w] = Tail(chan[w])
        BY <1>2, <1>3
    <2>2. \A i \in DOMAIN Tail(chan[w]) :
              i + 1 \in DOMAIN chan[w] /\ Tail(chan[w])[i] = chan[w][i + 1]
        BY <1>2, <1>3
    <2>3. \A v \in Workers \ {w} : chan'[v] = chan[v]
        BY <1>2, <1>3
    <2>4. chan' \in [Workers -> Seq(Frames)]
        BY <1>2, <1>3, <2>1
    <2> QED
        BY <2>1, <2>2, <2>3, <2>4
<1>6. ASSUME NEW v \in Workers
      PROVE  (\A i \in DOMAIN chan[v] : Member(v, chan[v][i].cluster))'
    <2>1. \A j \in DOMAIN chan[v] : Member(v, chan[v][j].cluster)
        BY DEF PoolInv, WorkerInv
    <2>2. UNCHANGED configs
        BY DEF HandleAssigned, HandleDissolved
    <2> QED
        BY <1>5, <2>1, <2>2 DEF Member
<1>7. CASE HandleAssigned(w, c)
    <2> PICK told \in Carries :
                 mem' = [mem EXCEPT ![w] =
                     [cluster |-> c,
                      pos |-> IF "ring_position" \in told THEN PlaceOf(configs[c], w) ELSE NoRank,
                      ip |-> IF "assigned_ip" \in told THEN w ELSE NoAddress]]
        BY <1>7 DEF HandleAssigned
    <2> DEFINE pos == IF "ring_position" \in told THEN PlaceOf(configs[c], w) ELSE NoRank
               ip == IF "assigned_ip" \in told THEN w ELSE NoAddress
    <2>0. mem' = [mem EXCEPT ![w] = [cluster |-> c, pos |-> pos, ip |-> ip]]
        OBVIOUS
    <2>1. /\ pos \in {Place(w, c), NoRank} /\ pos \in Ranks \cup {NoRank}
          /\ ip \in {w, NoAddress}
          /\ Told => pos # NoRank \/ ip = w
        <3>1. PlaceOf(configs[c], w) = Place(w, c) /\ Place(w, c) \in Ranks
            BY <1>4, PlaceFacts, PlaceType DEF Member, Place
        <3>2. Place(w, c) # NoRank
            BY <1>4, PlaceType, SentinelsAssumption
        <3>3. Told => "ring_position" \in told \/ "assigned_ip" \in told
            BY CarriesAssumption DEF Told
        <3> QED
            BY <3>1, <3>2, <3>3
    <2> HIDE DEF pos, ip
    <2>2. TypeOK'
        BY <1>5, <1>7, <2>0, <2>1 DEF HandleAssigned, Goto, PoolInv, TypeOK, MaybeCluster
    <2>3. ASSUME NEW v \in Workers PROVE WorkerInv(v)' /\ ProcessInv(v)' /\ MachineInv(v)'
        BY <1>4, <1>6, <1>7, <2>0, <2>1, <2>3
           DEF HandleAssigned, Goto, PoolInv, TypeOK, WorkerInv, ProcessInv, MachineInv,
               Member, Place, InRing
    <2> QED
        BY <2>2, <2>3 DEF PoolInv
<1>8. CASE HandleDissolved(w, c)
    <2>0. /\ failed' \subseteq Clusters
          /\ tunnel' \in [Workers -> MaybeCluster]
          /\ tunnel'[w] \in {tunnel[w], NoCluster} /\ stuck' \subseteq Workers
          /\ \A v \in Workers \ {w} : tunnel'[v] = tunnel[v]
        BY <1>8, FailsFacts
           DEF HandleDissolved, WgDown, WgDownFails, PoolInv, TypeOK, MaybeCluster
    <2>1. TypeOK'
        BY <1>5, <1>8, <2>0 DEF HandleDissolved, Unassigned, PoolInv, TypeOK, MaybeCluster
    <2>2. ASSUME NEW v \in Workers PROVE WorkerInv(v)' /\ ProcessInv(v)' /\ MachineInv(v)'
        BY <1>2, <1>6, <1>8, <2>0, <2>2
           DEF HandleDissolved, PoolInv, TypeOK, WorkerInv, ProcessInv, MachineInv,
               Member, Place, InRing
    <2> QED
        BY <2>1, <2>2 DEF PoolInv
<1> QED
    BY <1>7, <1>8

LEMMA BringUpInv ==
    ASSUME PoolInv, NEW w \in Workers, BringUp(w) \/ FetchConfigFails(w) \/ WgUpFails(w)
    PROVE  PoolInv'
<1> USE DEF serverVars, localVars, Goto
<1>1. pc[w] = "config" /\ Member(w, mem[w].cluster) /\ mem[w].cluster \in Clusters
    BY DEF BringUp, FetchConfigFails, WgUpFails, PoolInv, WorkerInv, Member
<1>2. /\ PositionOf(w) \in InRing(mem[w].cluster) /\ PositionOf(w) \in Ranks
      /\ Told => PositionOf(w) = Place(w, mem[w].cluster)
    <2>1. FindRingPosition(configs[mem[w].cluster], NoAddress) = 0
        BY <1>1, NoPlaceIsTheHead DEF Member
    <2>2. /\ Place(w, mem[w].cluster) \in InRing(mem[w].cluster)
          /\ 0 \in InRing(mem[w].cluster) /\ InRing(mem[w].cluster) \subseteq Ranks
        BY <1>1, PlaceType
    <2>3. /\ mem[w].pos \in {NoRank, Place(w, mem[w].cluster)}
          /\ mem[w].ip \in {w, NoAddress}
          /\ Told => mem[w].pos # NoRank \/ mem[w].ip = w
        BY <1>1 DEF PoolInv, WorkerInv
    <2> QED
        BY <2>1, <2>2, <2>3 DEF PositionOf, Place
<1>3. [mem EXCEPT ![w].pos = PositionOf(w)]
          \in [Workers -> [cluster: MaybeCluster, pos: Ranks \cup {NoRank},
                           ip: Workers \cup {NoAddress}]]
    BY <1>2 DEF PoolInv, TypeOK
<1>4. CASE BringUp(w)
    <2>1. TypeOK'
        BY <1>1, <1>3, <1>4 DEF BringUp, PoolInv, TypeOK, MaybeCluster
    <2>2. ASSUME NEW v \in Workers PROVE WorkerInv(v)' /\ ProcessInv(v)' /\ MachineInv(v)'
        BY <1>1, <1>2, <1>4, <2>2, SentinelsAssumption
           DEF BringUp, PoolInv, TypeOK, WorkerInv, ProcessInv, MachineInv, Member, Place,
               InRing
    <2> QED
        BY <2>1, <2>2 DEF PoolInv
<1>5. CASE FetchConfigFails(w) \/ WgUpFails(w)
    <2>1. failed' \subseteq Clusters
        <3>1. UNCHANGED failed \/ Fails(w, mem[w].cluster)
            BY <1>5 DEF FetchConfigFails, WgUpFails
        <3> QED
            BY <1>1, <3>1, FailsFacts DEF PoolInv, TypeOK
    <2>2. TypeOK'
        BY <1>3, <1>5, <2>1 DEF FetchConfigFails, WgUpFails, PoolInv, TypeOK
    <2>3. ASSUME NEW v \in Workers PROVE WorkerInv(v)' /\ ProcessInv(v)' /\ MachineInv(v)'
        BY <1>1, <1>5, <2>3
           DEF FetchConfigFails, WgUpFails, PoolInv, TypeOK, WorkerInv, ProcessInv,
               MachineInv, Member, Place, InRing
    <2> QED
        BY <2>2, <2>3 DEF PoolInv
<1> QED
    BY <1>4, <1>5

LEMMA LaunchInv ==
    ASSUME PoolInv, NEW w \in Workers, Launch(w) \/ LaunchFails(w) PROVE PoolInv'
<1> USE DEF serverVars, localVars, Goto
<1>1. /\ pc[w] = "launch" /\ Member(w, mem[w].cluster) /\ mem[w].cluster \in Clusters
      /\ mem[w].pos \in InRing(mem[w].cluster)
      /\ Told => mem[w].pos = Place(w, mem[w].cluster)
    BY DEF Launch, LaunchFails, PoolInv, WorkerInv, Member
<1>2. /\ Environment(w) \in Processes /\ Environment(w).cluster = mem[w].cluster
      /\ Environment(w).rank = mem[w].pos
      /\ Environment(w).world = Len(RingMembers(configs[mem[w].cluster]))
      /\ Environment(w).master = RingMembers(configs[mem[w].cluster])[1]
      /\ Environment(w).next = Successor(configs[mem[w].cluster], Environment(w).rank)
    BY <1>1, EnvironmentType
<1>3. CASE Launch(w)
    <2>1. TypeOK'
        BY <1>1, <1>2, <1>3 DEF Launch, PoolInv, TypeOK, MaybeCluster
    <2>2. ASSUME NEW v \in Workers PROVE WorkerInv(v)' /\ MachineInv(v)'
        BY <1>1, <1>3, <2>2, SentinelsAssumption
           DEF Launch, PoolInv, TypeOK, WorkerInv, MachineInv, Member, Place, InRing, Clusters
    <2>3. ASSUME NEW v \in Workers PROVE ProcessInv(v)'
        <3>1. CASE v = w
            BY <1>1, <1>2, <1>3, <3>1 DEF Launch, PoolInv, TypeOK, ProcessInv, Member, Place,
                                                      InRing
        <3>2. CASE v # w
            BY <1>3, <2>3, <3>2 DEF Launch, PoolInv, TypeOK, ProcessInv, Member, Place,
                                                      InRing
        <3> QED
            BY <3>1, <3>2
    <2> QED
        BY <2>1, <2>2, <2>3 DEF PoolInv
<1>4. CASE LaunchFails(w)
    <2>1. failed' \subseteq Clusters
        BY <1>1, <1>4, FailsFacts DEF LaunchFails, PoolInv
    <2>0. /\ tunnel' \in [Workers -> MaybeCluster]
          /\ tunnel'[w] \in {tunnel[w], NoCluster} /\ stuck' \subseteq Workers
          /\ \A v \in Workers \ {w} : tunnel'[v] = tunnel[v]
        BY <1>4 DEF LaunchFails, WgDown, WgDownFails, PoolInv, TypeOK, MaybeCluster
    <2>2. TypeOK'
        BY <1>4, <2>0, <2>1 DEF LaunchFails, Unassigned, PoolInv, TypeOK, MaybeCluster
    <2>3. ASSUME NEW v \in Workers PROVE WorkerInv(v)' /\ ProcessInv(v)' /\ MachineInv(v)'
        BY <1>1, <1>4, <2>0, <2>3
           DEF LaunchFails, PoolInv, TypeOK, WorkerInv, ProcessInv, MachineInv, Member, Place,
               InRing
    <2> QED
        BY <2>2, <2>3 DEF PoolInv
<1> QED
    BY <1>3, <1>4

LEMMA ReportInv ==
    ASSUME PoolInv, NEW w \in Workers, WorkerReports(w) \/ HeadReports(w) PROVE PoolInv'
<1> USE DEF serverVars, localVars, Goto
<1>1. PICK c \in Clusters : ReportReady(w, c) /\ (WorkerReports(w) \/ c = monitor[w])
    BY DEF WorkerReports, HeadReports, PoolInv, TypeOK, WorkerInv, Member, MaybeCluster
<1>2. ready' \in [Clusters -> SUBSET Workers]
    BY <1>1 DEF ReportReady, PoolInv, TypeOK
<1>3. failed' \subseteq Clusters
    BY <1>1, FailsFacts DEF ReportReady, PoolInv, TypeOK
<1>4. TypeOK'
    BY <1>1, <1>2, <1>3 DEF WorkerReports, HeadReports, PoolInv, TypeOK, MaybeCluster
<1>5. ASSUME NEW v \in Workers PROVE WorkerInv(v)' /\ ProcessInv(v)' /\ MachineInv(v)'
    BY <1>5 DEF WorkerReports, HeadReports, PoolInv, TypeOK, WorkerInv, ProcessInv, MachineInv,
                Member, Place, InRing
<1> QED
    BY <1>4, <1>5 DEF PoolInv

LEMMA ExitInv == ASSUME PoolInv, NEW w \in Workers, PrimaExits(w) PROVE PoolInv'
<1> USE DEF PrimaExits, serverVars
<1>1. TypeOK'
    BY DEF PoolInv, TypeOK
<1>2. ASSUME NEW v \in Workers PROVE WorkerInv(v)' /\ ProcessInv(v)' /\ MachineInv(v)'
    BY <1>2 DEF PoolInv, WorkerInv, ProcessInv, MachineInv, Member, Place, InRing
<1> QED
    BY <1>1, <1>2 DEF PoolInv

LEMMA PoolInvariant == Spec => []PoolInv
<1>1. PoolInv /\ [Next]_vars => PoolInv'
    <2> SUFFICES ASSUME PoolInv, [Next]_vars PROVE PoolInv'
        OBVIOUS
    <2>1. CASE ServerStep
        BY <2>1, FormClusterInv, DissolveClusterInv DEF ServerStep
    <2>2. ASSUME NEW w \in Workers, AgentStep(w) PROVE PoolInv'
        BY <2>2, FrameStepInv, BringUpInv, LaunchInv, ReportInv DEF AgentStep, HandlerStep
    <2>3. ASSUME NEW w \in Workers, PrimaExits(w) PROVE PoolInv'
        BY <2>3, ExitInv
    <2>4. CASE UNCHANGED vars
        <3>1. UNCHANGED <<serverVars, failed, chan, pc, localVars>>
            BY <2>4 DEF vars
        <3>2. TypeOK'
            BY <3>1 DEF serverVars, localVars, PoolInv, TypeOK
        <3>3. ASSUME NEW v \in Workers PROVE WorkerInv(v)' /\ ProcessInv(v)' /\ MachineInv(v)'
            BY <3>1 DEF serverVars, localVars, PoolInv, WorkerInv, ProcessInv, MachineInv,
                        Member, Place, InRing
        <3> QED
            BY <3>2, <3>3 DEF PoolInv
    <2> QED
        BY <2>1, <2>2, <2>3, <2>4 DEF Next
<1> QED
    BY <1>1, PoolInvInit, PTL DEF Spec

-----------------------------------------------------------------------------
(* Theorems *)

\* Types, and in particular that a process never has a rank beyond its ring
\* (prima.py:176).
THEOREM PoolTypeCorrect == Spec => []TypeOK
    BY PoolInvariant, PTL DEF PoolInv

LEMMA RingsAgree == Told /\ PoolInv => RingIsConsistent
<1> SUFFICES ASSUME Told, PoolInv, NEW c \in Clusters, NEW v \in Workers, NEW w \in Workers,
                    v # w, Started(v, c), Started(w, c)
             PROVE  /\ process[v].rank # process[w].rank
                    /\ process[v].world = process[w].world
                    /\ process[v].master = process[w].master
    BY DEF RingIsConsistent
<1>1. /\ Member(v, c) /\ Member(w, c)
      /\ process[v].rank = Place(v, c) /\ process[w].rank = Place(w, c)
    BY DEF PoolInv, ProcessInv, Started
<1>2. Place(v, c) # Place(w, c)
    <2>1. /\ RingMembers(configs[c])[Place(v, c) + 1] = v
          /\ RingMembers(configs[c])[Place(w, c) + 1] = w
        BY <1>1, PlaceFacts DEF Member, Place
    <2> QED
        BY <2>1
<1> QED
    BY <1>1, <1>2 DEF PoolInv, ProcessInv, Started

\* Whatever the order of their steps, no two members of a ring start with the
\* same rank, and all with the same head and size (agent.py:254, 373), if every
\* frame carries ring_position or assigned_ip: without both, a worker takes itself
\* for the head (agent.py:386).
THEOREM RingsAreConsistent == ASSUME Told PROVE Spec => []RingIsConsistent
    BY PoolInvariant, RingsAgree, PTL

\* A step of one worker is a step of Membership there and leaves the promises
\* of the others alone.
Kept(w) == UNCHANGED <<tunnel[w], process[w]>> /\ (w \in exited') = (w \in exited)
               /\ \A c \in Clusters : (w \in ready'[c]) = (w \in ready[c])

LEMMA KeptStutters == ASSUME NEW w \in Workers, Kept(w) PROVE [M(w)!Next]_(M(w)!vars)
    BY DEF Kept, M!vars

LEMMA MembershipStep ==
    ASSUME PoolInv, Next, NEW w \in Workers PROVE [M(w)!Next]_(M(w)!vars)
<1> USE DEF serverVars, localVars
<1>0. ASSUME NEW v \in Workers, PrimaExits(v) PROVE [M(w)!Next]_(M(w)!vars)
    <2>1. CASE v = w
        <3>1. M(w)!Leave
            BY <1>0, <2>1 DEF PrimaExits, M!Leave
        <3> QED
            BY <3>1 DEF M!Next
    <2>2. CASE v # w
        <3>1. Kept(w)
            BY <1>0, <2>2 DEF PrimaExits, Kept
        <3> QED
            BY <3>1, KeptStutters
    <2> QED
        BY <2>1, <2>2
<1>1. CASE ServerStep
    <2>1. Kept(w)
        BY <1>1 DEF ServerStep, FormCluster, DissolveCluster, Kept
    <2> QED
        BY <2>1, KeptStutters
<1>2. ASSUME NEW v \in Workers, AgentStep(v), v # w PROVE [M(w)!Next]_(M(w)!vars)
    <2>1. Kept(w)
        BY <1>2 DEF AgentStep, HandlerStep, HandleFrame, BringUp, FetchConfigFails, WgUpFails,
                    Launch, LaunchFails, WorkerReports, HeadReports, ReportReady,
                    HandleAssigned, HandleDissolved, WgDown, WgDownFails, Kept, PoolInv, TypeOK
    <2> QED
        BY <2>1, KeptStutters
<1>3. CASE BringUp(w)
    <2>1. mem[w].cluster \in Clusters
        BY <1>3 DEF BringUp, PoolInv, WorkerInv, Member
    <2>2. M(w)!Join(mem[w].cluster)
        BY <1>3 DEF BringUp, PoolInv, TypeOK, MachineInv, M!Join
    <2> QED
        BY <2>1, <2>2 DEF M!Next
<1>4. CASE Launch(w)
    <2>1. /\ Member(w, mem[w].cluster) /\ mem[w].pos \in InRing(mem[w].cluster)
          /\ mem[w].cluster \in Clusters /\ mem[w].pos \in Ranks
        BY <1>4, PlaceType DEF Launch, PoolInv, WorkerInv, Member
    <2>2. /\ Environment(w) \in Processes /\ Environment(w).cluster = mem[w].cluster
          /\ Environment(w).rank = mem[w].pos
        BY <2>1, EnvironmentType
    <2>3. Environment(w) # NoProcess
        BY <2>2, SentinelsAssumption
    <2>4. M(w)!Serve(mem[w].pos)
        BY <1>4, <2>1, <2>2, <2>3, SentinelsAssumption
           DEF Launch, PoolInv, TypeOK, MachineInv, M!Serve, Clusters
    <2> QED
        BY <2>1, <2>4 DEF M!Next
<1>5. CASE WorkerReports(w) \/ HeadReports(w)
    <2>1. \E c \in Clusters : ReportReady(w, c) /\ tunnel[w] = c
        BY <1>5 DEF WorkerReports, HeadReports, PoolInv, TypeOK, WorkerInv, MachineInv, Member,
                    MaybeCluster
    <2>2. UNCHANGED <<tunnel[w], process[w], exited>>
        BY <1>5 DEF WorkerReports, HeadReports
    <2>3. PICK c \in Clusters : ReportReady(w, c) /\ tunnel[w] = c
        BY <2>1
    <2>4. CASE UNCHANGED ready
        <3>1. Kept(w)
            BY <2>2, <2>4 DEF Kept
        <3> QED
            BY <3>1, KeptStutters
    <2>5. CASE ready' = [ready EXCEPT ![c] = @ \cup {w}]
        <3>1. {b \in Clusters : w \in ready'[b]} = {b \in Clusters : w \in ready[b]} \cup {c}
            BY <2>5 DEF PoolInv, TypeOK
        <3>2. tunnel[w] # NoCluster
            BY <2>3, SentinelsAssumption DEF Clusters
        <3>3. M(w)!BecomeReady
            BY <2>2, <2>3, <3>1, <3>2 DEF M!BecomeReady
        <3> QED
            BY <3>3 DEF M!Next
    <2> QED
        BY <2>3, <2>4, <2>5 DEF ReportReady
<1>6. CASE LaunchFails(w) \/ HandleFrame(w) \/ FetchConfigFails(w) \/ WgUpFails(w)
    <2>1. /\ UNCHANGED ready /\ tunnel'[w] \in {tunnel[w], NoCluster}
          /\ process'[w] \in {process[w], NoProcess}
          /\ process'[w] = NoProcess \/ UNCHANGED exited
        BY <1>6 DEF LaunchFails, HandleFrame, HandleAssigned, HandleDissolved, WgDown,
                    WgDownFails, FetchConfigFails, WgUpFails, PoolInv, TypeOK
    <2>2. M(w)!Leave
        BY <2>1 DEF M!Leave
    <2> QED
        BY <2>2 DEF M!Next
<1> QED
    BY <1>0, <1>1, <1>2, <1>3, <1>4, <1>5, <1>6 DEF Next, AgentStep, HandlerStep

\* Each machine of the pool implements Membership, however many there are and
\* however their handlers interleave (agent.py:246).
THEOREM PoolKeepsMembership == Spec => WorkersKeepMembership
<1>1. Init => \A w \in Workers : M(w)!Init
    BY DEF Init, M!Init
<1>2. PoolInv /\ [Next]_vars => [\A w \in Workers : [M(w)!Next]_(M(w)!vars)]_vars
    BY MembershipStep
<1> QED
    BY <1>1, <1>2, PoolInvariant, PTL DEF Spec, WorkersKeepMembership
=============================================================================

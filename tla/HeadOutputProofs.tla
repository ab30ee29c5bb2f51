-------------------------- MODULE HeadOutputProofs --------------------------
(***************************************************************************)
(* The head's output, for every length of the buffer and of the output,    *)
(* every numbering of ranks and windows and every ring size: type          *)
(* correctness, the order in which the child is stopped, that neither a    *)
(* missing table nor a trimmed buffer makes up a distribution, and that    *)
(* the parser reads what a reader of the lines reads.                      *)
(***************************************************************************)
EXTENDS HeadOutput, WellFoundedInduction, TLAPS

-----------------------------------------------------------------------------
(* Greatest and least positions in the output *)

LEMMA LeastExists ==
    ASSUME NEW S \in SUBSET Nat, S # {} PROVE \E x \in S : \A y \in S : x <= y
<1>1. IsWellFoundedOn(OpToRel(<, Nat), Nat)
    BY NatLessThanWellFounded, Zenon
<1>2. PICK x \in S : \A y \in S : <<y, x>> \notin OpToRel(<, Nat)
    BY <1>1, WFMin, Zenon
<1>3. \A y \in S : ~(y < x)
    BY <1>2 DEF OpToRel
<1> QED
    BY <1>3

LEMMA MinFacts ==
    ASSUME NEW S \in SUBSET Nat, S # {} PROVE Min(S) \in S /\ \A y \in S : Min(S) <= y
<1>1. \E x \in S : \A y \in S : x <= y
    BY LeastExists
<1> QED
    BY <1>1 DEF Min

LEMMA MaxFacts ==
    ASSUME NEW n \in Nat, NEW S \in SUBSET (1..n), S # {}
    PROVE  Max(S) \in S /\ \A y \in S : Max(S) >= y
<1> DEFINE below == {n - x : x \in S}
<1>1. below \in SUBSET Nat /\ below # {}
    <2>1. \A x \in S : n - x \in Nat /\ n - x \in below
        OBVIOUS
    <2> QED
        BY <2>1
<1>2. PICK least \in below : \A y \in below : least <= y
    BY <1>1, LeastExists
<1>3. PICK x \in S : least = n - x
    BY <1>2
<1>4. \A y \in S : n - x <= n - y
    BY <1>2, <1>3
<1>5. \A y \in S : x >= y
    BY <1>4
<1> QED
    BY <1>5 DEF Max

LEMMA MaxIs ==
    ASSUME NEW S \in SUBSET Nat, NEW x \in S, \A y \in S : x >= y PROVE Max(S) = x
<1>1. Max(S) \in S /\ \A y \in S : Max(S) >= y
    BY DEF Max
<1>2. Max(S) \in Nat /\ x \in Nat /\ Max(S) >= x /\ x >= Max(S)
    BY <1>1
<1> QED
    BY <1>2

LEMMA MinIs ==
    ASSUME NEW S \in SUBSET Nat, NEW x \in S, \A y \in S : x <= y PROVE Min(S) = x
<1>1. Min(S) \in S /\ \A y \in S : Min(S) <= y
    BY DEF Min
<1>2. Min(S) \in Nat /\ x \in Nat /\ Min(S) >= x /\ x >= Min(S)
    BY <1>1
<1> QED
    BY <1>2

-----------------------------------------------------------------------------
(* The parser *)

LEMMA LineFacts ==
    ASSUME NEW log \in Seq(Lines)
    PROVE  /\ \A kind : At(log, kind) \in SUBSET (1..Len(log))
           /\ \A i \in At(log, "index") \cup At(log, "remove") : log[i].n \in Ranks
           /\ \A i \in At(log, "window") : log[i].n \in Windows
           /\ \A i \in At(log, "using") : log[i].n \in Totals
<1>1. Len(log) \in Nat /\ DOMAIN log = 1..Len(log) /\ \A i \in 1..Len(log) : log[i] \in Lines
    OBVIOUS
<1>2. \A line \in Lines :
          /\ line.kind \in {"index", "remove"} => line.n \in Ranks
          /\ line.kind = "window" => line.n \in Windows
          /\ line.kind = "using" => line.n \in Totals
    BY DEF Lines
<1> QED
    BY <1>1, <1>2 DEF At

\* The table of a rank that has one: its last complete device line, and the
\* first window line of that device.
LEMMA DeviceFacts ==
    ASSUME NEW log \in Seq(Lines), NEW i \in Complete(log)
    PROVE  LET device == DeviceOf(log, log[i].n)
               window == Min(BlockWindows(log, device))
           IN  /\ device \in Complete(log) /\ log[device].n = log[i].n
               /\ \A j \in Complete(log) : log[j].n = log[i].n => device >= j
               /\ window \in BlockWindows(log, device)
               /\ \A j \in BlockWindows(log, device) : window <= j
<1> DEFINE same == {j \in Complete(log) : log[j].n = log[i].n}
           device == DeviceOf(log, log[i].n)
<1>1. same \in SUBSET (1..Len(log)) /\ same # {} /\ Len(log) \in Nat
    BY LineFacts DEF Complete, Devices
<1>2. device = Max(same)
    BY DEF DeviceOf
<1>3. device \in same /\ \A j \in same : device >= j
    BY <1>1, <1>2, MaxFacts
<1>4. BlockWindows(log, device) \in SUBSET Nat /\ BlockWindows(log, device) # {}
    BY <1>3, LineFacts DEF BlockWindows, Complete
<1>5. /\ Min(BlockWindows(log, device)) \in BlockWindows(log, device)
      /\ \A j \in BlockWindows(log, device) : Min(BlockWindows(log, device)) <= j
    BY <1>4, MinFacts
<1> QED
    BY <1>3, <1>5

LEMMA ParseType ==
    ASSUME NEW log \in Seq(Lines)
    PROVE  parse_distribution(log) \in Distributions \cup {NoDistribution}
<1> SUFFICES ASSUME At(log, "header") # {}, Complete(log) # {}
             PROVE  parse_distribution(log) \in Distributions
    BY DEF parse_distribution
<1> DEFINE ranks == {log[i].n : i \in Complete(log)}
           value(r) == IF r \in Removed(log) THEN 0
                       ELSE log[Min(BlockWindows(log, DeviceOf(log, r)))].n
<1>1. ranks \in SUBSET Ranks
    BY LineFacts DEF Complete, Devices
<1>2. \A r \in ranks : value(r) \in Windows \cup Totals \cup {0}
    <2> SUFFICES ASSUME NEW i \in Complete(log)
                 PROVE  value(log[i].n) \in Windows \cup Totals \cup {0}
        OBVIOUS
    <2> DEFINE window == Min(BlockWindows(log, DeviceOf(log, log[i].n)))
    <2>1. window \in At(log, "window")
        BY DeviceFacts DEF BlockWindows
    <2>2. log[window].n \in Windows
        BY <2>1, LineFacts
    <2> QED
        BY <2>2
<1>3. parse_distribution(log) = [r \in ranks |-> value(r)]
    BY DEF parse_distribution
<1> HIDE DEF ranks, value
<1>4. parse_distribution(log) \in [ranks -> Windows \cup Totals \cup {0}]
    BY <1>2, <1>3
<1> QED
    BY <1>1, <1>4 DEF Distributions

LEMMA BuildFacts ==
    ASSUME NEW log \in Seq(Lines), NEW w
    PROVE  /\ build_distribution(log, w) \in Distributions \cup {NoDistribution}
           /\ Unknown \in Distributions
           /\ w # 1 /\ At(log, "header") = {} => build_distribution(log, w) = NoDistribution
<1>1. Unknown \in Distributions
    <2>1. {} \in SUBSET Ranks /\ Unknown \in [{} -> Windows \cup Totals \cup {0}]
        BY DEF Unknown
    <2> QED
        BY <2>1 DEF Distributions
<1>2. ASSUME At(log, "using") # {}
      PROVE  [r \in {0} |-> log[Min(At(log, "using"))].n] \in Distributions
    <2>1. At(log, "using") \in SUBSET Nat
        BY LineFacts
    <2>2. log[Min(At(log, "using"))].n \in Totals
        BY <1>2, <2>1, LineFacts, MinFacts
    <2>3. /\ {0} \in SUBSET Ranks
          /\ [r \in {0} |-> log[Min(At(log, "using"))].n] \in [{0} -> Windows \cup Totals \cup {0}]
        BY <2>2, NumbersAssumption
    <2> QED
        BY <2>3 DEF Distributions
<1>3. build_distribution(log, w) \in Distributions \cup {NoDistribution}
    BY <1>2, ParseType DEF build_distribution
<1>4. w # 1 /\ At(log, "header") = {} => build_distribution(log, w) = NoDistribution
    BY DEF build_distribution, parse_distribution
<1> QED
    BY <1>1, <1>3, <1>4

-----------------------------------------------------------------------------
(* Output that has lost its first k lines *)

Trims(log, whole, k) ==
    Len(whole) = Len(log) + k /\ \A i \in 1..Len(log) : log[i] = whole[i + k]

\* Set T of positions in the whole output is S of the trimmed one.
Shifted(S, T, k) == (\A i \in S : i + k \in T) /\ (\A j \in T : j > k /\ j - k \in S)

LEMMA ShiftedMax ==
    ASSUME NEW n \in Nat, NEW k \in Nat, NEW S \in SUBSET (1..n), S # {},
           NEW T \in SUBSET Nat, Shifted(S, T, k)
    PROVE  Max(T) = Max(S) + k
<1>1. Max(S) \in S /\ \A y \in S : Max(S) >= y
    BY MaxFacts
<1>2. Max(S) + k \in T
    BY <1>1 DEF Shifted
<1>3. ASSUME NEW j \in T PROVE Max(S) + k >= j
    <2>1. j - k \in S
        BY DEF Shifted
    <2>2. Max(S) >= j - k
        BY <1>1, <2>1
    <2>3. j \in Nat /\ \A y \in S : y \in Nat
        OBVIOUS
    <2>4. Max(S) \in Nat
        BY <1>1, <2>3
    <2> QED
        BY <2>2, <2>3, <2>4
<1> QED
    BY <1>2, <1>3, MaxIs

LEMMA ShiftedMin ==
    ASSUME NEW k \in Nat, NEW S \in SUBSET Nat, S # {}, NEW T \in SUBSET Nat, Shifted(S, T, k)
    PROVE  Min(T) = Min(S) + k
<1>1. Min(S) \in S /\ \A y \in S : Min(S) <= y
    BY MinFacts
<1>2. Min(S) + k \in T
    BY <1>1 DEF Shifted
<1>3. ASSUME NEW j \in T PROVE Min(S) + k <= j
    <2>1. j - k \in S
        BY DEF Shifted
    <2>2. Min(S) <= j - k /\ Min(S) \in Nat /\ j \in Nat
        BY <1>1, <2>1
    <2> QED
        BY <2>2
<1> QED
    BY <1>2, <1>3, MinIs

\* While the header of the last table is still there, nothing of what the parser
\* looks at is lost.
LEMMA TrimmedTable ==
    ASSUME NEW log \in Seq(Lines), NEW whole \in Seq(Lines), NEW k \in Nat,
           Trims(log, whole, k), At(log, "header") # {}
    PROVE  /\ TableStart(log) \in 1..Len(log) /\ TableStart(whole) = TableStart(log) + k
           /\ Shifted(Devices(log), Devices(whole), k)
           /\ \A i \in Devices(log) :
                  Shifted(BlockWindows(log, i), BlockWindows(whole, i + k), k)
           /\ Shifted(Complete(log), Complete(whole), k)
<1>1. /\ Len(log) \in Nat /\ Len(whole) = Len(log) + k
      /\ DOMAIN log = 1..Len(log) /\ DOMAIN whole = 1..Len(whole)
      /\ \A i \in 1..Len(log) : log[i] = whole[i + k]
    BY DEF Trims
<1>2. /\ \A kind : \A i \in At(log, kind) : i \in 1..Len(log) /\ i + k \in At(whole, kind)
      /\ \A kind : \A j \in At(whole, kind) :
             j \in 1..Len(whole) /\ (j > k => j - k \in At(log, kind))
    BY <1>1 DEF At
<1>3. TableStart(log) \in At(log, "header") /\ \A i \in At(log, "header") : TableStart(log) >= i
    BY <1>1, LineFacts, MaxFacts DEF TableStart
<1>4. TableStart(whole) = TableStart(log) + k
    <2>1. TableStart(log) + k \in At(whole, "header") /\ At(whole, "header") \in SUBSET Nat
        BY <1>2, <1>3
    <2>2. \A j \in At(whole, "header") : TableStart(log) + k >= j
        <3> SUFFICES ASSUME NEW j \in At(whole, "header"), j > k
                     PROVE  TableStart(log) + k >= j
            BY <1>2, <1>3
        <3>1. j - k \in At(log, "header") /\ j \in 1..Len(whole)
            BY <1>2
        <3>2. TableStart(log) >= j - k
            BY <1>3, <3>1
        <3>3. j \in Nat /\ \A i \in At(log, "header") : i \in Nat
            BY <1>2, <3>1
        <3>4. TableStart(log) \in Nat
            BY <1>3, <3>3
        <3> QED
            BY <3>2, <3>3, <3>4
    <2> QED
        BY <2>1, <2>2, MaxIs DEF TableStart
<1>5. TableStart(log) \in 1..Len(log)
    BY <1>2, <1>3
<1>6. Shifted(Devices(log), Devices(whole), k)
    BY <1>1, <1>2, <1>4, <1>5 DEF Devices, Shifted
<1>7. ASSUME NEW i \in Devices(log)
      PROVE  Shifted(BlockWindows(log, i), BlockWindows(whole, i + k), k)
    <2>1. i \in 1..Len(log) /\ i + k \in Devices(whole)
        BY <1>2, <1>6 DEF Shifted, Devices
    <2>2. ASSUME NEW j \in BlockWindows(log, i) PROVE j + k \in BlockWindows(whole, i + k)
        <3>1. j \in 1..Len(log) /\ j > i /\ j + k \in At(whole, "window")
            BY <1>2 DEF BlockWindows
        <3>2. \A d \in Devices(whole) : d > i + k => j + k < d
            <4> SUFFICES ASSUME NEW d \in Devices(whole), d > i + k PROVE j + k < d
                OBVIOUS
            <4>1. d - k \in Devices(log) /\ d \in 1..Len(whole)
                BY <1>2, <1>6 DEF Shifted, Devices
            <4>2. d - k > i
                BY <1>1, <2>1, <4>1
            <4>3. j < d - k
                BY <4>1, <4>2 DEF BlockWindows
            <4> QED
                BY <1>1, <3>1, <4>1, <4>3
        <3> QED
            BY <2>1, <3>1, <3>2 DEF BlockWindows
    <2>3. ASSUME NEW j \in BlockWindows(whole, i + k)
          PROVE  j > k /\ j - k \in BlockWindows(log, i)
        <3>1. j \in 1..Len(whole) /\ j > i + k /\ j \in At(whole, "window")
            BY <1>2 DEF BlockWindows
        <3>2. j > k /\ j - k \in At(log, "window") /\ j - k > i
            BY <1>1, <1>2, <2>1, <3>1
        <3>3. \A d \in Devices(log) : d > i => j - k < d
            <4> SUFFICES ASSUME NEW d \in Devices(log), d > i PROVE j - k < d
                OBVIOUS
            <4>1. d + k \in Devices(whole) /\ d \in 1..Len(log)
                BY <1>2, <1>6 DEF Shifted, Devices
            <4>2. d + k > i + k
                BY <2>1, <4>1
            <4>3. j < d + k
                BY <4>1, <4>2 DEF BlockWindows
            <4> QED
                BY <1>1, <3>1, <4>1, <4>3
        <3> QED
            BY <3>2, <3>3 DEF BlockWindows
    <2> QED
        BY <2>2, <2>3 DEF Shifted
<1>8. Shifted(Complete(log), Complete(whole), k)
    <2>1. ASSUME NEW i \in Complete(log) PROVE i + k \in Complete(whole)
        <3>1. i \in Devices(log) /\ BlockWindows(log, i) # {}
            BY DEF Complete
        <3>2. i + k \in Devices(whole) /\ BlockWindows(whole, i + k) # {}
            BY <1>6, <1>7, <3>1 DEF Shifted
        <3> QED
            BY <3>2 DEF Complete
    <2>2. ASSUME NEW j \in Complete(whole) PROVE j > k /\ j - k \in Complete(log)
        <3>1. j \in Devices(whole) /\ BlockWindows(whole, j) # {}
            BY DEF Complete
        <3>2. j > k /\ j - k \in Devices(log) /\ j \in 1..Len(whole)
            BY <1>2, <1>6, <3>1 DEF Shifted, Devices
        <3>3. (j - k) + k = j
            BY <1>1, <3>2
        <3>4. BlockWindows(log, j - k) # {}
            BY <1>7, <3>1, <3>2, <3>3 DEF Shifted
        <3> QED
            BY <3>2, <3>4 DEF Complete
    <2> QED
        BY <2>1, <2>2 DEF Shifted
<1> QED
    BY <1>4, <1>5, <1>6, <1>7, <1>8

LEMMA TrimmedParse ==
    ASSUME NEW log \in Seq(Lines), NEW whole \in Seq(Lines), NEW k \in Nat,
           Trims(log, whole, k), RemovalsComeLast(whole)
    PROVE  parse_distribution(log) \in {NoDistribution, parse_distribution(whole)}
<1> SUFFICES ASSUME At(log, "header") # {}, Complete(log) # {}
             PROVE  parse_distribution(log) = parse_distribution(whole)
    BY DEF parse_distribution
<1>1. /\ Len(log) \in Nat /\ Len(whole) = Len(log) + k
      /\ DOMAIN log = 1..Len(log) /\ DOMAIN whole = 1..Len(whole)
      /\ \A i \in 1..Len(log) : log[i] = whole[i + k]
    BY DEF Trims
<1>2. /\ TableStart(log) \in 1..Len(log) /\ TableStart(whole) = TableStart(log) + k
      /\ \A i \in Devices(log) : Shifted(BlockWindows(log, i), BlockWindows(whole, i + k), k)
      /\ Shifted(Complete(log), Complete(whole), k)
    BY TrimmedTable
<1>3. /\ Complete(log) \subseteq Devices(log) /\ Complete(log) \subseteq 1..Len(log)
      /\ Complete(whole) \subseteq 1..Len(whole)
    BY LineFacts DEF Complete, Devices
<1>4. /\ \A i \in Complete(log) : i + k \in Complete(whole) /\ whole[i + k].n = log[i].n
      /\ \A j \in Complete(whole) :
             j > k /\ j - k \in Complete(log) /\ log[j - k].n = whole[j].n
    <2>1. \A j \in Complete(whole) : j > k /\ j - k \in Complete(log) /\ (j - k) + k = j
        BY <1>1, <1>2, <1>3 DEF Shifted
    <2> QED
        BY <1>1, <1>2, <1>3, <2>1 DEF Shifted
<1>5. At(whole, "header") # {} /\ Complete(whole) # {}
    <2>1. \A i \in At(log, "header") : i + k \in At(whole, "header")
        BY <1>1 DEF At
    <2> QED
        BY <1>4, <2>1
<1> DEFINE ranks == {log[i].n : i \in Complete(log)}
<1>6. ranks = {whole[j].n : j \in Complete(whole)}
    BY <1>4
<1>7. ASSUME NEW i \in Complete(log) PROVE (log[i].n \in Removed(log)) = (log[i].n \in Removed(whole))
    <2>1. \A j \in At(log, "remove") : j + k \in At(whole, "remove") /\ whole[j + k].n = log[j].n
        BY <1>1 DEF At
    <2>2. ASSUME NEW j \in At(whole, "remove")
          PROVE  j - k \in At(log, "remove") /\ log[j - k].n = whole[j].n
        <3>1. i + k \in At(whole, "index")
            BY <1>4 DEF Complete, Devices
        <3>2. i + k < j /\ j \in 1..Len(whole)
            BY <1>1, <3>1 DEF RemovalsComeLast, At
        <3>3. j - k \in 1..Len(log) /\ (j - k) + k = j
            BY <1>1, <1>3, <3>2
        <3> QED
            BY <1>1, <3>3 DEF At
    <2>3. ASSUME log[i].n \in Removed(log) PROVE log[i].n \in Removed(whole)
        BY <2>1, <2>3 DEF Removed
    <2>4. ASSUME log[i].n \in Removed(whole) PROVE log[i].n \in Removed(log)
        BY <2>2, <2>4 DEF Removed
    <2> QED
        BY <2>3, <2>4
<1>8. ASSUME NEW i \in Complete(log)
      PROVE  log[Min(BlockWindows(log, DeviceOf(log, log[i].n)))].n =
                 whole[Min(BlockWindows(whole, DeviceOf(whole, log[i].n)))].n
    <2> DEFINE r == log[i].n
               device == DeviceOf(log, r)
    <2>1. DeviceOf(whole, r) = device + k
        <3> DEFINE S == {j \in Complete(log) : log[j].n = r}
                   T == {j \in Complete(whole) : whole[j].n = r}
        <3>1. Shifted(S, T, k)
            BY <1>4 DEF Shifted
        <3>2. S \in SUBSET (1..Len(log)) /\ S # {} /\ T \in SUBSET Nat
            BY <1>3
        <3>3. device = Max(S) /\ DeviceOf(whole, r) = Max(T)
            BY DEF DeviceOf
        <3> HIDE DEF S, T, device
        <3> QED
            BY <1>1, <3>1, <3>2, <3>3, ShiftedMax
    <2>2. device \in Complete(log) /\ Min(BlockWindows(log, device)) \in BlockWindows(log, device)
        BY DeviceFacts
    <2> HIDE DEF device
    <2>3. Shifted(BlockWindows(log, device), BlockWindows(whole, device + k), k)
        BY <1>2, <1>3, <2>2
    <2>4. /\ BlockWindows(log, device) \subseteq 1..Len(log)
          /\ BlockWindows(whole, device + k) \subseteq 1..Len(whole)
        BY LineFacts DEF BlockWindows
    <2>5. Min(BlockWindows(whole, device + k)) = Min(BlockWindows(log, device)) + k
        BY <2>2, <2>3, <2>4, ShiftedMin
    <2>6. Min(BlockWindows(log, device)) \in 1..Len(log)
        BY <2>2, <2>4
    <2>7. log[Min(BlockWindows(log, device))].n = whole[Min(BlockWindows(whole, device + k))].n
        BY <1>1, <2>5, <2>6
    <2> QED
        BY <2>1, <2>7 DEF device
<1> DEFINE value(l, r) == IF r \in Removed(l) THEN 0
                          ELSE l[Min(BlockWindows(l, DeviceOf(l, r)))].n
<1>9. \A r \in ranks : value(log, r) = value(whole, r)
    BY <1>7, <1>8
<1>10. parse_distribution(log) = [r \in ranks |-> value(log, r)]
    BY DEF parse_distribution
<1>11. parse_distribution(whole) = [r \in ranks |-> value(whole, r)]
    BY <1>5, <1>6 DEF parse_distribution
<1> HIDE DEF ranks, value
<1> QED
    BY <1>9, <1>10, <1>11

-----------------------------------------------------------------------------
(* The parser and the line by line reading *)

Listed(log) == {log[i].n : i \in Complete(log)}
WindowOf(log, r) == log[Min(BlockWindows(log, DeviceOf(log, r)))].n
LastDevice(log) == Max(Devices(log))

\* What the parser's positions say of the state of a reader who has come to the
\* end of log.
Parsed(log) ==
    IF At(log, "header") = {} THEN NothingRead
    ELSE [device |-> IF Devices(log) # {} /\ BlockWindows(log, LastDevice(log)) = {}
                     THEN [open |-> TRUE, rank |-> log[LastDevice(log)].n] ELSE NoDevice,
          table |-> TRUE,
          dist |-> [r \in Listed(log) |-> IF r \in Removed(log) THEN 0 ELSE WindowOf(log, r)]]

LEMMA AppendFacts ==
    ASSUME NEW log \in Seq(Lines), NEW line \in Lines
    PROVE  LET n == Len(log)
               new == Append(log, line)
           IN  /\ n \in Nat /\ new \in Seq(Lines) /\ Len(new) = n + 1
               /\ new[n + 1] = line /\ \A i \in 1..n : new[i] = log[i]
               /\ \A kind : /\ At(log, kind) \in SUBSET (1..n)
                            /\ line.kind = kind => At(new, kind) = At(log, kind) \cup {n + 1}
                            /\ line.kind # kind => At(new, kind) = At(log, kind)
<1> DEFINE n == Len(log)
           new == Append(log, line)
<1>1. /\ n \in Nat /\ new \in Seq(Lines) /\ Len(new) = n + 1
      /\ new[n + 1] = line /\ \A i \in 1..n : new[i] = log[i]
    OBVIOUS
<1>2. DOMAIN new = 1..(n + 1) /\ DOMAIN log = 1..n /\ 1..(n + 1) = (1..n) \cup {n + 1}
    BY <1>1
<1> HIDE DEF n, new
<1>3. \A kind : /\ At(log, kind) \in SUBSET (1..n)
                /\ line.kind = kind => At(new, kind) = At(log, kind) \cup {n + 1}
                /\ line.kind # kind => At(new, kind) = At(log, kind)
    BY <1>1, <1>2 DEF At
<1> QED
    BY <1>1, <1>3 DEF n, new

\* The same for the lines of one kind.
LEMMA Grows ==
    ASSUME NEW log \in Seq(Lines), NEW line \in Lines, NEW kind
    PROVE  At(Append(log, line), kind) =
               IF line.kind = kind THEN At(log, kind) \cup {Len(log) + 1} ELSE At(log, kind)
<1> DEFINE n == Len(log)
           new == Append(log, line)
<1>1. n \in Nat /\ new[n + 1] = line /\ \A i \in 1..n : new[i] = log[i]
    OBVIOUS
<1>2. DOMAIN new = (1..n) \cup {n + 1} /\ DOMAIN log = 1..n
    OBVIOUS
<1> HIDE DEF n, new
<1>3. At(new, kind) = IF line.kind = kind THEN At(log, kind) \cup {n + 1} ELSE At(log, kind)
    BY <1>1, <1>2 DEF At
<1> QED
    BY <1>3 DEF n, new

\* What one more line that starts no table adds to the devices and their blocks.
LEMMA StepSets ==
    ASSUME NEW log \in Seq(Lines), NEW line \in Lines,
           At(log, "header") # {}, line.kind # "header"
    PROVE  LET n == Len(log)
               new == Append(log, line)
           IN  /\ Devices(log) \in SUBSET (1..n)
               /\ Devices(new) = IF line.kind = "index" THEN Devices(log) \cup {n + 1}
                                 ELSE Devices(log)
               /\ line.kind = "index" => BlockWindows(new, n + 1) = {}
               /\ \A i \in Devices(log) :
                      /\ BlockWindows(log, i) \in SUBSET (1..n)
                      /\ BlockWindows(new, i) =
                             IF line.kind = "window" /\ i = LastDevice(log)
                             THEN BlockWindows(log, i) \cup {n + 1} ELSE BlockWindows(log, i)
<1> DEFINE n == Len(log)
           new == Append(log, line)
<1>1. /\ n \in Nat /\ \A kind : /\ At(log, kind) \in SUBSET (1..n)
                                /\ line.kind = kind => At(new, kind) = At(log, kind) \cup {n + 1}
                                /\ line.kind # kind => At(new, kind) = At(log, kind)
    BY AppendFacts
<1>2. TableStart(log) \in 1..n /\ TableStart(new) = TableStart(log)
    <2>1. TableStart(log) \in At(log, "header")
        BY <1>1, MaxFacts DEF TableStart
    <2> QED
        BY <1>1, <2>1 DEF TableStart
<1> HIDE DEF n, new
<1>3. Devices(log) \in SUBSET (1..n)
    BY <1>1 DEF Devices
<1>4. Devices(new) = IF line.kind = "index" THEN Devices(log) \cup {n + 1} ELSE Devices(log)
    <2>1. n + 1 > TableStart(log)
        BY <1>1, <1>2
    <2> QED
        BY <1>1, <1>2, <2>1 DEF Devices
<1>5. ASSUME line.kind = "index" PROVE BlockWindows(new, n + 1) = {}
    <2>1. At(new, "window") \in SUBSET (1..n)
        BY <1>1, <1>5
    <2> QED
        BY <1>1, <2>1 DEF BlockWindows
<1>6. ASSUME NEW i \in Devices(log)
      PROVE  /\ BlockWindows(log, i) \in SUBSET (1..n)
             /\ BlockWindows(new, i) = IF line.kind = "window" /\ i = LastDevice(log)
                                       THEN BlockWindows(log, i) \cup {n + 1}
                                       ELSE BlockWindows(log, i)
    <2>1. BlockWindows(log, i) \in SUBSET (1..n)
        BY <1>1 DEF BlockWindows
    <2>2. \A j \in 1..n : (\A d \in Devices(new) : d > i => j < d)
                              <=> (\A d \in Devices(log) : d > i => j < d)
        BY <1>1, <1>4
    <2>3. BlockWindows(new, i) \cap (1..n) = BlockWindows(log, i)
        BY <1>1, <2>1, <2>2 DEF BlockWindows
    <2>4. n + 1 \in BlockWindows(new, i) <=> line.kind = "window" /\ i = LastDevice(log)
        <3>1. LastDevice(log) \in Devices(log) /\ \A d \in Devices(log) : LastDevice(log) >= d
            BY <1>1, <1>3, MaxFacts DEF LastDevice
        <3>2. n + 1 \in At(new, "window") <=> line.kind = "window"
            BY <1>1
        <3>3. n + 1 > i /\ \A d \in Devices(log) : ~(n + 1 < d)
            BY <1>1, <1>3
        <3>4. line.kind = "window" => Devices(new) = Devices(log)
            BY <1>4
        <3>5. (\A d \in Devices(log) : ~(d > i)) <=> i = LastDevice(log)
            BY <1>1, <1>3, <3>1
        <3> QED
            BY <3>2, <3>3, <3>4, <3>5 DEF BlockWindows
    <2>5. BlockWindows(new, i) \in SUBSET ((1..n) \cup {n + 1})
        BY <1>1 DEF BlockWindows
    <2> QED
        BY <1>1, <2>1, <2>3, <2>4, <2>5
<1> QED
    BY <1>3, <1>4, <1>5, <1>6 DEF n, new

\* With the same devices, and the same first windows, it is the same table.
LEMMA SameTable ==
    ASSUME NEW log \in Seq(Lines), NEW new \in Seq(Lines), Complete(new) = Complete(log),
           \A i \in Complete(log) :
               new[i].n = log[i].n /\ new[Min(BlockWindows(new, i))].n = log[Min(BlockWindows(log, i))].n
    PROVE  Listed(new) = Listed(log) /\ \A r \in Listed(log) : WindowOf(new, r) = WindowOf(log, r)
<1>1. Listed(new) = Listed(log)
    BY DEF Listed
<1>2. ASSUME NEW i \in Complete(log) PROVE WindowOf(new, log[i].n) = WindowOf(log, log[i].n)
    <2>1. {j \in Complete(new) : new[j].n = log[i].n} = {j \in Complete(log) : log[j].n = log[i].n}
        OBVIOUS
    <2>2. DeviceOf(new, log[i].n) = DeviceOf(log, log[i].n)
        BY <2>1 DEF DeviceOf
    <2>3. DeviceOf(log, log[i].n) \in Complete(log)
        BY DeviceFacts
    <2> QED
        BY <2>2, <2>3 DEF WindowOf
<1> QED
    BY <1>1, <1>2 DEF Listed

\* A removal comes last: no line of a table, nor its header, has one before it.
LEMMA NoRemovalYet ==
    ASSUME NEW log \in Seq(Lines), NEW line \in Lines, RemovalsComeLast(Append(log, line)),
           line.kind \in {"header", "index", "window"}
    PROVE  Removed(log) = {} /\ Removed(Append(log, line)) = {}
<1> DEFINE n == Len(log)
           new == Append(log, line)
<1>1. /\ n \in Nat /\ \A kind : /\ At(log, kind) \in SUBSET (1..n)
                                /\ line.kind = kind => At(new, kind) = At(log, kind) \cup {n + 1}
                                /\ line.kind # kind => At(new, kind) = At(log, kind)
    BY AppendFacts
<1>2. \A i \in At(new, "remove") : \A j \in At(new, line.kind) : j < i
    BY DEF RemovalsComeLast
<1> HIDE DEF n, new
<1>3. At(new, "remove") = At(log, "remove") /\ n + 1 \in At(new, line.kind)
    BY <1>1
<1>4. At(log, "remove") = {}
    <2> SUFFICES ASSUME NEW i \in At(log, "remove") PROVE FALSE
        OBVIOUS
    <2>1. n + 1 < i /\ i \in 1..n
        BY <1>1, <1>2, <1>3
    <2> QED
        BY <1>1, <2>1
<1> QED
    BY <1>3, <1>4 DEF Removed, new

LEMMA HeaderStep ==
    ASSUME NEW log \in Seq(Lines), NEW line \in Lines, line.kind = "header"
    PROVE  Parsed(Append(log, line)) = Read(Parsed(log), line)
<1> DEFINE n == Len(log)
           new == Append(log, line)
<1>1. n \in Nat /\ \A kind : At(log, kind) \in SUBSET (1..n)
    BY AppendFacts
<1>1a. At(new, "header") = At(log, "header") \cup {n + 1} /\ At(new, "index") = At(log, "index")
    BY Grows
<1> HIDE DEF n, new
<1>2. TableStart(new) = n + 1
    BY <1>1, <1>1a, MaxIs DEF TableStart
<1>3. Devices(new) = {}
    BY <1>1, <1>1a, <1>2 DEF Devices
<1>4. Listed(new) = {}
    BY <1>3 DEF Listed, Complete
<1>5. Parsed(new) = [device |-> NoDevice, table |-> TRUE, dist |-> Unknown]
    BY <1>1a, <1>3, <1>4 DEF Parsed, Unknown
<1>6. Read(Parsed(log), line) = [device |-> NoDevice, table |-> TRUE, dist |-> Unknown]
    BY DEF Read
<1> QED
    BY <1>5, <1>6 DEF new

\* Before the first table the reader notes nothing.
LEMMA NoTableStep ==
    ASSUME NEW log \in Seq(Lines), NEW line \in Lines,
           line.kind # "header", At(log, "header") = {}
    PROVE  Parsed(Append(log, line)) = Read(Parsed(log), line)
<1>1. Parsed(Append(log, line)) = NothingRead /\ Parsed(log) = NothingRead
    BY Grows DEF Parsed
<1>2. ~NothingRead.table /\ ~NothingRead.device.open /\ DOMAIN NothingRead.dist = {}
    BY DEF NothingRead, NoDevice, Unknown
<1>3. Read(NothingRead, line) = NothingRead
    BY <1>2 DEF Read
<1> QED
    BY <1>1, <1>3

LEMMA IndexStep ==
    ASSUME NEW log \in Seq(Lines), NEW line \in Lines, RemovalsComeLast(Append(log, line)),
           line.kind = "index", At(log, "header") # {}
    PROVE  Parsed(Append(log, line)) = Read(Parsed(log), line)
<1> DEFINE n == Len(log)
           new == Append(log, line)
           device == [open |-> TRUE, rank |-> line.n]
<1>1. /\ n \in Nat /\ new \in Seq(Lines) /\ Len(new) = n + 1
      /\ new[n + 1] = line /\ \A i \in 1..n : new[i] = log[i]
    BY AppendFacts
<1>1a. At(new, "header") # {}
    BY Grows
<1>2. /\ Devices(log) \in SUBSET (1..n) /\ Devices(new) = Devices(log) \cup {n + 1}
      /\ BlockWindows(new, n + 1) = {}
      /\ \A i \in Devices(log) : BlockWindows(new, i) = BlockWindows(log, i)
                                 /\ BlockWindows(log, i) \in SUBSET (1..n)
    BY StepSets
<1>3. Removed(log) = {} /\ Removed(new) = {}
    BY NoRemovalYet
<1> HIDE DEF n, new
<1>4. LastDevice(new) = n + 1
    BY <1>1, <1>2, MaxIs DEF LastDevice
<1>5. Complete(new) = Complete(log)
    BY <1>2 DEF Complete
<1>6. \A i \in Complete(log) :
          new[i].n = log[i].n /\ new[Min(BlockWindows(new, i))].n = log[Min(BlockWindows(log, i))].n
    <2> SUFFICES ASSUME NEW i \in Complete(log)
                 PROVE  /\ new[i].n = log[i].n
                        /\ new[Min(BlockWindows(new, i))].n = log[Min(BlockWindows(log, i))].n
        OBVIOUS
    <2>1. /\ i \in 1..n /\ BlockWindows(new, i) = BlockWindows(log, i)
          /\ BlockWindows(log, i) \in SUBSET (1..n) /\ BlockWindows(log, i) # {}
        BY <1>2 DEF Complete
    <2>2. Min(BlockWindows(log, i)) \in 1..n
        BY <1>1, <2>1, MinFacts
    <2> QED
        BY <1>1, <2>1, <2>2
<1>7. Listed(new) = Listed(log) /\ \A r \in Listed(log) : WindowOf(new, r) = WindowOf(log, r)
    BY <1>1, <1>5, <1>6, SameTable
<1>8. Parsed(new) = [device |-> device, table |-> TRUE, dist |-> [r \in Listed(log) |-> WindowOf(log, r)]]
    BY <1>1, <1>1a, <1>2, <1>3, <1>4, <1>7 DEF Parsed
<1>9. Parsed(log).table /\ Parsed(log).dist = [r \in Listed(log) |-> WindowOf(log, r)]
    BY <1>3 DEF Parsed
<1>10. Read(Parsed(log), line) = [device |-> device, table |-> TRUE, dist |-> [r \in Listed(log) |-> WindowOf(log, r)]]
    BY <1>3 DEF Read, Parsed
<1> QED
    BY <1>8, <1>10 DEF new

\* The first window line after a device line completes the device.
LEMMA WindowStep ==
    ASSUME NEW log \in Seq(Lines), NEW line \in Lines, RemovalsComeLast(Append(log, line)),
           line.kind = "window", Parsed(log).device.open, At(log, "header") # {}
    PROVE  Parsed(Append(log, line)) = Read(Parsed(log), line)
<1> DEFINE n == Len(log)
           new == Append(log, line)
           last == LastDevice(log)
           rank == log[last].n
<1>1. /\ n \in Nat /\ new \in Seq(Lines) /\ Len(new) = n + 1
      /\ new[n + 1] = line /\ \A i \in 1..n : new[i] = log[i]
    BY AppendFacts
<1>1a. At(new, "header") # {}
    BY Grows
<1>2. /\ Devices(log) \in SUBSET (1..n) /\ Devices(new) = Devices(log)
      /\ \A i \in Devices(log) :
             /\ BlockWindows(log, i) \in SUBSET (1..n)
             /\ BlockWindows(new, i) =
                    IF i = last THEN BlockWindows(log, i) \cup {n + 1} ELSE BlockWindows(log, i)
    BY StepSets
<1>3. Removed(log) = {} /\ Removed(new) = {}
    BY NoRemovalYet
<1>4. /\ Devices(log) # {} /\ BlockWindows(log, last) = {}
      /\ Parsed(log) = [device |-> [open |-> TRUE, rank |-> rank], table |-> TRUE,
                        dist |-> [r \in Listed(log) |-> WindowOf(log, r)]]
    BY <1>3 DEF Parsed, NoDevice
<1> HIDE DEF n, new
<1>5. last \in Devices(log) /\ \A d \in Devices(log) : last >= d
    BY <1>1, <1>2, <1>4, MaxFacts DEF LastDevice
<1>6. LastDevice(new) = last
    BY <1>2 DEF LastDevice
<1> HIDE DEF last
<1>7. BlockWindows(new, last) = {n + 1}
    BY <1>2, <1>4, <1>5
<1>8. Complete(new) = Complete(log) \cup {last} /\ last \notin Complete(log)
    BY <1>2, <1>4, <1>5, <1>7 DEF Complete
<1>9. Listed(new) = Listed(log) \cup {rank}
    BY <1>1, <1>2, <1>5, <1>8 DEF Listed, Complete
<1>10. WindowOf(new, rank) = line.n
    <2>1. {i \in Complete(new) : new[i].n = rank} \in SUBSET Nat
        BY <1>1, <1>2 DEF Complete
    <2>2. last \in {i \in Complete(new) : new[i].n = rank} /\ \A i \in Complete(new) : last >= i
        BY <1>1, <1>2, <1>5, <1>8 DEF Complete
    <2>3. DeviceOf(new, rank) = last
        BY <2>1, <2>2, MaxIs DEF DeviceOf
    <2>4. Min(BlockWindows(new, last)) = n + 1
        BY <1>1, <1>7, MinIs
    <2> QED
        BY <1>1, <2>3, <2>4 DEF WindowOf
<1>11. ASSUME NEW i \in Complete(log), log[i].n # rank
       PROVE  WindowOf(new, log[i].n) = WindowOf(log, log[i].n)
    <2> DEFINE device == DeviceOf(log, log[i].n)
    <2>1. {j \in Complete(new) : new[j].n = log[i].n} = {j \in Complete(log) : log[j].n = log[i].n}
        BY <1>1, <1>2, <1>5, <1>8, <1>11 DEF Complete
    <2>2. DeviceOf(new, log[i].n) = device
        BY <2>1 DEF DeviceOf
    <2>3. /\ device \in Complete(log)
          /\ Min(BlockWindows(log, device)) \in BlockWindows(log, device)
        BY DeviceFacts
    <2> HIDE DEF device
    <2>4. device \in Devices(log) /\ device # last
        BY <1>8, <2>3 DEF Complete
    <2>5. BlockWindows(new, device) = BlockWindows(log, device)
        BY <1>2, <2>4
    <2>6. Min(BlockWindows(log, device)) \in 1..n
        BY <1>2, <2>3, <2>4
    <2> QED
        BY <1>1, <2>2, <2>5, <2>6 DEF WindowOf, device
<1>12. \A r \in Listed(new) : WindowOf(new, r) = IF r = rank THEN line.n ELSE WindowOf(log, r)
    BY <1>9, <1>10, <1>11 DEF Listed
<1> HIDE DEF rank
<1> DEFINE dist == [r \in Listed(log) \cup {rank} |-> IF r = rank THEN line.n ELSE WindowOf(log, r)]
<1>13. Parsed(new) = [device |-> NoDevice, table |-> TRUE, dist |-> dist]
    BY <1>1, <1>1a, <1>2, <1>3, <1>6, <1>7, <1>9, <1>12 DEF Parsed
<1>14. Read(Parsed(log), line) = [device |-> NoDevice, table |-> TRUE, dist |-> dist]
    <2> DEFINE old == [r \in Listed(log) |-> WindowOf(log, r)]
               state == [device |-> [open |-> TRUE, rank |-> rank], table |-> TRUE, dist |-> old]
    <2>1. [r \in DOMAIN old \cup {rank} |-> IF r = rank THEN line.n ELSE old[r]] = dist
        OBVIOUS
    <2> HIDE DEF old, dist
    <2>2. Read(state, line) =
              [device |-> NoDevice, table |-> TRUE,
               dist |-> [r \in DOMAIN old \cup {rank} |-> IF r = rank THEN line.n ELSE old[r]]]
        BY DEF Read
    <2>3. Parsed(log) = state
        BY <1>4 DEF old
    <2> QED
        BY <2>1, <2>2, <2>3
<1> QED
    BY <1>13, <1>14 DEF new

\* Any other line leaves devices and blocks alone, or adds a window to a block that
\* has one.
LEMMA SameBlocks ==
    ASSUME NEW log \in Seq(Lines), NEW line \in Lines, At(log, "header") # {},
           line.kind \notin {"header", "index"},
           line.kind = "window" => ~Parsed(log).device.open
    PROVE  LET new == Append(log, line)
           IN  /\ Devices(new) = Devices(log)
               /\ \A i \in Devices(log) :
                      (BlockWindows(new, i) = {}) = (BlockWindows(log, i) = {})
               /\ Devices(log) # {} => new[LastDevice(log)] = log[LastDevice(log)]
               /\ Listed(new) = Listed(log)
               /\ \A r \in Listed(log) : WindowOf(new, r) = WindowOf(log, r)
<1> DEFINE n == Len(log)
           new == Append(log, line)
           last == LastDevice(log)
<1>1. /\ n \in Nat /\ new \in Seq(Lines) /\ \A i \in 1..n : new[i] = log[i]
    BY AppendFacts
<1>2. /\ Devices(log) \in SUBSET (1..n) /\ Devices(new) = Devices(log)
      /\ \A i \in Devices(log) :
             /\ BlockWindows(log, i) \in SUBSET (1..n)
             /\ BlockWindows(new, i) = IF line.kind = "window" /\ i = last
                                       THEN BlockWindows(log, i) \cup {n + 1}
                                       ELSE BlockWindows(log, i)
    BY StepSets
<1>3. line.kind = "window" /\ Devices(log) # {} => BlockWindows(log, last) # {}
    BY DEF Parsed
<1> HIDE DEF n, new
<1>4. ASSUME NEW i \in Devices(log)
      PROVE  /\ (BlockWindows(new, i) = {}) = (BlockWindows(log, i) = {})
             /\ BlockWindows(log, i) # {} =>
                    /\ Min(BlockWindows(log, i)) \in 1..n
                    /\ Min(BlockWindows(new, i)) = Min(BlockWindows(log, i))
    <2>1. (BlockWindows(new, i) = {}) = (BlockWindows(log, i) = {})
        BY <1>2, <1>3
    <2>2. ASSUME BlockWindows(log, i) # {}
          PROVE  /\ Min(BlockWindows(log, i)) \in 1..n
                 /\ Min(BlockWindows(new, i)) = Min(BlockWindows(log, i))
        <3> DEFINE first == Min(BlockWindows(log, i))
        <3>1. first \in BlockWindows(log, i) /\ \A j \in BlockWindows(log, i) : first <= j
            BY <1>1, <1>2, <2>2, MinFacts
        <3> HIDE DEF first
        <3>2. first \in 1..n /\ first <= n + 1
            BY <1>1, <1>2, <3>1
        <3>3. BlockWindows(new, i) \in SUBSET Nat /\ first \in BlockWindows(new, i)
            BY <1>1, <1>2, <3>1
        <3>4. \A j \in BlockWindows(new, i) : first <= j
            BY <1>2, <3>1, <3>2
        <3>5. Min(BlockWindows(new, i)) = first
            BY <3>3, <3>4, MinIs
        <3> QED
            BY <3>2, <3>5 DEF first
    <2> QED
        BY <2>1, <2>2
<1>5. Complete(new) = Complete(log)
    BY <1>2, <1>4 DEF Complete
<1>6. \A i \in Complete(log) :
          new[i].n = log[i].n /\ new[Min(BlockWindows(new, i))].n = log[Min(BlockWindows(log, i))].n
    BY <1>1, <1>2, <1>4 DEF Complete
<1>7. Listed(new) = Listed(log) /\ \A r \in Listed(log) : WindowOf(new, r) = WindowOf(log, r)
    BY <1>1, <1>5, <1>6, SameTable
<1>8. Devices(log) # {} => new[last] = log[last]
    <2>1. Devices(log) # {} => last \in Devices(log)
        BY <1>1, <1>2, MaxFacts DEF LastDevice
    <2> QED
        BY <1>1, <1>2, <2>1
<1> QED
    BY <1>2, <1>4, <1>7, <1>8 DEF new

LEMMA OtherStep ==
    ASSUME NEW log \in Seq(Lines), NEW line \in Lines, At(log, "header") # {},
           line.kind \notin {"header", "index"},
           line.kind = "window" => ~Parsed(log).device.open
    PROVE  Parsed(Append(log, line)) = Read(Parsed(log), line)
<1> DEFINE new == Append(log, line)
           device == IF Devices(log) # {} /\ BlockWindows(log, LastDevice(log)) = {}
                     THEN [open |-> TRUE, rank |-> log[LastDevice(log)].n] ELSE NoDevice
           dist(l) == [r \in Listed(log) |-> IF r \in Removed(l) THEN 0 ELSE WindowOf(log, r)]
<1>1. /\ Devices(new) = Devices(log)
      /\ \A i \in Devices(log) : (BlockWindows(new, i) = {}) = (BlockWindows(log, i) = {})
      /\ Devices(log) # {} => new[LastDevice(log)] = log[LastDevice(log)]
      /\ Listed(new) = Listed(log)
      /\ \A r \in Listed(log) : WindowOf(new, r) = WindowOf(log, r)
    BY SameBlocks
<1>2. At(new, "header") # {}
    BY Grows
<1>3. Devices(log) # {} => LastDevice(log) \in Devices(log)
    BY AppendFacts, MaxFacts DEF LastDevice, Devices
<1>4. Removed(new) = IF line.kind = "remove" THEN Removed(log) \cup {line.n} ELSE Removed(log)
    <2> DEFINE n == Len(log)
    <2>1. /\ n \in Nat /\ new[n + 1] = line /\ \A i \in 1..n : new[i] = log[i]
          /\ At(log, "remove") \in SUBSET (1..n)
        BY AppendFacts
    <2>1a. At(new, "remove") = IF line.kind = "remove" THEN At(log, "remove") \cup {n + 1}
                              ELSE At(log, "remove")
        BY Grows
    <2> HIDE DEF new, n
    <2> QED
        BY <2>1, <2>1a DEF Removed
<1> HIDE DEF new
<1>5. LastDevice(new) = LastDevice(log)
    BY <1>1 DEF LastDevice
<1>6. Parsed(new) = [device |-> device, table |-> TRUE, dist |-> dist(new)]
    BY <1>1, <1>2, <1>3, <1>5 DEF Parsed
<1>7. Parsed(log) = [device |-> device, table |-> TRUE, dist |-> dist(log)]
    BY DEF Parsed
<1>8. line.kind = "window" => ~device.open
    BY <1>7
<1> HIDE DEF device
<1>9. CASE line.kind = "remove" /\ line.n \in Listed(log)
    <2>1. dist(new) = [dist(log) EXCEPT ![line.n] = 0]
        BY <1>4, <1>9
    <2>2. line.n \in DOMAIN dist(log)
        BY <1>9
    <2> HIDE DEF dist
    <2>3. Read([device |-> device, table |-> TRUE, dist |-> dist(log)], line) =
              [device |-> device, table |-> TRUE, dist |-> [dist(log) EXCEPT ![line.n] = 0]]
        BY <1>9, <2>2 DEF Read
    <2> QED
        BY <1>6, <1>7, <2>1, <2>3 DEF new
<1>10. CASE ~(line.kind = "remove" /\ line.n \in Listed(log))
    <2>1. dist(new) = dist(log)
        BY <1>4, <1>10
    <2>2. ~(line.kind = "remove" /\ line.n \in DOMAIN dist(log))
        BY <1>10
    <2> HIDE DEF dist
    <2>3. Read([device |-> device, table |-> TRUE, dist |-> dist(log)], line) =
              [device |-> device, table |-> TRUE, dist |-> dist(log)]
        BY <1>8, <2>2 DEF Read
    <2> QED
        BY <1>6, <1>7, <2>1, <2>3 DEF new
<1> QED
    BY <1>9, <1>10

LEMMA ParsedStep ==
    ASSUME NEW log \in Seq(Lines), NEW line \in Lines, RemovalsComeLast(Append(log, line))
    PROVE  Parsed(Append(log, line)) = Read(Parsed(log), line)
<1>1. CASE line.kind = "header"
    BY <1>1, HeaderStep
<1>2. CASE line.kind # "header" /\ At(log, "header") = {}
    BY <1>2, NoTableStep
<1>3. CASE line.kind = "index" /\ At(log, "header") # {}
    BY <1>3, IndexStep
<1>4. CASE line.kind = "window" /\ Parsed(log).device.open /\ At(log, "header") # {}
    BY <1>4, WindowStep
<1>5. CASE /\ line.kind \notin {"header", "index"} /\ At(log, "header") # {}
           /\ line.kind = "window" => ~Parsed(log).device.open
    BY <1>5, OtherStep
<1> QED
    BY <1>1, <1>2, <1>3, <1>4, <1>5

\* The reader knows after each line what the parser finds in the lines so far: at
\* the least number of lines where they differed, the line before would decide.
LEMMA ReaderParses ==
    ASSUME NEW log \in Seq(Lines), RemovalsComeLast(log)
    PROVE  Reader(log)[Len(log)] = Parsed(log)
<1> DEFINE prefix(k) == [i \in 1..k |-> log[i]]
           reader_ == Reader(log)
           f == [k \in 0..Len(log) |-> Parsed(prefix(k))]
           differ == {k \in 0..Len(log) : reader_[k] # f[k]}
<1>1. Len(log) \in Nat /\ prefix(Len(log)) = log
    OBVIOUS
<1>2. f[0] = NothingRead
    <2>1. At(prefix(0), "header") = {}
        BY DEF At
    <2> QED
        BY <1>1, <2>1 DEF Parsed
<1>3. ASSUME NEW k \in 0..Len(log), k # 0 PROVE f[k] = Read(f[k - 1], log[k])
    <2>1. /\ k - 1 \in 0..Len(log) /\ k - 1 \in Nat /\ log[k] \in Lines
          /\ prefix(k - 1) \in Seq(Lines)
        BY <1>1, <1>3
    <2>2. prefix(k) = Append(prefix(k - 1), log[k])
        BY <1>1, <1>3, <2>1
    <2>3. RemovalsComeLast(prefix(k))
        <3>1. \A kind : At(prefix(k), kind) \subseteq At(log, kind)
            BY <1>1 DEF At
        <3> QED
            BY <3>1 DEF RemovalsComeLast
    <2> HIDE DEF prefix
    <2>4. Parsed(Append(prefix(k - 1), log[k])) = Read(Parsed(prefix(k - 1)), log[k])
        BY <2>1, <2>2, <2>3, ParsedStep
    <2> QED
        BY <2>1, <2>2, <2>4
<1> HIDE DEF f
<1>4. f = [k \in 0..Len(log) |-> IF k = 0 THEN NothingRead ELSE Read(f[k - 1], log[k])]
    BY <1>2, <1>3 DEF f
<1>5. reader_ = [k \in 0..Len(log) |-> IF k = 0 THEN NothingRead ELSE Read(reader_[k - 1], log[k])]
    BY <1>4 DEF Reader
<1> HIDE DEF reader_
<1>6. differ = {}
    <2> SUFFICES ASSUME differ # {} PROVE FALSE
        OBVIOUS
    <2>1. differ \in SUBSET Nat
        BY <1>1
    <2>2. PICK m \in differ : \A k \in differ : m <= k
        BY <2>1, LeastExists
    <2>3. m # 0
        BY <1>1, <1>2, <1>5, <2>2
    <2>4. m \in 0..Len(log) /\ m - 1 \in 0..Len(log) /\ reader_[m - 1] = f[m - 1]
        BY <1>1, <2>2, <2>3
    <2>5. reader_[m] = f[m]
        BY <1>3, <1>5, <2>3, <2>4
    <2> QED
        BY <2>2, <2>5
<1>7. reader_[Len(log)] = f[Len(log)]
    BY <1>1, <1>6
<1> QED
    BY <1>1, <1>7 DEF f, reader_

LEMMA ParserReads ==
    ASSUME NEW log \in Seq(Lines), RemovalsComeLast(log)
    PROVE  parse_distribution(log) = Reading(log)
<1>1. Reading(log) = IF Parsed(log).dist = Unknown THEN NoDistribution ELSE Parsed(log).dist
    BY ReaderParses DEF Reading
<1>2. CASE At(log, "header") = {}
    BY <1>1, <1>2 DEF Parsed, NothingRead, parse_distribution
<1>3. CASE At(log, "header") # {} /\ Complete(log) = {}
    <2>1. Parsed(log).dist = Unknown
        BY <1>3 DEF Parsed, Listed, Unknown
    <2> QED
        BY <1>1, <1>3, <2>1 DEF parse_distribution
<1>4. CASE At(log, "header") # {} /\ Complete(log) # {}
    <2>1. Listed(log) # {} /\ DOMAIN Unknown = {}
        BY <1>4 DEF Listed, Unknown
    <2>2. DOMAIN Parsed(log).dist = Listed(log)
        BY <1>4 DEF Parsed
    <2>3. Parsed(log).dist # Unknown
        BY <2>1, <2>2
    <2>4. parse_distribution(log) = Parsed(log).dist
        BY <1>4 DEF Parsed, parse_distribution, Listed, WindowOf
    <2> QED
        BY <1>1, <2>3, <2>4
<1> QED
    BY <1>2, <1>3, <1>4

\* Where nothing is removed early and no device has an empty window, 0 layers
\* means a removal after the table.
LEMMA PrunedWhenLast ==
    ASSUME NEW log \in Seq(Lines), NEW w, NEW r, RemovalsComeLast(log),
           \A i \in At(log, "window") : log[i].n # 0,
           build_distribution(log, w) # NoDistribution,
           r \in DOMAIN build_distribution(log, w), build_distribution(log, w)[r] = 0
    PROVE  \E i \in At(log, "remove") : log[i].n = r /\ i > TableStart(log)
<1>1. CASE parse_distribution(log) = NoDistribution
    <2>1. /\ At(log, "using") # {} /\ log[Min(At(log, "using"))].n > 0
          /\ build_distribution(log, w) = [q \in {0} |-> log[Min(At(log, "using"))].n]
        BY <1>1 DEF build_distribution
    <2>2. log[Min(At(log, "using"))].n = 0
        BY <2>1
    <2> QED
        BY <2>1, <2>2
<1>2. CASE parse_distribution(log) # NoDistribution
    <2>1. /\ At(log, "header") # {}
          /\ build_distribution(log, w) = [q \in Listed(log) |->
                 IF q \in Removed(log) THEN 0 ELSE WindowOf(log, q)]
        BY <1>2 DEF build_distribution, parse_distribution, Listed, WindowOf
    <2>2. PICK i \in Complete(log) : r = log[i].n
        BY <2>1 DEF Listed
    <2>3. Min(BlockWindows(log, DeviceOf(log, r))) \in At(log, "window")
        BY <2>2, DeviceFacts DEF BlockWindows
    <2>4. WindowOf(log, r) # 0
        BY <2>3 DEF WindowOf
    <2>5. r \in Removed(log)
        BY <2>1, <2>4
    <2>6. PICK j \in At(log, "remove") : log[j].n = r
        BY <2>5 DEF Removed
    <2>7. TableStart(log) \in At(log, "header")
        <3>1. At(log, "header") \in SUBSET (1..Len(log)) /\ Len(log) \in Nat
            BY LineFacts
        <3> QED
            BY <2>1, <3>1, MaxFacts DEF TableStart
    <2>8. TableStart(log) < j
        BY <2>7 DEF RemovalsComeLast
    <2>9. j \in Nat /\ TableStart(log) \in Nat
        BY <2>7, LineFacts
    <2> QED
        BY <2>6, <2>8, <2>9
<1> QED
    BY <1>1, <1>2

-----------------------------------------------------------------------------
(* The invariants *)

\* What is captured is the end of what was printed.
Captured ==
    /\ Len(printed) - Len(lines) \in Nat
    /\ Trims(lines, printed, Len(printed) - Len(lines))

HeadInv == TypeOK /\ Captured /\ CloseWaitsForTheDead /\ NoTableIsUnknown

LEMMA PrintLineInv ==
    ASSUME HeadInv, NEW line \in Lines, PrintLine(line) PROVE HeadInv'
<1> DEFINE all == Append(lines, line)
           k == Len(printed) - Len(lines)
<1>1. /\ printed \in Seq(Lines) /\ lines \in Seq(Lines) /\ Len(lines) <= MaxLines
      /\ Len(printed) < MaxPrinted /\ k \in Nat /\ Len(printed) = Len(lines) + k
      /\ \A i \in 1..Len(lines) : lines[i] = printed[i + k]
    BY DEF HeadInv, TypeOK, PrintLine, Captured, Trims
<1>2. /\ printed' = Append(printed, line) /\ pc' = pc /\ pc # "done"
      /\ UNCHANGED <<mode, world, report, stage, child, reader>>
      /\ lines' = IF Len(all) > MaxLines THEN Tail(all) ELSE all
    BY DEF PrintLine, Capture, launch, life
<1>3. /\ printed' \in Seq(Lines) /\ Len(printed') = Len(printed) + 1
      /\ printed'[Len(printed) + 1] = line
      /\ \A i \in 1..Len(printed) : printed'[i] = printed[i]
    BY <1>1, <1>2
<1>4. /\ all \in Seq(Lines) /\ Len(all) = Len(lines) + 1 /\ Len(lines) \in Nat
      /\ all[Len(lines) + 1] = line
      /\ \A i \in 1..Len(lines) : all[i] = lines[i]
    BY <1>1
<1> HIDE DEF all, k
<1>5. \A i \in 1..Len(all) : all[i] = printed'[i + k]
    <2> SUFFICES ASSUME NEW i \in 1..Len(all) PROVE all[i] = printed'[i + k]
        OBVIOUS
    <2>1. CASE i = Len(lines) + 1
        BY <1>1, <1>3, <1>4, <2>1
    <2>2. CASE i \in 1..Len(lines)
        <3>1. i + k \in 1..Len(printed)
            BY <1>1, <2>2
        <3> QED
            BY <1>1, <1>3, <1>4, <2>2, <3>1
    <2> QED
        BY <1>4, <2>1, <2>2
<1>6. /\ lines' \in Seq(Lines) /\ Len(lines') <= MaxLines /\ Captured'
    <2>1. CASE Len(all) > MaxLines
        <3>1. lines' = Tail(all) /\ all # <<>>
            BY <1>2, <1>4, <2>1
        <3>2. /\ lines' \in Seq(Lines) /\ Len(lines') = Len(lines)
              /\ \A i \in 1..Len(lines') : lines'[i] = all[i + 1]
            BY <1>4, <3>1
        <3>3. Len(printed') - Len(lines') = k + 1
            BY <1>1, <1>3, <3>2
        <3>4. \A i \in 1..Len(lines') : lines'[i] = printed'[i + (k + 1)]
            <4> SUFFICES ASSUME NEW i \in 1..Len(lines') PROVE lines'[i] = printed'[i + (k + 1)]
                OBVIOUS
            <4>1. i + 1 \in 1..Len(all) /\ (i + 1) + k = i + (k + 1)
                <5>1. Len(all) = Len(lines') + 1 /\ Len(lines') \in Nat /\ k \in Nat
                    BY <1>1, <1>4, <3>2
                <5> QED
                    BY <5>1
            <4> QED
                BY <1>5, <3>2, <4>1
        <3>5. Captured'
            <4>1. Len(printed') = Len(lines') + (k + 1) /\ k + 1 \in Nat
                BY <1>1, <1>3, <3>2
            <4> QED
                BY <3>3, <3>4, <4>1 DEF Captured, Trims
        <3> QED
            BY <1>1, <3>2, <3>5
    <2>2. CASE ~(Len(all) > MaxLines)
        <3>1. lines' = all /\ Len(all) <= MaxLines
            BY <1>2, <1>4, <2>2, BoundsAssumption
        <3>2. Len(printed') - Len(lines') = k
            BY <1>1, <1>3, <1>4, <3>1
        <3>3. Captured'
            <4>1. Len(printed') = Len(lines') + k /\ k \in Nat
                BY <1>1, <1>3, <1>4, <3>1
            <4>2. \A i \in 1..Len(lines') : lines'[i] = printed'[i + k]
                BY <1>5, <3>1
            <4> QED
                BY <3>2, <4>1, <4>2 DEF Captured, Trims
        <3> QED
            BY <1>4, <3>1, <3>3
    <2> QED
        BY <2>1, <2>2
<1>7. TypeOK'
    BY <1>1, <1>2, <1>3, <1>6, BoundsAssumption DEF HeadInv, TypeOK
<1>8. CloseWaitsForTheDead' /\ NoTableIsUnknown'
    BY <1>2 DEF HeadInv, CloseWaitsForTheDead, NoTableIsUnknown
<1> QED
    BY <1>6, <1>7, <1>8 DEF HeadInv

LEMMA MonitorInv ==
    ASSUME HeadInv, Monitor PROVE HeadInv'
<1>1. UNCHANGED <<mode, world, printed, lines, stage, child, reader>>
    BY DEF Monitor, SeeMarker, TimeOut, Report, ReportUnknown, launch, output, life
<1>2. Captured' /\ CloseWaitsForTheDead'
    BY <1>1 DEF HeadInv, Captured, Trims, CloseWaitsForTheDead
<1>3. lines \in Seq(Lines) /\ world \in Nat
    BY WorldsAssumption DEF HeadInv, TypeOK
<1>4. CASE SeeMarker \/ TimeOut
    <2>1. pc' = "read" /\ report' = report
        BY <1>4 DEF SeeMarker, TimeOut
    <2> QED
        BY <1>1, <1>2, <2>1 DEF HeadInv, TypeOK, NoTableIsUnknown
<1>5. CASE Report
    <2>1. /\ pc' = "done"
          /\ report' = IF build_distribution(lines, world) = NoDistribution THEN Unknown
                       ELSE build_distribution(lines, world)
        BY <1>5 DEF Report
    <2>2. /\ report' \in Distributions
          /\ world > 1 /\ At(lines, "header") = {} => report' = Unknown
        BY <1>3, <2>1, BuildFacts
    <2>3. TypeOK' /\ NoTableIsUnknown'
        BY <1>1, <2>1, <2>2 DEF HeadInv, TypeOK, NoTableIsUnknown, At
    <2> QED
        BY <1>2, <2>3 DEF HeadInv
<1>6. CASE ReportUnknown
    <2>1. pc' = "done" /\ report' = Unknown /\ Unknown \in Distributions
        BY <1>3, <1>6, BuildFacts DEF ReportUnknown
    <2>2. TypeOK' /\ NoTableIsUnknown'
        BY <1>1, <2>1 DEF HeadInv, TypeOK, NoTableIsUnknown
    <2> QED
        BY <1>2, <2>2 DEF HeadInv
<1> QED
    BY <1>4, <1>5, <1>6 DEF Monitor

\* stop drops what was captured when it begins, and a launch starts over.
LEMMA StopInv ==
    ASSUME HeadInv, StopSteps \/ ChildEnds \/ ReaderEnds \/ Relaunch PROVE HeadInv'
<1> USE DEF StopSteps, Terminate, FindExited, WaitReturns, WaitTimesOut, CloseReturns,
            ComposeDown, ChildEnds, ReaderEnds, Relaunch, Cancel, launch, output
<1>1. /\ \/ UNCHANGED <<printed, lines>>
         \/ printed' = <<>> /\ lines' = <<>>
      /\ \/ UNCHANGED <<world, lines, pc, report>>
         \/ pc' \in {"wait", "cancelled"} /\ report' \in {report, NoReport} /\ world' \in Worlds
    BY DEF HeadInv, TypeOK
<1>2. mode' = mode
    OBVIOUS
<1>3. Captured'
    <2>1. CASE UNCHANGED <<printed, lines>>
        BY <2>1 DEF HeadInv, Captured, Trims
    <2>2. CASE printed' = <<>> /\ lines' = <<>>
        BY <2>2 DEF Captured, Trims
    <2> QED
        BY <1>1, <2>1, <2>2
<1>4. TypeOK'
    <2>1. /\ stage' \in {"launched", "wait", "close", "stopped"}
          /\ child' \in {"running", "told", "killed", "gone"}
          /\ reader' \in {"readline", "ended"}
        BY DEF HeadInv, TypeOK
    <2>2. /\ pc' \in {"wait", "read", "done", "cancelled"} /\ world' \in Worlds
          /\ report' \in Distributions \cup {NoReport}
        BY <1>1 DEF HeadInv, TypeOK
    <2>3. /\ printed' \in Seq(Lines) /\ Len(printed') <= MaxPrinted
          /\ lines' \in Seq(Lines) /\ Len(lines') <= MaxLines
        <3>1. CASE UNCHANGED <<printed, lines>>
            BY <3>1 DEF HeadInv, TypeOK
        <3>2. CASE printed' = <<>> /\ lines' = <<>>
            BY <3>2, BoundsAssumption
        <3> QED
            BY <1>1, <3>1, <3>2
    <2>4. mode' \in {"same-container", "docker"}
        BY <1>2 DEF HeadInv, TypeOK
    <2> QED
        BY <2>1, <2>2, <2>3, <2>4 DEF TypeOK
<1>5. CloseWaitsForTheDead'
    BY DEF HeadInv, CloseWaitsForTheDead
<1>6. NoTableIsUnknown'
    BY <1>1 DEF HeadInv, NoTableIsUnknown, At
<1> QED
    BY <1>3, <1>4, <1>5, <1>6 DEF HeadInv

LEMMA HeadInvariant == Spec => []HeadInv
<1>1. Init => HeadInv
    BY BoundsAssumption DEF Init, HeadInv, TypeOK, Captured, Trims, CloseWaitsForTheDead,
                            NoTableIsUnknown
<1>2. HeadInv /\ [Next]_vars => HeadInv'
    <2> SUFFICES ASSUME HeadInv, [Next]_vars PROVE HeadInv'
        OBVIOUS
    <2>1. CASE Next
        BY <2>1, PrintLineInv, MonitorInv, StopInv DEF Next
    <2>2. CASE UNCHANGED vars
        BY <2>2 DEF vars, launch, output, life, HeadInv, TypeOK, Captured, Trims,
                    CloseWaitsForTheDead, NoTableIsUnknown, At
    <2> QED
        BY <2>1, <2>2
<1> QED
    BY <1>1, <1>2, PTL DEF Spec

\* What is reported is what the parser finds in the captured lines: they stay as
\* they are once the monitor is done.
ReportIsParsed == pc = "done" => report \in {Unknown, build_distribution(lines, world)}
                                     /\ (report # Unknown => report # NoDistribution)

LEMMA ReportInvariant == Spec => []ReportIsParsed
<1>1. Init => ReportIsParsed
    BY DEF Init, ReportIsParsed
<1>2. ReportIsParsed /\ [Next]_vars => ReportIsParsed'
    <2> SUFFICES ASSUME ReportIsParsed, [Next]_vars PROVE ReportIsParsed'
        OBVIOUS
    <2>1. CASE pc' # "done"
        BY <2>1 DEF ReportIsParsed
    <2>2. CASE Report
        <3>1. /\ report' = IF build_distribution(lines, world) = NoDistribution THEN Unknown
                           ELSE build_distribution(lines, world)
              /\ lines' = lines /\ world' = world
            BY <2>2 DEF Report, launch, output
        <3>2. report' \in {Unknown, build_distribution(lines, world)}
            BY <3>1
        <3>3. report' # Unknown => report' # NoDistribution
            BY <3>1
        <3> HIDE DEF ReportIsParsed
        <3>4. build_distribution(lines', world') = build_distribution(lines, world)
            BY <3>1
        <3> QED
            BY <3>2, <3>3, <3>4 DEF ReportIsParsed
    <2>3. CASE ReportUnknown
        BY <2>3 DEF ReportUnknown, ReportIsParsed
    <2>4. CASE pc' = "done" /\ pc = "done" /\ UNCHANGED <<report, lines, world>>
        <3>1. build_distribution(lines', world') = build_distribution(lines, world)
            BY <2>4
        <3> QED
            BY <2>4, <3>1 DEF ReportIsParsed
    <2>5. pc' # "done" \/ Report \/ ReportUnknown
              \/ (pc' = "done" /\ pc = "done" /\ UNCHANGED <<report, lines, world>>)
        BY DEF Next, Monitor, StopSteps, PrintLine, SeeMarker, TimeOut, Terminate, FindExited,
               WaitReturns, WaitTimesOut, ChildEnds, ReaderEnds, CloseReturns, ComposeDown,
               Relaunch, Cancel, vars, launch, output
    <2> QED
        BY <2>1, <2>2, <2>3, <2>4, <2>5
<1> QED
    BY <1>1, <1>2, PTL DEF Spec

-----------------------------------------------------------------------------
(* The theorems *)

\* Whatever is printed and however the child is stopped, the variables have
\* their types: the buffer stays within MAX_LINES, and what is reported is a
\* distribution (prima.py:62, halda.py:104).
THEOREM HeadOutputTypeCorrect == Spec => []TypeOK
BY HeadInvariant, PTL DEF HeadInv

\* stop never waits for the reader's lock while the child may live on
\* (prima.py:247).
THEOREM CloseComesAfterTheChild == Spec => []CloseWaitsForTheDead
BY HeadInvariant, PTL DEF HeadInv

\* In a ring of several the head is never said to do all the work for lack of a
\* table (halda.py:115).
THEOREM MissingTableIsUnknown == Spec => []NoTableIsUnknown
BY HeadInvariant, PTL DEF HeadInv

\* However few of the last lines are kept, a table that lost lines is either not
\* found or read as it was printed (prima.py:62).
THEOREM TrimmedOutputIsSound == Spec => []TrimmingNeverMisleads
<1>1. HeadInv => TrimmingNeverMisleads
    BY TrimmedParse DEF HeadInv, TypeOK, Captured, TrimmingNeverMisleads
<1> QED
    BY <1>1, HeadInvariant, PTL

\* Whatever the child has printed by the time the monitor reads it, the regular
\* expressions find what a reader of the lines finds (halda.py:59).
THEOREM LastTableIsRead == Spec => []ParserReadsTheLastTable
<1>1. HeadInv => ParserReadsTheLastTable
    BY ParserReads DEF HeadInv, TypeOK, ParserReadsTheLastTable
<1> QED
    BY <1>1, HeadInvariant, PTL

\* A rank that was not removed after the table is reported without layers for
\* one cause only: a removal printed before the end of the tables (halda.py:83).
THEOREM OnlyEarlyRemovalsMislead ==
    Spec => [](RemovalsComeLast(lines) /\ (\A i \in At(lines, "window") : lines[i].n # 0)
                   => PrunedAfterTheTable)
<1> DEFINE Claim == RemovalsComeLast(lines) /\ (\A i \in At(lines, "window") : lines[i].n # 0)
                        => PrunedAfterTheTable
<1>1. HeadInv /\ ReportIsParsed => Claim
    BY PrunedWhenLast DEF HeadInv, TypeOK, ReportIsParsed, PrunedAfterTheTable
<1> QED
    BY <1>1, HeadInvariant, ReportInvariant, PTL
=============================================================================

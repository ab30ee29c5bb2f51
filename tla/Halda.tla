------------------------------- MODULE Halda -------------------------------
(***************************************************************************)
(* The parser of the layer allocation (halda.py) in what prima.cpp prints, *)
(* and a second reading of the same output to compare it with.             *)
(*                                                                         *)
(* Abstractions.  A line of output is the kind of line it is for the       *)
(* parser, with its number; lines it does not look at are left out.  A     *)
(* rank is a number where the code has its decimal string.                 *)
(***************************************************************************)
EXTENDS Naturals, Sequences, FiniteSetsExt

CONSTANTS
    Ranks, Windows, \* numbers that occur in the output
    Totals,         \* ... after "Using window size"
    NoDistribution

ASSUME NumbersAssumption ==
    Ranks \subseteq Nat /\ 0 \in Ranks /\ Windows \subseteq Nat /\ Totals \subseteq Nat

Lines == [kind: {"header", "loaded"}, n: {0}]
            \cup [kind: {"index", "remove"}, n: Ranks]
            \cup [kind: {"window"}, n: Windows] \cup [kind: {"using"}, n: Totals]

-----------------------------------------------------------------------------
At(log, kind) == {i \in DOMAIN log : log[i].kind = kind}
Distributions == UNION {[D -> Windows \cup Totals \cup {0}] : D \in SUBSET Ranks}
Unknown == [r \in {} |-> 0]

TableStart(log) == Max(At(log, "header"))

Devices(log) == {i \in At(log, "index") : i > TableStart(log)}

\* Mutant: a device's window is searched beyond the next device.
BlockWindows_Unscoped(log, i) == {j \in At(log, "window") : j > i}

\* The window lines between a device line and the next one.
BlockWindows(log, i) ==
    {j \in At(log, "window") : j > i /\ \A d \in Devices(log) : d > i => j < d}

\* Devices that have a window.  A rank listed twice has the later one's.
Complete(log) == {i \in Devices(log) : BlockWindows(log, i) # {}}
DeviceOf(log, r) == Max({i \in Complete(log) : log[i].n = r})
Removed(log) == {log[i].n : i \in At(log, "remove")}

parse_distribution(log) ==
    IF At(log, "header") = {} \/ Complete(log) = {} THEN NoDistribution
    ELSE [r \in {log[i].n : i \in Complete(log)} |->
             IF r \in Removed(log) THEN 0
             ELSE log[Min(BlockWindows(log, DeviceOf(log, r)))].n]

\* Mutant: without a table, the head is said to do all the work.
build_distribution_AnyWorld(log, w) ==
    IF parse_distribution(log) # NoDistribution THEN parse_distribution(log)
    ELSE IF At(log, "using") # {} /\ log[Min(At(log, "using"))].n > 0
         THEN [r \in {0} |-> log[Min(At(log, "using"))].n] ELSE NoDistribution

build_distribution(log, w) ==
    IF parse_distribution(log) # NoDistribution THEN parse_distribution(log)
    ELSE IF w = 1 /\ At(log, "using") # {} /\ log[Min(At(log, "using"))].n > 0
         THEN [r \in {0} |-> log[Min(At(log, "using"))].n] ELSE NoDistribution

-----------------------------------------------------------------------------
(* A second reading of the output: line by line, the way a person reads it. *)

NoDevice == [open |-> FALSE, rank |-> 0]

Read(state, line) ==
    CASE line.kind = "header" -> [device |-> NoDevice, table |-> TRUE, dist |-> Unknown]
      [] line.kind = "index" /\ state.table ->
            [state EXCEPT !.device = [open |-> TRUE, rank |-> line.n]]
      [] line.kind = "window" /\ state.device.open ->
            [state EXCEPT !.device = NoDevice,
                          !.dist = [r \in DOMAIN @ \cup {state.device.rank} |->
                                       IF r = state.device.rank THEN line.n ELSE @[r]]]
      [] line.kind = "remove" /\ line.n \in DOMAIN state.dist ->
            [state EXCEPT !.dist[line.n] = 0]
      [] OTHER -> state

NothingRead == [device |-> NoDevice, table |-> FALSE, dist |-> Unknown]

\* The state of the reader after each number of lines.
Reader(log) ==
    LET after[n \in 0..Len(log)] ==
            IF n = 0 THEN NothingRead ELSE Read(after[n - 1], log[n])
    IN  after

Reading(log) ==
    LET end == Reader(log)[Len(log)]
    IN  IF end.dist = Unknown THEN NoDistribution ELSE end.dist

\* Devices are removed after the tables, as the parser expects.
RemovalsComeLast(log) ==
    \A i \in At(log, "remove") :
        \A j \in At(log, "header") \cup At(log, "index") \cup At(log, "window") : j < i
=============================================================================

----------------------------- MODULE HeadOutput -----------------------------
(***************************************************************************)
(* The output of the head's prima.cpp, from its launch to its stop: the    *)
(* reader thread that captures it and the launcher's stop (prima.py,       *)
(* StdoutCapture and PrimaLauncher), and the wait for the readiness marker *)
(* (agent.py, _head_stdout_monitor).  stop runs in the agent's loop while  *)
(* the thread may be inside readline.                                      *)
(*                                                                         *)
(* Abstractions.  Until stop polls the child, one that has exited is one   *)
(* that prints no more.  stop is called when the monitor is cancelled, so  *)
(* that nobody reads what is captured after that, and it is dropped.       *)
(***************************************************************************)
EXTENDS Halda

CONSTANTS
    MaxLines,   \* StdoutCapture.MAX_LINES
    MaxPrinted, \* bound on the lines printed
    Worlds,     \* ring sizes
    NoReport

ASSUME WorldsAssumption == Worlds \subseteq Nat \ {0}
ASSUME BoundsAssumption == MaxLines \in Nat \ {0} /\ MaxPrinted \in Nat

VARIABLES
    mode,    \* config.prima_mode
    world,   \* len(_ring_members(config))
    printed, \* every line of the child so far (history)
    lines,   \* StdoutCapture._lines
    pc,      \* the monitor: "wait", "read" once it stopped waiting, "done", "cancelled"
    report,  \* the distribution it reports
    stage,   \* the launcher: "launched", in stop's "wait" or "close", "stopped"
    child,   \* "running", "told" by terminate, "killed" or "gone"
    reader   \* the reader thread: "readline" or "ended"

output == <<printed, lines>>
launch == <<mode, world>>
life == <<stage, child, reader>>
vars == <<launch, output, pc, report, life>>

Init ==
    /\ mode \in {"same-container", "docker"} /\ world \in Worlds
    /\ printed = <<>> /\ lines = <<>> /\ pc = "wait" /\ report = NoReport
    /\ stage = "launched" /\ child = "running" /\ reader = "readline"

-----------------------------------------------------------------------------
(* The child, the reader thread and the monitor *)

\* Mutant: a full buffer keeps its oldest lines.
Capture_KeepsOldest(line) ==
    lines' = IF Len(lines) < MaxLines THEN Append(lines, line) ELSE lines

\* The reader thread appends a line and drops the oldest ones beyond the limit.
Capture(line) ==
    lines' = LET all == Append(lines, line)
             IN  IF Len(all) > MaxLines THEN Tail(all) ELSE all

\* The child prints a line and the reader thread takes it, at any time.
PrintLine(line) ==
    /\ mode = "same-container" /\ pc \in {"wait", "read"} /\ Len(printed) < MaxPrinted
    /\ printed' = Append(printed, line)
    /\ Capture(line)
    /\ UNCHANGED <<launch, pc, report, life>>

SeeMarker ==
    /\ pc = "wait" /\ mode = "same-container" /\ At(lines, "loaded") # {}
    /\ pc' = "read"
    /\ UNCHANGED <<launch, output, report, life>>

TimeOut ==
    /\ pc = "wait" /\ mode = "same-container" /\ pc' = "read"
    /\ UNCHANGED <<launch, output, report, life>>

\* Mutant: what cannot be parsed is reported as it is.
Report_NoneAsIs ==
    /\ pc = "read" /\ pc' = "done"
    /\ report' = build_distribution(lines, world)
    /\ UNCHANGED <<launch, output, life>>

\* The output is read a second time; what cannot be parsed is {} for unknown.
Report ==
    /\ pc = "read" /\ pc' = "done"
    /\ report' = LET d == build_distribution(lines, world)
                 IN  IF d = NoDistribution THEN Unknown ELSE d
    /\ UNCHANGED <<launch, output, life>>

\* docker compose's output is not piped: {} for unknown, at once.
ReportUnknown ==
    /\ pc = "wait" /\ mode = "docker" /\ pc' = "done"
    /\ report' = Unknown
    /\ UNCHANGED <<launch, output, life>>

-----------------------------------------------------------------------------
(* PrimaLauncher.stop, and a launch after it *)

Cancel == printed' = <<>> /\ lines' = <<>> /\ pc' = "cancelled" /\ UNCHANGED report

\* poll() is None: terminate().
Terminate ==
    /\ stage = "launched" /\ mode = "same-container"
    /\ Cancel
    /\ stage' = "wait" /\ child' = "told"
    /\ UNCHANGED <<launch, reader>>

FindExited ==
    /\ stage = "launched" /\ mode = "same-container"
    /\ Cancel
    /\ stage' = "close" /\ child' = "gone"
    /\ UNCHANGED <<launch, reader>>

WaitReturns ==
    /\ stage = "wait" /\ child = "gone"
    /\ stage' = "close"
    /\ UNCHANGED <<launch, output, pc, report, child, reader>>

\* Mutant: a child that ignores terminate is left alone.
WaitTimesOut_NotKilled ==
    /\ stage = "wait"
    /\ stage' = "close"
    /\ UNCHANGED <<launch, output, pc, report, child, reader>>

\* Ten seconds are over: kill(), whose effect is not waited for.
WaitTimesOut ==
    /\ stage = "wait" /\ child = "told"
    /\ stage' = "close" /\ child' = "killed"
    /\ UNCHANGED <<launch, output, pc, report, reader>>

\* The child may take any time over terminate, or ignore it.
ChildEnds ==
    /\ child \in {"told", "killed"} /\ stage # "launched"
    /\ child' = "gone"
    /\ UNCHANGED <<launch, output, pc, report, stage, reader>>

\* readline returns at the end of the output, or with one more line, and then
\* the flag that StdoutCapture.stop has set ends the loop.
ReaderEnds ==
    /\ reader = "readline" /\ (child = "gone" \/ stage = "close")
    /\ reader' = "ended"
    /\ UNCHANGED <<launch, output, pc, report, stage, child>>

\* close() takes the lock that readline holds.  Then pkill.
CloseReturns ==
    /\ stage = "close" /\ reader = "ended"
    /\ stage' = "stopped"
    /\ UNCHANGED <<launch, output, pc, report, child, reader>>

\* docker compose down.
ComposeDown ==
    /\ stage = "launched" /\ mode = "docker"
    /\ Cancel
    /\ stage' = "stopped"
    /\ UNCHANGED <<launch, child, reader>>

Relaunch ==
    /\ stage = "stopped" /\ world' \in Worlds
    /\ pc' = "wait" /\ report' = NoReport
    /\ stage' = "launched" /\ child' = "running" /\ reader' = "readline"
    /\ UNCHANGED <<mode, output>>

-----------------------------------------------------------------------------
Monitor == SeeMarker \/ TimeOut \/ Report \/ ReportUnknown
StopSteps ==
    Terminate \/ FindExited \/ WaitReturns \/ WaitTimesOut \/ CloseReturns \/ ComposeDown

Next ==
    \/ \E line \in Lines : PrintLine(line)
    \/ Monitor \/ StopSteps \/ ChildEnds \/ ReaderEnds \/ Relaunch

Spec == Init /\ [][Next]_vars

-----------------------------------------------------------------------------
(* Properties *)

\* The type invariant; the buffer stays within its limit.
TypeOK ==
    /\ printed \in Seq(Lines) /\ Len(printed) <= MaxPrinted
    /\ lines \in Seq(Lines) /\ Len(lines) <= MaxLines
    /\ mode \in {"same-container", "docker"} /\ world \in Worlds
    /\ pc \in {"wait", "read", "done", "cancelled"}
    /\ stage \in {"launched", "wait", "close", "stopped"}
    /\ child \in {"running", "told", "killed", "gone"} /\ reader \in {"readline", "ended"}
    /\ report \in Distributions \cup {NoReport}

\* Whatever the child has printed when the monitor reads it, tables cut short,
\* printed twice or with devices without a window included, the regular
\* expressions find what a reader of the lines finds in the last table
\* (halda.py:59).
ParserReadsTheLastTable ==
    RemovalsComeLast(lines) => parse_distribution(lines) = Reading(lines)

\* Old lines that fall out of the buffer may lose the table, but never make
\* another distribution of it (prima.py:62).
TrimmingNeverMisleads ==
    RemovalsComeLast(printed) =>
        parse_distribution(lines) \in {NoDistribution, parse_distribution(printed)}

\* In a ring of several workers the head is never said to do all the work for
\* lack of a table, whenever the wait ends (halda.py:115).
NoTableIsUnknown ==
    pc = "done" /\ world > 1 /\ At(lines, "header") = {} => report = Unknown

\* A rank is reported without layers only when it was removed after the table
\* that counts: "ranks pruned after the table ... must be reported as 0"
\* (halda.py:83).  The code looks for removals in the whole output.
PrunedAfterTheTable ==
    pc = "done" /\ report # Unknown =>
        \A r \in DOMAIN report :
            report[r] = 0 => \E i \in At(lines, "remove") :
                                 lines[i].n = r /\ i > TableStart(lines)

\* The loop never waits for the reader's lock while the child may live on: it
\* has exited or has been killed by then, whatever it did about terminate.
\* close() does not unblock readline, as prima.py:75 has it; closing the pipe
\* of a silent child would hold up the whole agent.
CloseWaitsForTheDead == stage = "close" => child \in {"killed", "gone"}
=============================================================================

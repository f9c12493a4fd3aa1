---------------------------- MODULE LatencyReport ----------------------------
(* The latency report of the vDU (pkg/report, pkg/cnf/routes): what hands it    *)
(* latencies blocks on a channel, and one goroutine counts them in a histogram  *)
(* of MaxBin bins, an array indexed by the latency in milliseconds.             *)
EXTENDS Integers, Sequences

CONSTANTS
    Latencies,  \* the latencies events may have; the clocks of two hosts differ
    MaxBin,     \* maxBinSize
    LatencyCap  \* capacity of the channel

ASSUME ReportAssumption ==
    /\ Latencies \subseteq Int
    /\ MaxBin \in Nat \ {0}
    /\ LatencyCap \in Nat \ {0}

VARIABLES
    waiting,   \* the latencies whose sender is at the channel, in order
    latencyIn, \* the channel
    collecting \* Collect has been called

reportVars == <<waiting, latencyIn, collecting>>

ReportInit == waiting = <<>> /\ latencyIn = <<>> /\ collecting = FALSE

\* EventSubmit, or the UDP listener of the vDU, comes to its send.
Bring(l) ==
    /\ waiting' = Append(waiting, l)
    /\ UNCHANGED <<latencyIn, collecting>>

\* The channel takes the send that has waited longest.
Submit ==
    /\ waiting # <<>>
    /\ Len(latencyIn) < LatencyCap
    /\ latencyIn' = Append(latencyIn, Head(waiting))
    /\ waiting' = Tail(waiting)
    /\ UNCHANGED collecting

Collect ==
    /\ collecting' = TRUE
    /\ UNCHANGED <<waiting, latencyIn>>

ClampAbove(l) == IF l > MaxBin THEN MaxBin - 1 ELSE l

\* Everything from MaxBin up goes into the last bin; nothing is done below 0.
Bin(l) == IF l >= MaxBin THEN MaxBin - 1 ELSE l

InRange(l) == Bin(l) \in 0 .. MaxBin - 1

Count ==
    /\ collecting
    /\ latencyIn # <<>>
    /\ InRange(Head(latencyIn))
    /\ latencyIn' = Tail(latencyIn)
    /\ UNCHANGED <<waiting, collecting>>

\* The index is out of range: the goroutine panics and takes the process along.
CountPanics ==
    /\ collecting
    /\ latencyIn # <<>>
    /\ ~InRange(Head(latencyIn))

\* The process is gone.
ReportLost ==
    /\ waiting' = <<>>
    /\ latencyIn' = <<>>
    /\ collecting' = FALSE
=============================================================================

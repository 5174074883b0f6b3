----------------------------- MODULE MCTimeTracker -----------------------------
(* Two tasks whose timers are started, stopped, switched and edited.          *)
EXTENDS TimeTracker

CONSTANTS a, b, transitions, faults, departures

\* Three transitions are a start, a stop that fails or is cut off, and a second
\* stop or an edit; two faults are a failure and a crash.
MCBounds == [transitions |-> transitions, faults |-> faults, departures |-> departures]
=============================================================================

------------------------- MODULE MCIndexPersistence -------------------------
(***************************************************************************)
(* Small instances of IndexPersistence for TLC.                            *)
(***************************************************************************)
EXTENDS IndexPersistence, TLC

CONSTANTS a, b

\* Nothing distinguishes one file from the other.
FileSymmetry == Permutations(Paths)

\* Two sessions with a lost swap or a vanished manifest at any point, or with
\* two failures (of a commit, a scan, a settle, a marker write) or crashes.
SessionBounds == [sessions |-> 2, edits |-> 2, scans |-> 0, peer |-> 1, faults |-> 2]

\* A behaviour has one or the other, and two faults leave room for one edit.
OneTrouble == /\ left.peer = Bounds.peer \/ left.faults = Bounds.faults
              /\ left.faults > 0 \/ left.edits > 0

\* A flush outside the queue against two edits.
UnchangedBounds == [sessions |-> 1, edits |-> 2, scans |-> 0, peer |-> 0, faults |-> 0]

\* One lost swap, one edit or full scan and one failure, with flushes outside the queue.
LivenessBounds == [sessions |-> 1, edits |-> 1, scans |-> 1, peer |-> 1, faults |-> 1]
=============================================================================

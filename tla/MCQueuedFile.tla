----------------------------- MODULE MCQueuedFile -----------------------------
(***************************************************************************)
(* Small instances of QueuedFile for TLC.                                  *)
(***************************************************************************)
EXTENDS QueuedFile

CONSTANTS o1, o2, o3, k1

\* The operations are alike: which of them force atomic replacement matters only
\* by their number.
MCInit == FInit /\ force \in {{}, {o1}, {o1, o2}, Ops}
MCSpec == MCInit /\ [][FNext]_fvars /\ Fairness
=============================================================================

------------------------ MODULE MCWorkflowFieldRename ------------------------
(***************************************************************************)
(* Small instances of WorkflowFieldRename for TLC.                         *)
(***************************************************************************)
EXTENDS WorkflowFieldRename

CONSTANTS t1, t2, A, B, C

\* Two failures and two crashes, or one of each and an edit, or two edits; the
\* first taxonomy is as good as any.
MCInit ==
    /\ Init /\ settings = A
    /\ <<failures, crashes, edits>> \in {<<0, 0, 2>>, <<1, 1, 1>>, <<2, 2, 0>>}
MCSpec == MCInit /\ [][Next]_vars /\ Fairness
=============================================================================

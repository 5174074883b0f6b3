-------------------------- MODULE MCReminderScheduler --------------------------
(***************************************************************************)
(* Small instances of ReminderScheduler for TLC.                           *)
(***************************************************************************)
EXTENDS ReminderScheduler

CONSTANTS t, x, y

MCOwner == [s \in Sources |-> t]

\* A change of the time zone moves both by one; x and y never meet.
MCLocal == [s \in Sources |-> IF s = x THEN 1 ELSE 3]
MCDelays == <<1, 2>>
MCBounds == [sessions |-> 2, events |-> 2, edits |-> 2, wakes |-> 1, zones |-> 1, faults |-> 1]

\* No window is in front when the first session starts.
MCInit == Init /\ ~focused
MCSpec == MCInit /\ [][Next]_vars /\ Fairness
=============================================================================

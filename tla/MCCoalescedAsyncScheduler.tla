---------------------- MODULE MCCoalescedAsyncScheduler ----------------------
(***************************************************************************)
(* Small instances of CoalescedAsyncScheduler for TLC.                     *)
(***************************************************************************)
EXTENDS CoalescedAsyncScheduler
=============================================================================

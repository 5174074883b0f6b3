------------------------ MODULE MCTablePresetMigration ------------------------
(***************************************************************************)
(* Two presets, the first with the id of the default preset: interruptions *)
(* without a failing call, with a retry and a setting the user changes;    *)
(* one failing call, an interruption and two retries; and one failing call *)
(* with an interruption and an edit of a preset that is not migrated.      *)
(***************************************************************************)
EXTENDS TablePresetMigration

CONSTANTS a, b

Budget(failures, crashes, retries, edits) ==
    [failures |-> failures, crashes |-> crashes, retries |-> retries, edits |-> edits]

MCBounds == {Budget(0, 2, 1, 1), Budget(1, 1, 2, 0), Budget(1, 1, 0, 1)}

=============================================================================

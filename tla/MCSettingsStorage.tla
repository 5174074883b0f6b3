--------------------------- MODULE MCSettingsStorage ---------------------------
(***************************************************************************)
(* A small instance of SettingsStorage for TLC.                            *)
(***************************************************************************)
EXTENDS SettingsStorage

CONSTANTS f, g, edits, pinChanges, syncs, reloads, faults

MCBounds == [k \in Kinds |-> CASE k = "edits"    -> edits
                               [] k = "pins"     -> pinChanges
                               [] k = "syncs"    -> syncs
                               [] k = "reloads"  -> reloads
                               [] k = "faults"   -> faults]
=============================================================================

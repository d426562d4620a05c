-------------------------- MODULE MCExportRollback --------------------------
(* Instances of ExportRollback for TLC.                                    *)
EXTENDS ExportRollback

CONSTANTS app, env

TwoFiles == {app, env}
Snapshots == {"all"}
AllKinds == {"all", "bare"}
=============================================================================

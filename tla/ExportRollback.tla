--------------------------- MODULE ExportRollback ---------------------------
(***************************************************************************)
(* The files an export writes, and the snapshot `zhi rollback` restores    *)
(* them from.                                                              *)
(*                                                                         *)
(* ExportAll first backs up what it is going to overwrite: it removes the  *)
(* directory .zhi-rollback, copies the files into it one by one and writes *)
(* a manifest last.  Then it replaces the files, each by a rename.  A      *)
(* rollback goes through the manifest, copies the backups back, removes    *)
(* the files that were new, and then the directory.  Any step can fail and *)
(* any process can die between two steps.                                  *)
(*                                                                         *)
(* One command runs at a time, and nobody else writes the files meanwhile; *)
(* zhi takes no lock that would see to it.  The order of the templates is  *)
(* left open, and so is what they render to.                               *)
(*                                                                         *)
(* Source: internal/core/rollback.go, internal/core/export.go,             *)
(*         internal/cli/export.go, internal/cli/rollback.go,               *)
(*         internal/ui/driver.go,                                          *)
(*         pkg/providers/ui/webui/export_handlers.go                       *)
(***************************************************************************)
EXTENDS Naturals, FiniteSets

CONSTANTS
    Files,          \* the output files of any template
    Texts,          \* what can be rendered, or written by somebody else
    Missing,        \* no such file
    Torn,           \* a file truncated and not written yet
    Nothing,        \* no file at all
    Kinds,          \* how exports are run, see below
    RemovalFails    \* whether removing .zhi-rollback may fail half way

\* "all"   ExportAll: `zhi export`, the pre-export of `zhi apply`, a
\*         refresh of credentials
\* "bare"  Export of one template or format: `zhi export --template` and
\*         `--format`, and one after the other the web UI's export of all
ASSUME ExportAssumption ==
    /\ Missing \notin Texts /\ Torn \notin Texts /\ Missing # Torn
    /\ Nothing \notin Files
    /\ Kinds \subseteq {"all", "bare"}
    /\ RemovalFails \in BOOLEAN

Contents == Texts \cup {Missing, Torn}

\* The entries of a manifest: WasNew or backed up.
Lists == [Files -> {"none", "new", "backed"}]

ASSUME ManifestAssumption == Missing \notin Lists /\ Torn \notin Lists

VARIABLES
    disk,       \* the output files
    backup,     \* their backups in .zhi-rollback
    manifest,   \* its manifest.json
    pc,         \* where the command is
    outputs,    \* the files an export writes
    todo,       \* the files its loop, or a rollback's, has not come to yet
    cur,        \* the file that is being copied
    list,       \* the manifest an export is putting together
    origin,     \* history: the files when the manifest was written
    before,     \* history: the files before the last export, and
    wrote       \* history:   those it has written since

snapshot == <<backup, manifest, origin>>
locals == <<outputs, todo, cur, list>>
last == <<before, wrote>>
vars == <<disk, snapshot, pc, locals, last>>

\* clear    removing the directory       backup   backing up the next file
\* copying  one backup is truncated      listing  the manifest is truncated
\* write    writing the next output      restore  restoring the next file
\* putting  one output is truncated      remove   removing the directory
Places == {"idle", "clear", "backup", "copying", "listing", "write",
           "restore", "putting", "remove"}

TypeOK ==
    /\ disk \in [Files -> Contents]
    /\ backup \in [Files -> Contents]
    /\ manifest \in Lists \cup {Missing, Torn}
    /\ pc \in Places
    /\ outputs \subseteq Files
    /\ todo \subseteq Files
    /\ cur \in Files \cup {Nothing}
    /\ list \in Lists
    /\ origin \in [Files -> Contents]
    /\ before \in [Files -> Contents]
    /\ wrote \subseteq Files

Empty == [f \in Files |-> "none"]
Listed == {f \in Files : manifest \in Lists /\ manifest[f] # "none"}

Goto(from, to) == pc = from /\ pc' = to

\* The command ends.
Leave ==
    /\ pc' = "idle"
    /\ outputs' = {} /\ todo' = {} /\ cur' = Nothing /\ list' = Empty

Init ==
    /\ disk \in [Files -> Texts \cup {Missing}]
    /\ backup = [f \in Files |-> Missing]
    /\ manifest = Missing
    /\ pc = "idle"
    /\ outputs = {} /\ todo = {} /\ cur = Nothing /\ list = Empty
    /\ origin = disk /\ before = disk /\ wrote = {}

-----------------------------------------------------------------------------
(* Removing .zhi-rollback: os.RemoveAll, entry by entry in any order.      *)

RemoveOne ==
    /\ pc \in {"clear", "remove"}
    /\ \/ \E f \in Files :
             /\ backup[f] # Missing
             /\ backup' = [backup EXCEPT ![f] = Missing]
             /\ UNCHANGED manifest
       \/ /\ manifest # Missing
          /\ manifest' = Missing
          /\ UNCHANGED backup
    /\ UNCHANGED <<disk, origin, pc, locals, last>>

\* Mutant of Removed: the old snapshot stays while the new one is made.
RemovedNever == TRUE

Removed == manifest = Missing /\ \A f \in Files : backup[f] = Missing

-----------------------------------------------------------------------------
(* Exports.                                                                *)

\* The tree is loaded, transformed and filtered; the outputs of the
\* templates and iterateOutputPaths say which files it is about.
Begin(kind, F) ==
    /\ Goto("idle", IF kind = "all" THEN "clear" ELSE "write")
    /\ kind = "bare" => Cardinality(F) = 1
    /\ outputs' = F /\ todo' = F
    /\ UNCHANGED <<disk, snapshot, cur, list, last>>

Cleared ==
    /\ Goto("clear", "backup")
    /\ Removed
    /\ UNCHANGED <<disk, snapshot, locals, last>>

\* SaveRollbackSnapshot's loop: a file that is not there is listed as new ...
ListNew(f) ==
    /\ pc = "backup" /\ f \in todo
    /\ disk[f] = Missing
    /\ list' = [list EXCEPT ![f] = "new"]
    /\ todo' = todo \ {f}
    /\ UNCHANGED <<disk, snapshot, pc, outputs, cur, last>>

\* ... any other one is copied, copyFile: its backup is truncated ...
CopyOpen(f) ==
    /\ Goto("backup", "copying")
    /\ f \in todo /\ disk[f] # Missing
    /\ cur' = f
    /\ backup' = [backup EXCEPT ![f] = Torn]
    /\ UNCHANGED <<disk, manifest, origin, outputs, todo, list, last>>

\* ... and written.
CopyWrite ==
    /\ Goto("copying", "backup")
    /\ backup' = [backup EXCEPT ![cur] = disk[cur]]
    /\ list' = [list EXCEPT ![cur] = "backed"]
    /\ todo' = todo \ {cur}
    /\ cur' = Nothing
    /\ UNCHANGED <<disk, manifest, origin, outputs, last>>

\* Mutant of Complete: the manifest is written before the last backup is.
CompleteEarly == Cardinality(todo) <= 1

Complete == todo = {}

Entries == list

\* The manifest is written in two steps too.  From the second one on there
\* is something to roll back.
ManifestOpen ==
    /\ Goto("backup", "listing")
    /\ Complete
    /\ manifest' = Torn
    /\ UNCHANGED <<disk, backup, origin, locals, last>>

ManifestWrite ==
    /\ Goto("listing", "write")
    /\ manifest' = Entries
    /\ origin' = disk /\ before' = disk /\ wrote' = {}
    /\ todo' = outputs
    /\ UNCHANGED <<disk, backup, outputs, cur, list>>

\* "Non-fatal: continue with export even if snapshot fails."
SnapshotFails ==
    /\ \/ pc \in {"backup", "copying", "listing"}
       \/ pc = "clear" /\ (RemovalFails \/ Removed)
    /\ pc' = "write"
    /\ todo' = outputs /\ cur' = Nothing
    /\ UNCHANGED <<disk, snapshot, outputs, list, last>>

\* writeExportFile: a temporary file, renamed.
WriteOutput(f, c) ==
    /\ pc = "write" /\ f \in todo
    /\ disk' = [disk EXCEPT ![f] = c]
    /\ todo' = todo \ {f}
    /\ IF todo = outputs
       THEN before' = disk /\ wrote' = {f}
       ELSE wrote' = wrote \cup {f} /\ UNCHANGED before
    /\ UNCHANGED <<snapshot, pc, outputs, cur, list>>

Finish ==
    /\ pc = "write" /\ todo = {}
    /\ Leave
    /\ UNCHANGED <<disk, snapshot, last>>

-----------------------------------------------------------------------------
(* Rollbacks.                                                              *)

\* The manifest is there and parses.
RollbackBegin ==
    /\ Goto("idle", "restore")
    /\ manifest \in Lists
    /\ todo' = Listed
    /\ UNCHANGED <<disk, snapshot, outputs, cur, list, last>>

\* A new file that is already gone is as good as removed.
RemoveNew(f) ==
    /\ pc = "restore" /\ f \in todo
    /\ manifest[f] = "new"
    /\ disk' = [disk EXCEPT ![f] = Missing]
    /\ todo' = todo \ {f}
    /\ UNCHANGED <<snapshot, pc, outputs, cur, list, last>>

\* Mutant of Restorable: a backup that is gone is passed over.
RestorableGone(f) == TRUE

\* copyFile opens the backup before it truncates the file.
Restorable(f) == backup[f] # Missing

RestoreOpen(f) ==
    /\ Goto("restore", "putting")
    /\ f \in todo /\ manifest[f] = "backed"
    /\ Restorable(f)
    /\ cur' = f
    /\ disk' = [disk EXCEPT ![f] = Torn]
    /\ UNCHANGED <<snapshot, outputs, todo, list, last>>

RestoreWrite ==
    /\ Goto("putting", "restore")
    /\ disk' = [disk EXCEPT ![cur] = backup[cur]]
    /\ todo' = todo \ {cur}
    /\ cur' = Nothing
    /\ UNCHANGED <<snapshot, outputs, list, last>>

\* Everything is restored: the rollback will report it, unless it dies.
Restored ==
    /\ Goto("restore", "remove")
    /\ todo = {}
    /\ UNCHANGED <<disk, snapshot, locals, last>>

\* A directory that cannot be removed is worth a warning.
RollbackEnds ==
    /\ pc = "remove" /\ (Removed \/ RemovalFails)
    /\ Leave
    /\ UNCHANGED <<disk, snapshot, last>>

-----------------------------------------------------------------------------
\* An error return, of a template that does not render, a file that cannot
\* be written, a backup that is gone; or a crash.
Stop ==
    /\ pc # "idle"
    /\ Leave
    /\ UNCHANGED <<disk, snapshot, last>>

\* Somebody writes or removes an output file.
Edit(f, c) ==
    /\ pc = "idle"
    /\ disk[f] # c
    /\ disk' = [disk EXCEPT ![f] = c]
    /\ UNCHANGED <<snapshot, pc, locals, last>>

Next ==
    \/ RemoveOne \/ Cleared \/ CopyWrite \/ ManifestOpen \/ ManifestWrite
    \/ SnapshotFails \/ Finish
    \/ RollbackBegin \/ RestoreWrite \/ Restored \/ RollbackEnds
    \/ Stop
    \/ \E kind \in Kinds, F \in SUBSET Files \ {{}} : Begin(kind, F)
    \/ \E f \in Files :
          \/ ListNew(f) \/ CopyOpen(f) \/ RemoveNew(f) \/ RestoreOpen(f)
          \/ \E c \in Texts : WriteOutput(f, c)
          \/ \E c \in Texts \cup {Missing} : Edit(f, c)

Spec == Init /\ [][Next]_vars

-----------------------------------------------------------------------------
(* Properties.                                                             *)

\* A rollback that reports success has restored every file of its manifest
\* to what it was when the manifest was written, whatever became of the
\* snapshot since: commands that died in the middle of making, restoring or
\* removing it, backups that are torn or gone (Rollback).
RestoresOrigin == Restored => \A f \in Listed : disk[f] = origin[f]
RollbackRestores == [][RestoresOrigin]_vars

\* It restores the files "to their state before the last 'zhi export'"
\* (internal/cli/rollback.go): all that this export wrote.
UndoesExport == Restored => \A f \in wrote : disk[f] = before[f]
RollbackUndoesLastExport == [][UndoesExport]_vars
=============================================================================

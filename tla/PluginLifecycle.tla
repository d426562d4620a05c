--------------------------- MODULE PluginLifecycle ---------------------------
(***************************************************************************)
(* An installed plugin: its binary, the backups of earlier binaries and    *)
(* the metadata that describes it.                                         *)
(*                                                                         *)
(* Every command of zhi plugin is a process that reads and writes these    *)
(* files one after the other; any step may fail, and be the last one of    *)
(* its process.  One command runs at a time.  Binaries are kept by type    *)
(* and name, the metadata by name alone, so that plugins of one name and   *)
(* several types, which this module is about, share one description.       *)
(*                                                                         *)
(* A binary is told apart by where it was built and its version.  What the *)
(* registry holds under the tag of a version stays the same.  Refusals     *)
(* before a command has changed anything (policy, signature, reference,    *)
(* platform, network) are no steps.                                        *)
(*                                                                         *)
(* Source: internal/cli/plugin.go, plugin_update.go, plugin_rollback.go,   *)
(*         plugin_pin.go, workspace.go, pkg/sharing/client/client.go,      *)
(*         pkg/sharing/metadata/metadata.go, pkg/sharing/update/update.go, *)
(*         pkg/zhiplugin/launch/audit.go                                   *)
(***************************************************************************)
EXTENDS Naturals

CONSTANTS
    Types,      \* the types of plugins that have the name
    Versions,   \* the versions, numbered from older to newer
    NameRank,   \* where the text of a version is in an alphabetical list
    None,       \* no file
    Torn        \* a file that was truncated and not written to its end

ASSUME LifecycleAssumption ==
    /\ Versions \subseteq Nat
    /\ NameRank \in [Versions -> Nat]
    /\ \A v, w \in Versions : NameRank[v] = NameRank[w] => v = w

Builds == [from : {"registry", "local"}, version : Versions]

\* A description is incomplete only while, or because, it was not written
\* to its end.
Records == [type : Types, version : Versions, from : {"registry", "local"},
            digest : Builds, pinned : BOOLEAN]

ASSUME FilesAssumption ==
    /\ None \notin Builds \cup Records /\ Torn \notin Builds \cup Records
    /\ None # Torn

VARIABLES
    published,  \* the versions the marketplace and the registry have
    binary,     \* <plugin dir>/zhi-<type>-<name>
    backup,     \* <plugin dir>/.backup/zhi-<type>-<name>.<version>
    meta,       \* <metadata dir>/<name>.json
    cmd,        \* the command that runs
    \* History: the types of which the user has a binary and has not asked to
    \* remove or overwrite it in place; whether a command ended before it
    \* touched the description it was to write; whether the last binary that
    \* was put in its place came out of a backup.
    owed, halfDone, rolledBack

files == <<binary, backup, meta>>
vars == <<published, binary, backup, meta, cmd, owed, halfDone, rolledBack>>

Idle == [pc |-> "idle"]

Init ==
    /\ published \in (SUBSET Versions) \ {{}}
    /\ binary = [t \in Types |-> None]
    /\ backup = [t \in Types |-> [v \in Versions |-> None]]
    /\ meta = None
    /\ cmd = Idle
    /\ owed = {}
    /\ halfDone = FALSE
    /\ rolledBack = FALSE

Go(next) == cmd' = next
Goto(label) == cmd' = [cmd EXCEPT !.pc = label]
Return == cmd' = Idle
At(label) == cmd.pc = label

Readable == meta \in Records

\* semver.Latest of what the marketplace lists.
Latest(v) == v \in published /\ \A w \in published : w <= v

Publish ==
    /\ \E v \in Versions \ published : published' = published \cup {v}
    /\ UNCHANGED <<files, cmd, owed, halfDone, rolledBack>>

-----------------------------------------------------------------------------
(* Install from a registry: a pull, also of every entry of a lock file.    *)

Description(t, build) ==
    [type |-> t, version |-> build.version, from |-> build.from,
     digest |-> build, pinned |-> FALSE]

\* The artifact is in memory.
Install ==
    /\ At("idle")
    /\ \E t \in Types, v \in published, force, locked \in BOOLEAN :
        /\ locked => force
        /\ Go([pc |-> "fetched", type |-> t, locked |-> locked,
            build |-> [from |-> "registry", version |-> v],
            force |-> force])
    /\ UNCHANGED <<published, files, owed, halfDone, rolledBack>>

\* "already installed at same version": neither the type nor the file of the
\* binary is looked at.
CheckInstalled ==
    /\ At("fetched")
    /\ IF /\ ~cmd.force
          /\ Readable
          /\ meta.version = cmd.build.version
         THEN Return
         ELSE Goto("place")
    /\ UNCHANGED <<published, files, owed, halfDone, rolledBack>>

\* installBinary: a temporary file, renamed when it is complete.
Place ==
    /\ At("place")
    /\ binary' = [binary EXCEPT ![cmd.type] = cmd.build]
    /\ owed' = owed \cup {cmd.type}
    /\ rolledBack' = FALSE
    /\ Go([pc |-> "describe", locked |-> cmd.locked,
           rec |-> Description(cmd.type, cmd.build)])
    /\ UNCHANGED <<published, backup, meta, halfDone>>

\* Save opens the description with O_TRUNC, and then writes it.
Truncate ==
    /\ At("describe")
    /\ meta' = Torn
    /\ Goto("save")
    /\ UNCHANGED <<published, binary, backup, owed, halfDone, rolledBack>>

Save ==
    /\ At("save")
    /\ meta' = cmd.rec
    /\ IF cmd.locked
         THEN Go([pc |-> "verify", type |-> cmd.rec.type])
         ELSE Return
    /\ UNCHANGED <<published, binary, backup, owed, halfDone, rolledBack>>

\* workspace setup --from-lock compares the digest with that of the lock
\* file, and removes the binary it has just installed when they differ.
VerifyLocked ==
    /\ At("verify")
    /\ \/ UNCHANGED <<binary, owed>>
       \/ /\ binary' = [binary EXCEPT ![cmd.type] = None]
          /\ owed' = owed \ {cmd.type}
    /\ Return
    /\ UNCHANGED <<published, backup, meta, halfDone, rolledBack>>

-----------------------------------------------------------------------------
(* Install from a local path.                                              *)

InstallLocal ==
    /\ At("idle")
    /\ \E t \in Types, v \in Versions, force \in BOOLEAN :
        /\ force \/ binary[t] = None
        /\ Go([pc |-> "open", type |-> t,
            build |-> [from |-> "local", version |-> v]])
    /\ UNCHANGED <<published, files, owed, halfDone, rolledBack>>

Open ==
    /\ At("open")
    /\ binary' = [binary EXCEPT ![cmd.type] = Torn]
    /\ owed' = owed \ {cmd.type}
    /\ Goto("copy")
    /\ UNCHANGED <<published, backup, meta, halfDone, rolledBack>>

\* A copy that fails removes what it has written.
Copy ==
    /\ At("copy")
    /\ \/ /\ binary' = [binary EXCEPT ![cmd.type] = cmd.build]
          /\ owed' = owed \cup {cmd.type}
          /\ rolledBack' = FALSE
          /\ Go([pc |-> "describe", locked |-> FALSE,
                 rec |-> Description(cmd.type, cmd.build)])
       \/ /\ binary' = [binary EXCEPT ![cmd.type] = None]
          /\ Return
          /\ UNCHANGED <<owed, rolledBack>>
    /\ UNCHANGED <<published, backup, meta, halfDone>>

-----------------------------------------------------------------------------
(* Update: of one plugin, or of all that are not pinned.                   *)

Newer(v) == Readable /\ Latest(v) /\ v > meta.version

StartUpdate(v) ==
    /\ At("idle")
    /\ Go([pc |-> "backup", meta |-> meta, to |-> v])
    /\ UNCHANGED <<published, files, owed, halfDone, rolledBack>>

\* updateSinglePlugin, up to CheckPlugin.
Update == \E v \in published : Newer(v) /\ StartUpdate(v)

\* updateAllPlugins, for this plugin.
UpdateAll == \E v \in published : Newer(v) /\ ~meta.pinned /\ StartUpdate(v)

\* BackupBinary: a stat, a removal, a rename.
Backup ==
    /\ At("backup")
    /\ Goto(IF binary[cmd.meta.type] = None THEN "fetch" ELSE "unlink")
    /\ UNCHANGED <<published, files, owed, halfDone, rolledBack>>

Put(t, v, file) == backup' = [backup EXCEPT ![t] = [@ EXCEPT ![v] = file]]

RemoveBackup ==
    /\ At("unlink")
    /\ Put(cmd.meta.type, cmd.meta.version, None)
    /\ Goto("move")
    /\ UNCHANGED <<published, binary, meta, owed, halfDone, rolledBack>>

\* Of the binary that is replaced nothing is kept.
MoveAway ==
    /\ At("move")
    /\ binary' = [binary EXCEPT ![cmd.meta.type] = None]
    /\ Goto("fetch")
    /\ UNCHANGED <<published, backup, meta, owed, halfDone, rolledBack>>

\* A failure is a warning only.
Move ==
    LET t == cmd.meta.type IN
    /\ At("move")
    /\ \/ /\ binary[t] # None
          /\ Put(t, cmd.meta.version, binary[t])
          /\ binary' = [binary EXCEPT ![t] = None]
       \/ UNCHANGED <<binary, backup>>
    /\ Goto("fetch")
    /\ UNCHANGED <<published, meta, owed, halfDone, rolledBack>>

\* The pull of the tag of the new version.  A reference local://<path> makes
\* no registry reference, and the pull fails, like any other that fails,
\* with the binary moved away.
Fetch ==
    /\ At("fetch")
    /\ \/ /\ cmd.meta.from = "registry"
          /\ Go([pc |-> "place", type |-> cmd.meta.type, locked |-> FALSE,
                 build |-> [from |-> "registry", version |-> cmd.to]])
       \/ Return
    /\ UNCHANGED <<published, files, owed, halfDone, rolledBack>>

-----------------------------------------------------------------------------
(* Rollback, pins and removal.                                             *)

Rollback ==
    /\ At("idle") /\ Readable
    /\ Go([pc |-> "restore", meta |-> meta])
    /\ UNCHANGED <<published, files, owed, halfDone, rolledBack>>

Kept(t) == {v \in Versions : backup[t][v] # None}

\* The directory lists names in alphabetical order.
FirstKept(t) == {v \in Kept(t) : \A w \in Kept(t) : NameRank[v] <= NameRank[w]}

\* The version is left as it was.
RolledBackSilently(m, v) == m

\* Only the version of the description changes.
RolledBackTo(m, v) == [m EXCEPT !.version = v]

\* RestoreBackup renames the backup over whatever binary there is.
Restore ==
    LET t == cmd.meta.type IN
    /\ At("restore")
    /\ \/ /\ Kept(t) = {}
          /\ Return
          /\ UNCHANGED <<binary, backup, owed, rolledBack>>
       \/ \E v \in FirstKept(t) :
          /\ binary' = [binary EXCEPT ![t] = backup[t][v]]
          /\ Put(t, v, None)
          /\ owed' = IF backup[t][v] = Torn THEN owed \ {t} ELSE owed
          /\ rolledBack' = TRUE
          /\ Go([pc |-> "describe", locked |-> FALSE,
                 rec |-> RolledBackTo(cmd.meta, v)])
    /\ UNCHANGED <<published, meta, halfDone>>

\* plugin pin and unpin; SetPinned.
Pin ==
    /\ At("idle") /\ Readable
    /\ Go([pc |-> "describe", locked |-> FALSE,
           rec |-> [meta EXCEPT !.pinned = ~meta.pinned]])
    /\ UNCHANGED <<published, files, owed, halfDone, rolledBack>>

Uninstall ==
    /\ At("idle") /\ Readable
    /\ Go([pc |-> "remove", meta |-> meta])
    /\ UNCHANGED <<published, files, owed, halfDone, rolledBack>>

RemoveBinary ==
    /\ At("remove")
    /\ binary' = [binary EXCEPT ![cmd.meta.type] = None]
    /\ owed' = owed \ {cmd.meta.type}
    /\ Goto("forget")
    /\ UNCHANGED <<published, backup, meta, halfDone, rolledBack>>

\* Backups stay.
Forget ==
    /\ At("forget")
    /\ meta' = None
    /\ Return
    /\ UNCHANGED <<published, binary, backup, owed, halfDone, rolledBack>>

-----------------------------------------------------------------------------
\* A step that fails, or a process that dies.
Die ==
    /\ ~At("idle")
    /\ Return
    /\ halfDone' = (halfDone \/ At("describe"))
    /\ UNCHANGED <<published, files, owed, rolledBack>>

Next ==
    \/ Publish
    \/ Install \/ CheckInstalled \/ Place \/ Truncate \/ Save \/ VerifyLocked
    \/ InstallLocal \/ Open \/ Copy
    \/ Update \/ UpdateAll \/ Backup \/ RemoveBackup \/ Move \/ Fetch
    \/ Rollback \/ Restore \/ Pin
    \/ Uninstall \/ RemoveBinary \/ Forget
    \/ Die

Spec == Init /\ [][Next]_vars

-----------------------------------------------------------------------------
Pulls == [pc : {"fetched"}, type : Types, locked : BOOLEAN, build : Builds,
          force : BOOLEAN]
         \cup [pc : {"place"}, type : Types, locked : BOOLEAN, build : Builds,
               force : BOOLEAN]
         \cup [pc : {"place"}, type : Types, locked : {FALSE}, build : Builds]
Describing == [pc : {"describe", "save"}, locked : BOOLEAN, rec : Records]
Verifying == [pc : {"verify"}, type : Types]
Copying == [pc : {"open", "copy"}, type : Types, build : Builds]
Updating == [pc : {"backup", "unlink", "move", "fetch"}, meta : Records,
             to : Versions]
WithMeta == [pc : {"restore", "remove", "forget"}, meta : Records]

\* No command leaves behind what the others cannot read, but for a file that
\* was not written to its end.
TypeOK ==
    /\ published \in (SUBSET Versions) \ {{}}
    /\ binary \in [Types -> Builds \cup {None, Torn}]
    /\ backup \in [Types -> [Versions -> Builds \cup {None, Torn}]]
    /\ meta \in Records \cup {None, Torn}
    /\ cmd \in {Idle} \cup Pulls \cup Describing \cup Verifying \cup Copying
                \cup Updating \cup WithMeta
    /\ owed \subseteq Types
    /\ halfDone \in BOOLEAN /\ rolledBack \in BOOLEAN

\* "a crash mid-write never leaves a truncated executable at the final path"
\* (installBinary): only an install from a local path does.
WholeBinaries == \A t \in owed : binary[t] # Torn

\* The update moves the binary away before it has another one: wherever it
\* stops, and whatever failed before, a binary of the plugin is in its place
\* or among the backups.
NothingLost ==
    \A t \in owed : \/ binary[t] \in Builds
                    \/ \E v \in Versions : backup[t][v] \in Builds

\* AuditBinary.
AuditAccepts(t) == Readable => binary[t] = meta.digest

\* The description is about the binary that is there: it has its version, and
\* the audit at its launch refuses it only after a rollback, which keeps the
\* digest of the version it leaves.  A command that dies between a binary and
\* its description, like one that fails to open it, ends that.
Described ==
    (~halfDone /\ Readable /\ ~At("describe")) =>
        (binary[meta.type] \in Builds =>
            /\ binary[meta.type].version = meta.version
            /\ AuditAccepts(meta.type) \/ rolledBack)

=============================================================================

---------------------------- MODULE PluginProofs ----------------------------
(***************************************************************************)
(* Proofs about what happens to plugins: that their files are kept, by     *)
(* PluginLifecycle, for any types, versions and order of their names; the  *)
(* screens of Tui, where they are installed; and, at the end, the two      *)
(* servers that plugins are shared by, Mirror and Marketplace.             *)
(***************************************************************************)
EXTENDS MCTui, MCSharing, FiniteSetTheorems, TLAPS

\* The description has not changed since the command loaded it.
MetaCurrent ==
    cmd.pc \in {"backup", "unlink", "move", "fetch", "restore", "remove", "forget"}
        => cmd.meta = meta

\* A backup is removed only for the binary that takes its place.
BinaryToMove ==
    cmd.pc \in {"unlink", "move"} => binary[cmd.meta.type] # None

\* The name of a backup is the version of its binary.
BackupsTrue ==
    ~halfDone => \A t \in Types, v \in Versions :
                    backup[t][v] \in Builds => backup[t][v].version = v

\* What a description says of a binary.
Fits(file, rec) == file \in Builds => /\ file.version = rec.version
                                      /\ file = rec.digest \/ rolledBack

\* The description that is about to be written fits.
ToSave ==
    ~halfDone /\ cmd.pc \in {"describe", "save"} =>
        Fits(binary[cmd.rec.type], cmd.rec)

\* A copy writes over what was given up.
CopyGivenUp == cmd.pc = "copy" => cmd.type \notin owed

TornWhileSaving == cmd.pc = "save" => meta = Torn

DescribedNow == ~halfDone /\ Readable /\ cmd.pc # "describe" =>
                    Fits(binary[meta.type], meta)

Inv == /\ TypeOK /\ WholeBinaries /\ NothingLost
       /\ MetaCurrent /\ BinaryToMove /\ BackupsTrue
       /\ ToSave /\ CopyGivenUp /\ TornWhileSaving /\ DescribedNow

-----------------------------------------------------------------------------
(* What a command knows at each of its steps.                              *)

LEMMA CommandTypes ==
    ASSUME TypeOK
    PROVE  /\ cmd.pc = "fetched" => cmd \in [pc : {"fetched"}, type : Types,
                locked : BOOLEAN, build : Builds, force : BOOLEAN]
           /\ cmd.pc = "place" =>
                cmd.type \in Types /\ cmd.locked \in BOOLEAN /\ cmd.build \in Builds
           /\ cmd.pc \in {"describe", "save"} => cmd \in Describing
           /\ cmd.pc = "verify" => cmd \in Verifying
           /\ cmd.pc \in {"open", "copy"} => cmd \in Copying
           /\ cmd.pc \in {"backup", "unlink", "move", "fetch"} => cmd \in Updating
           /\ cmd.pc \in {"restore", "remove", "forget"} => cmd \in WithMeta
<1>1. \/ cmd = Idle \/ cmd \in Pulls \/ cmd \in Describing
      \/ cmd \in Verifying \/ cmd \in Copying \/ cmd \in Updating
      \/ cmd \in WithMeta
    BY DEF TypeOK
<1>2. cmd \in Pulls => \/ cmd \in [pc : {"fetched"}, type : Types,
                                locked : BOOLEAN, build : Builds, force : BOOLEAN]
                       \/ /\ cmd.pc = "place" /\ cmd.type \in Types
                          /\ cmd.locked \in BOOLEAN /\ cmd.build \in Builds
    BY DEF Pulls
<1>9. cmd \in Pulls => cmd.pc \in {"fetched", "place"}
    BY <1>2
<1>3. /\ cmd = Idle => cmd.pc = "idle"
      /\ cmd \in Describing => cmd.pc \in {"describe", "save"}
      /\ cmd \in Verifying => cmd.pc = "verify"
    BY DEF Idle, Describing, Verifying
<1>4. /\ cmd \in Copying => cmd.pc \in {"open", "copy"}
      /\ cmd \in Updating => cmd.pc \in {"backup", "unlink", "move", "fetch"}
      /\ cmd \in WithMeta => cmd.pc \in {"restore", "remove", "forget"}
    BY DEF Copying, Updating, WithMeta
<1>5. CASE cmd = Idle
    BY <1>3, <1>5
<1>6. CASE cmd \in Pulls
    BY <1>2, <1>9, <1>6
<1>7. CASE cmd \in Describing \cup Verifying
    BY <1>3, <1>7
<1>8. CASE cmd \in Copying \cup Updating \cup WithMeta
    BY <1>4, <1>8
<1> QED BY <1>1, <1>5, <1>6, <1>7, <1>8

LEMMA DescriptionType ==
    ASSUME NEW t \in Types, NEW b \in Builds
    PROVE  /\ Description(t, b) \in Records
           /\ Description(t, b).type = t
           /\ Description(t, b).version = b.version
           /\ Description(t, b).digest = b
BY DEF Description, Records, Builds

LEMMA DescribingType ==
    ASSUME NEW l \in BOOLEAN, NEW r \in Records
    PROVE  [pc |-> "describe", locked |-> l, rec |-> r] \in Describing
BY DEF Describing

LEMMA TypeInit == Init => TypeOK
BY DEF Init, TypeOK, Idle

LEMMA TypeStep == TypeOK /\ [Next]_vars => TypeOK'
<1> SUFFICES ASSUME TypeOK, [Next]_vars PROVE TypeOK'
    OBVIOUS
<1> USE CommandTypes
<1>u. CASE UNCHANGED vars
    BY <1>u DEF vars, files, TypeOK
<1>1. CASE Publish
    BY <1>1 DEF Publish, files, TypeOK
<1>2. CASE Install
    <2>1. PICK t \in Types, v \in published, force \in BOOLEAN, locked \in BOOLEAN :
            cmd' = [pc |-> "fetched", type |-> t, locked |-> locked,
                    build |-> [from |-> "registry", version |-> v],
                    force |-> force]
        BY <1>2 DEF Install, Go
    <2>2. [from |-> "registry", version |-> v] \in Builds
        BY DEF TypeOK, Builds
    <2>3. cmd' \in Pulls
        BY <2>1, <2>2 DEF Pulls
    <2> QED BY <1>2, <2>3 DEF Install, files, TypeOK
<1>3. CASE CheckInstalled
    <2>1. cmd' \in Pulls \cup {Idle}
        BY <1>3 DEF CheckInstalled, At, Goto, Return, Pulls
    <2> QED BY <1>3, <2>1 DEF CheckInstalled, files, TypeOK
<1>4. CASE Place
    <2>1. cmd' \in Describing
        BY <1>4, DescriptionType, DescribingType DEF Place, At, Go
    <2> QED BY <1>4, <2>1 DEF Place, At, TypeOK
<1>5. CASE Truncate
    <2>1. cmd' \in Describing
        BY <1>5 DEF Truncate, At, Goto, Describing
    <2> QED BY <1>5, <2>1 DEF Truncate, TypeOK
<1>6. CASE Save
    <2>1. cmd.rec \in Records /\ cmd.rec.type \in Types
        BY <1>6 DEF Save, At, Describing, Records
    <2>2. cmd' \in Verifying \cup {Idle}
        BY <1>6, <2>1 DEF Save, Go, Return, Verifying
    <2> QED BY <1>6, <2>1, <2>2 DEF Save, TypeOK
<1>7. CASE VerifyLocked
    <2>1. cmd.type \in Types
        BY <1>7 DEF VerifyLocked, At, Verifying
    <2> QED BY <1>7, <2>1 DEF VerifyLocked, Return, TypeOK
<1>8. CASE InstallLocal
    <2>1. cmd' \in Copying
        BY <1>8 DEF InstallLocal, Go, Copying, Builds
    <2> QED BY <1>8, <2>1 DEF InstallLocal, files, TypeOK
<1>9. CASE Open
    <2>1. cmd' \in Copying /\ cmd.type \in Types
        BY <1>9 DEF Open, At, Goto, Copying
    <2> QED BY <1>9, <2>1 DEF Open, TypeOK
<1>10. CASE Copy
    <2>1. cmd.type \in Types /\ cmd.build \in Builds
        BY <1>10 DEF Copy, At, Copying
    <2>2. [pc |-> "describe", locked |-> FALSE,
           rec |-> Description(cmd.type, cmd.build)] \in Describing
        BY <2>1, DescriptionType, DescribingType
    <2>3. cmd' \in Describing \cup {Idle}
        BY <1>10, <2>2 DEF Copy, Go, Return
    <2> QED BY <1>10, <2>1, <2>3 DEF Copy, TypeOK
<1>11. ASSUME NEW v \in published, Newer(v), StartUpdate(v) PROVE TypeOK'
    <2>1. cmd' \in Updating
        BY <1>11 DEF StartUpdate, Newer, Readable, Go, Updating, TypeOK
    <2> QED BY <1>11, <2>1 DEF StartUpdate, files, TypeOK
<1>12. CASE Backup
    <2>1. cmd' \in Updating
        BY <1>12 DEF Backup, At, Goto, Updating
    <2> QED BY <1>12, <2>1 DEF Backup, files, TypeOK
<1>13. CASE RemoveBackup
    <2>1. cmd' \in Updating /\ cmd.meta \in Records
        BY <1>13 DEF RemoveBackup, At, Goto, Updating
    <2>2. cmd.meta.type \in Types /\ cmd.meta.version \in Versions
        BY <2>1 DEF Records
    <2> QED BY <1>13, <2>1, <2>2 DEF RemoveBackup, Put, TypeOK
<1>14. CASE Move
    <2>1. cmd' \in Updating /\ cmd.meta \in Records
        BY <1>14 DEF Move, At, Goto, Updating
    <2>2. cmd.meta.type \in Types /\ cmd.meta.version \in Versions
        BY <2>1 DEF Records
    <2>3. binary' \in [Types -> Builds \cup {None, Torn}]
        BY <1>14, <2>2 DEF Move, TypeOK
    <2>4. backup' \in [Types -> [Versions -> Builds \cup {None, Torn}]]
        BY <1>14, <2>2 DEF Move, Put, TypeOK
    <2> QED BY <1>14, <2>1, <2>3, <2>4 DEF Move, TypeOK
<1>15. CASE Fetch
    <2>1. cmd.to \in Versions /\ cmd.meta.type \in Types
        BY <1>15 DEF Fetch, At, Updating, Records
    <2>2. [from |-> "registry", version |-> cmd.to] \in Builds
        BY <2>1 DEF Builds
    <2> DEFINE pull == [pc |-> "place", type |-> cmd.meta.type, locked |-> FALSE,
                        build |-> [from |-> "registry", version |-> cmd.to]]
    <2>4. pull \in Pulls
        BY <2>1, <2>2 DEF Pulls
    <2>3. cmd' \in Pulls \cup {Idle}
        BY <1>15, <2>4 DEF Fetch, Go, Return
    <2> QED BY <1>15, <2>3 DEF Fetch, files, TypeOK
<1>16. CASE Rollback
    <2>1. cmd' \in WithMeta
        BY <1>16 DEF Rollback, Go, Readable, WithMeta
    <2> QED BY <1>16, <2>1 DEF Rollback, files, TypeOK
<1>17. CASE Restore
    <2>1. cmd.meta \in Records
        BY <1>17 DEF Restore, At, WithMeta
    <2>2. cmd.meta.type \in Types
        BY <2>1 DEF Records
    <2>3. ASSUME NEW v \in FirstKept(cmd.meta.type),
                 cmd' = [pc |-> "describe", locked |-> FALSE,
                         rec |-> RolledBackTo(cmd.meta, v)]
          PROVE  v \in Versions /\ cmd' \in Describing
        BY <2>1, <2>3 DEF RolledBackTo, Describing, Records, FirstKept, Kept
    <2>4. CASE Kept(cmd.meta.type) = {}
        BY <1>17, <2>4 DEF Restore, FirstKept, Return, TypeOK
    <2>5. ASSUME Kept(cmd.meta.type) # {} PROVE TypeOK'
        <3>1. PICK v \in FirstKept(cmd.meta.type) :
                /\ binary' = [binary EXCEPT ![cmd.meta.type] =
                                               backup[cmd.meta.type][v]]
                /\ Put(cmd.meta.type, v, None)
                /\ owed' = IF backup[cmd.meta.type][v] = Torn
                             THEN owed \ {cmd.meta.type} ELSE owed
                /\ rolledBack' = TRUE
                /\ cmd' = [pc |-> "describe", locked |-> FALSE,
                           rec |-> RolledBackTo(cmd.meta, v)]
            BY <1>17, <2>5 DEF Restore, Go
        <3>2. v \in Versions /\ cmd' \in Describing
            BY <2>3, <3>1
        <3>3. binary' \in [Types -> Builds \cup {None, Torn}]
            BY <2>2, <3>1, <3>2 DEF TypeOK
        <3>4. backup' \in [Types -> [Versions -> Builds \cup {None, Torn}]]
            BY <2>2, <3>1, <3>2 DEF Put, TypeOK
        <3> QED BY <1>17, <3>1, <3>2, <3>3, <3>4 DEF Restore, TypeOK
    <2> QED BY <2>4, <2>5
<1>18. CASE Pin
    <2>1. cmd' \in Describing
        BY <1>18 DEF Pin, Go, Readable, Describing, Records
    <2> QED BY <1>18, <2>1 DEF Pin, files, TypeOK
<1>19. CASE Uninstall
    <2>1. cmd' \in WithMeta
        BY <1>19 DEF Uninstall, Go, Readable, WithMeta
    <2> QED BY <1>19, <2>1 DEF Uninstall, files, TypeOK
<1>20. CASE RemoveBinary
    <2>1. cmd' \in WithMeta /\ cmd.meta.type \in Types
        BY <1>20 DEF RemoveBinary, At, Goto, WithMeta, Records
    <2> QED BY <1>20, <2>1 DEF RemoveBinary, TypeOK
<1>21. CASE Forget
    BY <1>21 DEF Forget, Return, TypeOK
<1>22. CASE Die
    BY <1>22 DEF Die, Return, files, TypeOK, At
<1> QED
    BY <1>u, <1>1, <1>2, <1>3, <1>4, <1>5, <1>6, <1>7, <1>8, <1>9, <1>10,
       <1>11, <1>12, <1>13, <1>14, <1>15, <1>16, <1>17, <1>18, <1>19, <1>20,
       <1>21, <1>22 DEF Next, Update, UpdateAll

-----------------------------------------------------------------------------
(* The files.  Where a step leaves binary, backup and owed alone, the two  *)
(* invariants about them hold on.                                          *)

LEMMA FilesUnchanged ==
    ASSUME WholeBinaries, NothingLost, BackupsTrue,
           UNCHANGED <<binary, backup, owed>>, halfDone => halfDone'
    PROVE  WholeBinaries' /\ NothingLost' /\ BackupsTrue'
BY DEF WholeBinaries, NothingLost, BackupsTrue

\* A build is put in its place.
LEMMA BinaryPlaced ==
    ASSUME TypeOK, WholeBinaries, NothingLost, BackupsTrue,
           NEW t \in Types, NEW b \in Builds,
           binary' = [binary EXCEPT ![t] = b], owed' = owed \cup {t},
           UNCHANGED <<backup, halfDone>>
    PROVE  WholeBinaries' /\ NothingLost' /\ BackupsTrue'
<1>1. \A s \in Types : binary'[s] = IF s = t THEN b ELSE binary[s]
    BY DEF TypeOK
<1>2. b # Torn
    BY FilesAssumption
<1>3. owed \subseteq Types
    BY DEF TypeOK
<1>4. WholeBinaries'
    BY <1>1, <1>2, <1>3 DEF WholeBinaries
<1>5. NothingLost'
    BY <1>1, <1>3 DEF NothingLost
<1> QED BY <1>4, <1>5 DEF BackupsTrue

\* A binary is taken away, or written over, on request.
LEMMA BinaryGivenUp ==
    ASSUME TypeOK, WholeBinaries, NothingLost, BackupsTrue,
           NEW t \in Types, NEW file,
           binary' = [binary EXCEPT ![t] = file], owed' = owed \ {t},
           UNCHANGED <<backup, halfDone>>
    PROVE  WholeBinaries' /\ NothingLost' /\ BackupsTrue'
<1>1. \A s \in Types \ {t} : binary'[s] = binary[s]
    BY DEF TypeOK
<1>2. owed \subseteq Types
    BY DEF TypeOK
<1> QED BY <1>1, <1>2 DEF WholeBinaries, NothingLost, BackupsTrue

LEMMA InvInit == Init => Inv
<1> SUFFICES ASSUME Init PROVE Inv
    OBVIOUS
<1>1. TypeOK
    BY TypeInit
<1>2. meta \notin Records
    BY FilesAssumption DEF Init
<1>3. \A t \in Types, v \in Versions : backup[t][v] \notin Builds
    BY FilesAssumption DEF Init
<1> QED BY <1>1, <1>2, <1>3 DEF Init, Idle, Inv, WholeBinaries, NothingLost,
          MetaCurrent, BinaryToMove, BackupsTrue, ToSave, CopyGivenUp, TornWhileSaving,
          DescribedNow, Readable

LEMMA InvStep == Inv /\ [Next]_vars => Inv'
<1> SUFFICES ASSUME Inv, [Next]_vars PROVE Inv'
    OBVIOUS
<1>t. TypeOK /\ TypeOK'
    BY TypeStep DEF Inv
<1>f. WholeBinaries /\ NothingLost /\ BackupsTrue
    BY DEF Inv
<1> DEFINE Rest == MetaCurrent /\ BinaryToMove /\ ToSave /\ CopyGivenUp
                   /\ TornWhileSaving /\ DescribedNow
<1>r. Rest
    BY DEF Inv
<1> SUFFICES (WholeBinaries /\ NothingLost /\ BackupsTrue)' /\ Rest'
    BY <1>t DEF Inv
<1> USE DEF Go, Goto, Return, At
<1>u. CASE UNCHANGED vars
    BY <1>u, <1>f, <1>r DEF vars, files, WholeBinaries, NothingLost, BackupsTrue,
        MetaCurrent, BinaryToMove, ToSave, CopyGivenUp, TornWhileSaving, DescribedNow, Readable,
        Fits
<1>1. CASE Publish
    <2>1. UNCHANGED <<binary, backup, meta, cmd, owed, halfDone, rolledBack>>
        BY <1>1 DEF Publish, files
    <2> QED BY <2>1, <1>f, <1>r, FilesUnchanged DEF MetaCurrent, BinaryToMove,
            ToSave, CopyGivenUp, TornWhileSaving, DescribedNow, Readable, Fits
\* Steps that only choose what to do next.
<1>2. ASSUME UNCHANGED <<binary, backup, meta, owed, halfDone, rolledBack>>,
             cmd.pc # "describe",
             cmd'.pc \in {"idle", "fetched", "place", "open"}
      PROVE  (WholeBinaries /\ NothingLost /\ BackupsTrue)' /\ Rest'
    <2>1. MetaCurrent'
        BY <1>2, <1>r DEF MetaCurrent
    <2> QED BY <1>2, <1>f, <1>r, <2>1, FilesUnchanged DEF BinaryToMove,
            ToSave, CopyGivenUp, TornWhileSaving, DescribedNow, Readable, Fits
<1>3. CASE Install \/ CheckInstalled \/ InstallLocal \/ Fetch
    <2>1. /\ UNCHANGED <<binary, backup, meta, owed, halfDone, rolledBack>>
          /\ cmd.pc # "describe"
          /\ cmd'.pc \in {"idle", "fetched", "place", "open"}
        BY <1>3, <1>t, CommandTypes
           DEF Install, CheckInstalled, InstallLocal, Fetch, files, Idle
    <2> QED BY <2>1, <1>2
\* Steps that read the description.
<1>4. ASSUME UNCHANGED <<binary, backup, meta, owed, halfDone, rolledBack>>,
             cmd.pc = "idle", cmd'.meta = meta,
             cmd'.pc \in {"backup", "restore", "remove"}
      PROVE  (WholeBinaries /\ NothingLost /\ BackupsTrue)' /\ Rest'
    BY <1>4, <1>f, <1>r, FilesUnchanged DEF MetaCurrent, BinaryToMove,
       ToSave, CopyGivenUp, TornWhileSaving, DescribedNow, Readable, Fits
<1>5. ASSUME NEW v \in published, StartUpdate(v)
      PROVE  (WholeBinaries /\ NothingLost /\ BackupsTrue)' /\ Rest'
    BY <1>4, <1>5 DEF StartUpdate, files
<1>6. CASE Rollback \/ Uninstall
    BY <1>4, <1>6 DEF Rollback, Uninstall, files
\* Install.
<1>7. CASE Place
    <2>1. cmd.type \in Types /\ cmd.build \in Builds
        BY <1>7, <1>t, CommandTypes DEF Place
    <2>2. (WholeBinaries /\ NothingLost /\ BackupsTrue)'
        BY <1>7, <1>t, <1>f, <2>1, BinaryPlaced DEF Place
    <2>3. binary'[cmd.type] = cmd.build
        BY <1>7, <1>t, <2>1 DEF Place, TypeOK
    <2>4. cmd'.pc = "describe" /\ cmd'.rec = Description(cmd.type, cmd.build)
        BY <1>7 DEF Place
    <2>5. ToSave'
        BY <2>1, <2>3, <2>4, DescriptionType DEF ToSave, Fits
    <2> QED BY <2>2, <2>4, <2>5 DEF MetaCurrent, BinaryToMove, CopyGivenUp, TornWhileSaving,
            DescribedNow
<1>8. CASE Truncate
    <2>1. meta' \notin Records /\ cmd'.pc = "save" /\ cmd'.rec = cmd.rec
        BY <1>8, <1>t, CommandTypes, FilesAssumption DEF Truncate, Describing
    <2> QED BY <1>8, <2>1, <1>f, <1>r, FilesUnchanged DEF Truncate, MetaCurrent,
            BinaryToMove, ToSave, CopyGivenUp, TornWhileSaving, DescribedNow, Readable, Fits
<1>9. CASE Save
    <2>1. cmd'.pc \in {"idle", "verify"}
        BY <1>9 DEF Save, Idle
    <2>2. DescribedNow'
        BY <1>9, <1>r DEF Save, ToSave, DescribedNow, Fits
    <2> QED BY <1>9, <2>1, <2>2, <1>f, FilesUnchanged DEF Save, MetaCurrent,
            BinaryToMove, ToSave, CopyGivenUp, TornWhileSaving
<1>10. CASE VerifyLocked
    <2>1. cmd.type \in Types /\ cmd'.pc = "idle"
        BY <1>10, <1>t, CommandTypes DEF VerifyLocked, Verifying, Idle
    <2>2. (WholeBinaries /\ NothingLost /\ BackupsTrue)'
        BY <1>10, <1>t, <1>f, <2>1, BinaryGivenUp, FilesUnchanged DEF VerifyLocked
    <2>3. \A t \in Types : binary'[t] \in {binary[t], None}
        BY <1>10, <1>t, <2>1 DEF VerifyLocked, TypeOK
    <2>4. DescribedNow'
        BY <1>10, <1>t, <1>r, <2>3, FilesAssumption DEF VerifyLocked, DescribedNow,
           Readable, Records, Fits
    <2> QED BY <2>1, <2>2, <2>4 DEF MetaCurrent, BinaryToMove, ToSave,
            CopyGivenUp, TornWhileSaving
\* Install from a local path.
<1>11. CASE Open
    <2>1. cmd.type \in Types /\ cmd'.pc = "copy"
        BY <1>11, <1>t, CommandTypes DEF Open, Copying
    <2>2. (WholeBinaries /\ NothingLost /\ BackupsTrue)'
        BY <1>11, <1>t, <1>f, <2>1, BinaryGivenUp DEF Open
    <2>3. \A t \in Types : binary'[t] \in {binary[t], Torn}
        BY <1>11, <1>t, <2>1 DEF Open, TypeOK
    <2>4. DescribedNow'
        BY <1>11, <1>t, <1>r, <2>3, FilesAssumption DEF Open, DescribedNow,
           Readable, Records, Fits
    <2>5. cmd'.type = cmd.type /\ cmd.type \notin owed'
        BY <1>11, <1>t, CommandTypes DEF Open, Copying
    <2> QED BY <2>1, <2>2, <2>4, <2>5 DEF MetaCurrent, BinaryToMove, ToSave,
            CopyGivenUp, TornWhileSaving
<1>12. CASE Copy
    <2>1. cmd.type \in Types /\ cmd.build \in Builds
        BY <1>12, <1>t, CommandTypes DEF Copy, Copying
    <2>2. ASSUME binary' = [binary EXCEPT ![cmd.type] = cmd.build],
                 owed' = owed \cup {cmd.type},
                 cmd' = [pc |-> "describe", locked |-> FALSE,
                         rec |-> Description(cmd.type, cmd.build)]
          PROVE  (WholeBinaries /\ NothingLost /\ BackupsTrue)' /\ Rest'
        <3>1. (WholeBinaries /\ NothingLost /\ BackupsTrue)'
            BY <1>12, <1>t, <1>f, <2>1, <2>2, BinaryPlaced DEF Copy
        <3>2. binary'[cmd.type] = cmd.build
            BY <1>t, <2>1, <2>2 DEF TypeOK
        <3>3. ToSave'
            BY <2>1, <2>2, <3>2, DescriptionType DEF ToSave, Fits
        <3> QED BY <2>2, <3>1, <3>3 DEF MetaCurrent, BinaryToMove, CopyGivenUp,
                TornWhileSaving, DescribedNow
    <2>3. ASSUME binary' = [binary EXCEPT ![cmd.type] = None], cmd' = Idle,
                 UNCHANGED <<owed, rolledBack>>
          PROVE  (WholeBinaries /\ NothingLost /\ BackupsTrue)' /\ Rest'
        <3>1. owed' = owed \ {cmd.type}
            BY <1>12, <1>r, <2>3 DEF Copy, CopyGivenUp
        <3>2. (WholeBinaries /\ NothingLost /\ BackupsTrue)'
            BY <1>12, <1>t, <1>f, <2>1, <2>3, <3>1, BinaryGivenUp DEF Copy
        <3>3. \A t \in Types : binary'[t] \in {binary[t], None}
            BY <1>t, <2>1, <2>3 DEF TypeOK
        <3>4. DescribedNow'
            BY <1>12, <1>t, <1>r, <2>3, <3>3, FilesAssumption DEF Copy,
               DescribedNow, Readable, Records, Fits
        <3> QED BY <2>3, <3>2, <3>4 DEF Idle, MetaCurrent, BinaryToMove, ToSave,
                CopyGivenUp, TornWhileSaving
    <2> QED BY <1>12, <2>2, <2>3 DEF Copy
\* Update.
<1>13. CASE Backup
    <2>1. cmd.meta = meta /\ cmd'.meta = meta /\ cmd'.pc \in {"fetch", "unlink"}
        BY <1>13, <1>t, <1>r, CommandTypes DEF Backup, MetaCurrent, Updating
    <2>2. cmd'.pc = "unlink" => binary[meta.type] # None
        BY <1>13, <2>1 DEF Backup
    <2> QED BY <1>13, <2>1, <2>2, <1>f, <1>r, FilesUnchanged DEF Backup, files,
            MetaCurrent, BinaryToMove, ToSave, CopyGivenUp, TornWhileSaving,
            DescribedNow, Readable, Fits
<1>14. CASE RemoveBackup
    <2> DEFINE t == meta.type
               w == meta.version
    <2>1. /\ cmd.meta = meta /\ cmd'.meta = meta /\ cmd'.pc = "move"
          /\ meta \in Records
        BY <1>14, <1>t, <1>r, CommandTypes DEF RemoveBackup, MetaCurrent, Updating
    <2>2. t \in Types /\ w \in Versions
        BY <2>1 DEF Records
    <2>3. binary[t] # None
        BY <1>14, <1>r, <2>1 DEF RemoveBackup, BinaryToMove
    <2>4. t \in owed => binary[t] \in Builds
        BY <1>t, <1>f, <2>2, <2>3 DEF TypeOK, WholeBinaries
    <2>5. \A s \in Types, v \in Versions :
            backup'[s][v] = IF s = t /\ v = w THEN None ELSE backup[s][v]
        BY <1>14, <1>t, <2>1, <2>2 DEF RemoveBackup, Put, TypeOK
    <2>6. owed \subseteq Types
        BY <1>t DEF TypeOK
    <2>7. NothingLost'
        BY <1>14, <1>f, <2>4, <2>5, <2>6 DEF RemoveBackup, NothingLost
    <2>8. BackupsTrue'
        BY <1>14, <1>f, <2>5, FilesAssumption DEF RemoveBackup, BackupsTrue
    <2> QED BY <1>14, <1>f, <1>r, <2>1, <2>3, <2>7, <2>8 DEF RemoveBackup,
            WholeBinaries, MetaCurrent, BinaryToMove, ToSave, CopyGivenUp,
            TornWhileSaving, DescribedNow, Readable, Fits
<1>15. CASE Move
    <2> DEFINE t == meta.type
               w == meta.version
    <2>1. /\ cmd.meta = meta /\ cmd'.meta = meta /\ cmd'.pc = "fetch"
          /\ meta \in Records
        BY <1>15, <1>t, <1>r, CommandTypes DEF Move, MetaCurrent, Updating
    <2>2. t \in Types /\ w \in Versions
        BY <2>1 DEF Records
    <2>3. CASE UNCHANGED <<binary, backup>>
        BY <1>15, <1>f, <1>r, <2>1, <2>3, FilesUnchanged DEF Move, MetaCurrent,
           BinaryToMove, ToSave, CopyGivenUp, TornWhileSaving, DescribedNow,
           Readable, Fits
    <2>4. ASSUME binary[t] # None, Put(t, w, binary[t]),
                 binary' = [binary EXCEPT ![t] = None]
          PROVE  (WholeBinaries /\ NothingLost /\ BackupsTrue)' /\ Rest'
        <3>1. \A s \in Types, v \in Versions :
                backup'[s][v] = IF s = t /\ v = w THEN binary[t] ELSE backup[s][v]
            BY <1>t, <2>2, <2>4 DEF Put, TypeOK
        <3>2. \A s \in Types : binary'[s] = IF s = t THEN None ELSE binary[s]
            BY <1>t, <2>2, <2>4 DEF TypeOK
        <3>3. owed' = owed /\ owed \subseteq Types
            BY <1>15, <1>t DEF Move, TypeOK
        <3>4. t \in owed => binary[t] \in Builds
            BY <1>t, <1>f, <2>2, <2>4 DEF TypeOK, WholeBinaries
        <3>5. WholeBinaries'
            BY <1>f, <3>2, <3>3, FilesAssumption DEF WholeBinaries
        <3>6. NothingLost'
            <4> SUFFICES ASSUME NEW s \in owed
                         PROVE  \/ binary'[s] \in Builds
                                \/ \E v \in Versions : backup'[s][v] \in Builds
                BY <3>3 DEF NothingLost
            <4>1. CASE s = t
                BY <4>1, <2>2, <3>1, <3>4
            <4>2. CASE s # t
                BY <4>2, <1>f, <3>1, <3>2, <3>3 DEF NothingLost
            <4> QED BY <4>1, <4>2
        <3>7. ~halfDone => (binary[t] \in Builds => binary[t].version = w)
            BY <1>15, <1>r, <2>1 DEF Move, DescribedNow, Readable, Fits
        <3>8. BackupsTrue'
            BY <1>15, <1>f, <3>1, <3>7 DEF Move, BackupsTrue
        <3>9. DescribedNow'
            BY <1>15, <2>1, <2>2, <3>2, FilesAssumption DEF Move, DescribedNow, Fits
        <3> QED BY <1>15, <2>1, <3>5, <3>6, <3>8, <3>9 DEF Move, MetaCurrent,
                BinaryToMove, ToSave, CopyGivenUp, TornWhileSaving
    <2> QED BY <1>15, <2>1, <2>3, <2>4 DEF Move
\* Rollback.
<1>16. CASE Restore
    <2> DEFINE t == meta.type
    <2>1. cmd.meta = meta /\ meta \in Records
        BY <1>16, <1>t, <1>r, CommandTypes DEF Restore, MetaCurrent, WithMeta
    <2>2. t \in Types
        BY <2>1 DEF Records
    <2>3. ASSUME cmd' = Idle, UNCHANGED <<binary, backup, owed, rolledBack>>
          PROVE  (WholeBinaries /\ NothingLost /\ BackupsTrue)' /\ Rest'
        BY <1>16, <1>2, <2>3 DEF Restore, Idle
    <2>4. ASSUME NEW v \in FirstKept(t),
                 binary' = [binary EXCEPT ![t] = backup[t][v]],
                 Put(t, v, None), rolledBack' = TRUE,
                 owed' = IF backup[t][v] = Torn THEN owed \ {t} ELSE owed,
                 cmd' = [pc |-> "describe", locked |-> FALSE,
                         rec |-> RolledBackTo(cmd.meta, v)]
          PROVE  (WholeBinaries /\ NothingLost /\ BackupsTrue)' /\ Rest'
        <3>1. v \in Versions /\ backup[t][v] # None
            BY <2>4 DEF FirstKept, Kept
        <3>2. backup[t][v] \in Builds \cup {Torn}
            BY <1>t, <2>2, <3>1 DEF TypeOK
        <3>3. \A s \in Types, u \in Versions :
                backup'[s][u] = IF s = t /\ u = v THEN None ELSE backup[s][u]
            BY <1>t, <2>2, <2>4, <3>1 DEF Put, TypeOK
        <3>4. \A s \in Types : binary'[s] = IF s = t THEN backup[t][v] ELSE binary[s]
            BY <1>t, <2>2, <2>4 DEF TypeOK
        <3>5. owed \subseteq Types
            BY <1>t DEF TypeOK
        <3>6. WholeBinaries'
            BY <1>f, <2>4, <3>4, <3>5 DEF WholeBinaries
        <3>7. NothingLost'
            <4> SUFFICES ASSUME NEW s \in owed'
                         PROVE  \/ binary'[s] \in Builds
                                \/ \E u \in Versions : backup'[s][u] \in Builds
                BY DEF NothingLost
            <4>1. s \in owed /\ s \in Types
                BY <2>4, <3>5
            <4>2. CASE s = t
                BY <4>2, <2>4, <3>2, <3>4, <4>1
            <4>3. CASE s # t
                BY <4>3, <4>1, <1>f, <3>3, <3>4 DEF NothingLost
            <4> QED BY <4>2, <4>3
        <3>8. BackupsTrue'
            BY <1>16, <1>f, <3>3, FilesAssumption DEF Restore, BackupsTrue
        <3>9. RolledBackTo(meta, v).version = v /\ RolledBackTo(meta, v).type = t
            BY <2>1, <3>1 DEF RolledBackTo, Records
        <3>10. ToSave'
            BY <1>16, <1>f, <2>1, <2>2, <2>4, <3>1, <3>4, <3>9 DEF Restore, ToSave,
               Fits, BackupsTrue
        <3> QED BY <2>4, <3>6, <3>7, <3>8, <3>10 DEF MetaCurrent, BinaryToMove,
                CopyGivenUp, TornWhileSaving, DescribedNow
    <2> QED BY <1>16, <2>1, <2>3, <2>4 DEF Restore
\* Pins and removal.
<1>17. CASE Pin
    <2>1. meta \in Records /\ cmd'.pc = "describe"
          /\ cmd'.rec = [meta EXCEPT !.pinned = ~meta.pinned]
        BY <1>17 DEF Pin, Readable
    <2>2. /\ cmd'.rec.type = meta.type /\ cmd'.rec.version = meta.version
          /\ cmd'.rec.digest = meta.digest
        BY <2>1 DEF Records
    <2>3. ToSave'
        BY <1>17, <1>r, <2>1, <2>2 DEF Pin, files, ToSave, DescribedNow, Readable, Fits
    <2> QED BY <1>17, <1>f, <2>1, <2>3, FilesUnchanged DEF Pin, files, MetaCurrent,
            BinaryToMove, CopyGivenUp, TornWhileSaving, DescribedNow
<1>18. CASE RemoveBinary
    <2>1. /\ cmd.meta = meta /\ cmd'.meta = meta /\ cmd'.pc = "forget"
          /\ meta \in Records
        BY <1>18, <1>t, <1>r, CommandTypes DEF RemoveBinary, MetaCurrent, WithMeta
    <2>2. meta.type \in Types
        BY <2>1 DEF Records
    <2>3. (WholeBinaries /\ NothingLost /\ BackupsTrue)'
        BY <1>18, <1>t, <1>f, <2>1, <2>2, BinaryGivenUp DEF RemoveBinary
    <2>4. binary'[meta.type] = None
        BY <1>18, <1>t, <2>1, <2>2 DEF RemoveBinary, TypeOK
    <2> QED BY <1>18, <2>1, <2>3, <2>4, FilesAssumption DEF RemoveBinary, MetaCurrent,
            BinaryToMove, ToSave, CopyGivenUp, TornWhileSaving, DescribedNow, Fits
<1>19. CASE Forget
    <2>1. cmd'.pc = "idle" /\ meta' \notin Records
        BY <1>19, FilesAssumption DEF Forget, Idle
    <2> QED BY <1>19, <1>f, <2>1, FilesUnchanged DEF Forget, MetaCurrent,
            BinaryToMove, ToSave, CopyGivenUp, TornWhileSaving, DescribedNow, Readable
<1>20. CASE Die
    <2>1. cmd'.pc = "idle"
        BY <1>20 DEF Die, Idle
    <2>2. DescribedNow'
        BY <1>20, <1>t, <1>r DEF Die, files, DescribedNow, Readable, Fits, TypeOK
    <2>3. (WholeBinaries /\ NothingLost /\ BackupsTrue)'
        BY <1>20, <1>f, FilesUnchanged DEF Die, files
    <2> QED BY <2>1, <2>2, <2>3 DEF MetaCurrent, BinaryToMove, ToSave, CopyGivenUp,
            TornWhileSaving
<1> QED
    BY <1>u, <1>1, <1>3, <1>5, <1>6, <1>7, <1>8, <1>9, <1>10, <1>11, <1>12, <1>13,
       <1>14, <1>15, <1>16, <1>17, <1>18, <1>19, <1>20 DEF Next, Update, UpdateAll

THEOREM InvHolds == Spec => []Inv
BY InvInit, InvStep, PTL DEF Spec

-----------------------------------------------------------------------------
\* Whatever fails and wherever a process dies, the files of a plugin and the
\* command that works on them are of the types the others expect.
THEOREM TypeCorrect == Spec => []TypeOK
BY InvHolds, PTL DEF Inv

\* Of a binary that the user has not asked to write over in place, no part is
\* ever found at its path.
THEOREM PulledWhole == Spec => []WholeBinaries
BY InvHolds, PTL DEF Inv

\* A binary that the user has is in its place or among the backups, at every
\* step of every sequence of commands, failures and deaths.
THEOREM NeverLost == Spec => []NothingLost
BY InvHolds, PTL DEF Inv

\* As long as no command dies before the description it was to write, the
\* description has the version of the binary, and the audit refuses a binary
\* after a rollback only.
THEOREM DescriptionFits == Spec => []Described
<1>1. Inv => Described
    BY DEF Inv, DescribedNow, Described, Fits, AuditAccepts, At, Readable
<1> QED BY <1>1, InvHolds, PTL

-----------------------------------------------------------------------------
(* The terminal UI, for any login methods, labels, plugins and numbers of  *)
(* calls and applies.                                                      *)

IsBag(b) == b = [c \in DOMAIN b |-> b[c]] /\ \A c \in DOMAIN b : b[c] \in Nat \ {0}

LoopTrue ==
    /\ IsBag(calls)
    /\ methods \in LoginKinds /\ label \in Labels
    /\ view \in Screens!Views /\ help \in BOOLEAN /\ filtering \in BOOLEAN
    /\ filtering => view \in {"tree", "login", "gone"}
    /\ applies \in [Screens!ApplyId -> {"unborn", "runs", "ended", "told"}]

LoginTrue ==
    /\ form \in [phase : {"none", "method", "form", "browser"}, submitting : BOOLEAN, first : BOOLEAN]
    /\ view = "login" =>
         form.phase \in methods \/ (form.phase = "method" /\ methods = {"form", "browser"})
    /\ form.submitting => form.phase # "method"
    /\ Screens!LoginUnderWay

\* A value is called wrong if it is, none that is stored is, and a value that
\* is read-only is changed among its options only.
EditorTrue ==
    /\ value \in Screens!Values \ {"wrong"}
    /\ editor \in [was : Screens!Values, input : Screens!Values, dirty : BOOLEAN, wrong : BOOLEAN,
                   inline : BOOLEAN, confirming : BOOLEAN]
    /\ editor # Screens!NoEditor => view = "editor"
    /\ editor.confirming => label.asks /\ editor.dirty /\ ~editor.wrong
    /\ editor.inline => label.kind = "collection" /\ ~label.readonly
    /\ editor.input = "wrong" => editor.wrong
    /\ editor.dirty /\ label.readonly => label.kind = "enum"

ApplyTrue ==
    /\ applyView \in [of : 0..MaxApplies, running : BOOLEAN]
    /\ applyView.of = 0 => ~applyView.running /\ view # "apply"
    /\ applyView.of # 0 => view = "apply" /\ applies[applyView.of] # "unborn"
    /\ Screens!RunningIsRead

PagesTrue ==
    /\ market \in [found : BOOLEAN, loading : BOOLEAN, searching : BOOLEAN]
    /\ detail \in [of : Plugins \cup {Screens!NoPlugin}, shows : Plugins \cup {Screens!NoPlugin},
                   loading : BOOLEAN]
    /\ installed \in [listed : BOOLEAN, loading : BOOLEAN]
    /\ view = "detail" => detail.of \in Plugins
    /\ Screens!LoadingUnderWay

ScreensInv == LoopTrue /\ LoginTrue /\ EditorTrue /\ ApplyTrue /\ PagesTrue

LEMMA ScreensInvSays == ScreensInv => ScreensConsistent
<1> SUFFICES ASSUME ScreensInv PROVE ScreensConsistent
  OBVIOUS
<1>1. {value, editor.was, editor.input} \subseteq Screens!Values
  BY DEF ScreensInv, EditorTrue
<1>2. detail.shows \in Plugins \cup {Screens!NoPlugin} /\ (view = "detail" => detail.of \in Plugins)
  BY DEF ScreensInv, PagesTrue
<1>3. /\ editor # Screens!NoEditor => view = "editor"
      /\ editor.confirming => label.asks /\ editor.dirty /\ ~editor.wrong
      /\ editor.inline => label.kind = "collection" /\ ~label.readonly
  BY DEF ScreensInv, EditorTrue
<1>4. /\ applyView.of = 0 => ~applyView.running /\ view # "apply"
      /\ applyView.of # 0 => view = "apply" /\ applies[applyView.of] # "unborn"
  BY DEF ScreensInv, ApplyTrue
<1>5. Screens!LoginUnderWay /\ Screens!LoadingUnderWay /\ Screens!RunningIsRead
  BY DEF ScreensInv, LoginTrue, PagesTrue, ApplyTrue
<1>6. Screens!TypeOK
  BY <1>1, <1>2, <1>3, <1>4 DEF ScreensInv, LoopTrue, LoginTrue, Screens!TypeOK
<1> QED BY <1>5, <1>6 DEF ScreensConsistent

Waits(c) == c \in DOMAIN calls => c \in DOMAIN calls'

\* A call stays under way until it is taken, and one that is made is.
LEMMA CallsMove ==
    ASSUME IsBag(calls), NEW taken, NEW made, Screens!Calls(taken, made)
    PROVE  /\ IsBag(calls)'
           /\ made # Screens!NoCall => made \in DOMAIN calls'
           /\ \A c : c # taken => Waits(c)
<1> DEFINE kept == Screens!Without(taken)
<1>1. /\ IsBag(kept)
      /\ \A c : c # taken /\ c \in DOMAIN calls => c \in DOMAIN kept
  <2>1. CASE taken = Screens!NoCall \/ taken \notin DOMAIN calls
    BY <2>1 DEF Screens!Without, Screens!BagRemove
  <2>2. CASE taken # Screens!NoCall /\ taken \in DOMAIN calls /\ calls[taken] = 1
    <3>1. kept = [e \in DOMAIN calls \ {taken} |-> calls[e]]
      BY <2>2 DEF Screens!Without, Screens!BagRemove
    <3> QED BY <3>1 DEF IsBag
  <2>3. CASE taken # Screens!NoCall /\ taken \in DOMAIN calls /\ calls[taken] # 1
    <3>1. kept = [e \in DOMAIN calls |-> IF e = taken THEN calls[e] - 1 ELSE calls[e]]
      BY <2>3 DEF Screens!Without, Screens!BagRemove
    <3>2. calls[taken] \in Nat \ {0, 1}
      BY <2>3 DEF IsBag
    <3>3. calls[taken] - 1 \in Nat \ {0}
      BY <3>2
    <3> HIDE DEF kept
    <3> QED BY <3>1, <3>3 DEF IsBag
  <2> QED BY <2>1, <2>2, <2>3
<1> HIDE DEF kept
<1>2. CASE made = Screens!NoCall
  <2>1. calls' = kept
    BY <1>2 DEF Screens!Calls, kept
  <2> QED BY <2>1, <1>1, <1>2 DEF IsBag, Waits
<1>3. CASE made # Screens!NoCall /\ made \in DOMAIN kept
  <2>1. calls' = [e \in DOMAIN kept |-> IF e = made THEN kept[e] + 1 ELSE kept[e]]
    BY <1>3 DEF Screens!Calls, Screens!BagAdd, kept
  <2> QED BY <2>1, <1>1, <1>3 DEF IsBag, Waits
<1>4. CASE made # Screens!NoCall /\ made \notin DOMAIN kept
  <2>1. calls' = [e \in DOMAIN kept \cup {made} |-> IF e = made THEN 1 ELSE kept[e]]
    BY <1>4 DEF Screens!Calls, Screens!BagAdd, kept
  <2> QED BY <2>1, <1>1, <1>4 DEF IsBag, Waits
<1> QED BY <1>2, <1>3, <1>4

\* What a step leaves alone stays right.
LEMMA ScreensStay ==
    ASSUME ScreensInv, UNCHANGED <<methods, label>>
    PROVE  /\ /\ UNCHANGED form /\ (view' = "login" => view = "login")
              /\ Waits(Screens!Call2("login", 0))
              => LoginTrue'
           /\ /\ UNCHANGED <<editor, value>> /\ (view = "editor" => view' = "editor")
              => EditorTrue'
           /\ /\ UNCHANGED applyView /\ (view = "apply" <=> view' = "apply")
              /\ \A i \in Screens!ApplyId : applies[i] # "unborn" => applies'[i] # "unborn"
              /\ Waits(Screens!Call2("read", applyView.of))
              => ApplyTrue'
           /\ /\ UNCHANGED <<market, detail, installed>> /\ (view' = "detail" => view = "detail")
              /\ (view' = "installed" => view = "installed")
              /\ Waits(Screens!Call2("install", 0)) /\ Waits(Screens!Call2("list", 0)) /\ Waits(Screens!Call2("change", 0))
              /\ \A p \in Plugins : Waits(Screens!Call2("detail", p))
              => PagesTrue'
<1>1. ASSUME UNCHANGED form, view' = "login" => view = "login", Waits(Screens!Call2("login", 0)) PROVE LoginTrue'
  BY <1>1 DEF ScreensInv, LoginTrue, Screens!LoginUnderWay, Screens!Asked, Screens!AskedOf, Screens!UnderWay, Screens!Call, Waits
<1>2. ASSUME UNCHANGED <<editor, value>>, view = "editor" => view' = "editor" PROVE EditorTrue'
  BY <1>2 DEF ScreensInv, EditorTrue
<1>3. ASSUME UNCHANGED applyView, view = "apply" <=> view' = "apply", Waits(Screens!Call2("read", applyView.of)),
             \A i \in Screens!ApplyId : applies[i] # "unborn" => applies'[i] # "unborn"
      PROVE  ApplyTrue'
  <2>1. applyView.of # 0 => applyView.of \in Screens!ApplyId
    BY ScreensAssumption DEF ScreensInv, ApplyTrue, Screens!ApplyId
  <2> QED BY <1>3, <2>1 DEF ScreensInv, ApplyTrue, Screens!RunningIsRead, Screens!AskedOf, Screens!UnderWay, Waits
<1>4. ASSUME UNCHANGED <<market, detail, installed>>, view' = "detail" => view = "detail",
             view' = "installed" => view = "installed",
             Waits(Screens!Call2("install", 0)), Waits(Screens!Call2("list", 0)), Waits(Screens!Call2("change", 0)), \A p \in Plugins : Waits(Screens!Call2("detail", p))
      PROVE  PagesTrue'
  BY <1>4 DEF ScreensInv, PagesTrue, Screens!LoadingUnderWay, Screens!Asked, Screens!AskedOf, Screens!UnderWay, Screens!Call, Waits
<1> QED BY <1>1, <1>2, <1>3, <1>4

LEMMA BlankIsTrue ==
    ASSUME Screens!Blank, view' \in {"tree", "login", "gone"}, value' \in Screens!Values \ {"wrong"}
    PROVE  EditorTrue' /\ ApplyTrue' /\ PagesTrue'
BY ScreensAssumption DEF Screens!Blank, Screens!NoEditor, Screens!NoApply, Screens!NewMarket, Screens!NoDetail,
   Screens!NewInstalled, Screens!Values, EditorTrue, ApplyTrue, PagesTrue, Screens!RunningIsRead,
   Screens!LoadingUnderWay

LEMMA MethodsAre ==
    ASSUME NEW m \in LoginKinds
    PROVE  m \subseteq {"form", "browser"} /\ m # {}
BY ScreensAssumption

LEMMA LoginShown ==
    ASSUME LoopTrue, NEW taken, Screens!ShowLogin(taken), UNCHANGED methods
    PROVE  LoginTrue'
<1> DEFINE new == Screens!NewLogin
<1>1. methods \in LoginKinds
  BY DEF LoopTrue
<1>2. (CHOOSE m \in methods : TRUE) \in methods
  BY <1>1, MethodsAre
<1>3. /\ new \in [phase : {"none", "method", "form", "browser"}, submitting : BOOLEAN, first : BOOLEAN]
      /\ new.phase \in methods \/ (new.phase = "method" /\ methods = {"form", "browser"})
      /\ new.submitting => new.phase # "method"
  <2>1. CASE methods = {"form", "browser"}
    BY <2>1, <1>1, MethodsAre DEF Screens!NewLogin
  <2>2. CASE methods # {"form", "browser"}
    BY <2>2, <1>1, <1>2, MethodsAre DEF Screens!NewLogin
  <2> QED BY <2>1, <2>2
<1>4. new.submitting => Screens!Asked("login")'
  <2> SUFFICES ASSUME new.submitting PROVE Screens!Asked("login")'
    OBVIOUS
  <2>1. Screens!Calls(taken, Screens!Call("login"))
    BY DEF Screens!ShowLogin
  <2>2. Screens!Call("login") # Screens!NoCall /\ Screens!Call("login") = Screens!Call2("login", 0)
    BY DEF Screens!Call, Screens!NoCall, Screens!Call2
  <2> QED BY <2>1, <2>2, CallsMove DEF LoopTrue, Screens!Asked, Screens!AskedOf, Screens!UnderWay
<1>5. form' = new
  BY DEF Screens!ShowLogin
<1> HIDE DEF new
<1> QED BY <1>3, <1>4, <1>5 DEF LoginTrue, Screens!LoginUnderWay

\* Only an answer of that kind is taken.
WaitsBut(kind) == \A k, o : k # kind => Waits(Screens!Call2(k, o))

LEMMA CallsKept ==
    ASSUME IsBag(calls), NEW kind, NEW of, NEW made, Screens!Calls(Screens!Call2(kind, of), made)
    PROVE  /\ IsBag(calls)' /\ WaitsBut(kind)
           /\ made # Screens!NoCall => made \in DOMAIN calls'
           /\ \A i : i # of => Waits(Screens!Call2(kind, i))
<1>1. \A k, o : k # kind \/ o # of => Screens!Call2(k, o) # Screens!Call2(kind, of)
  BY DEF Screens!Call2
<1>2. ASSUME NEW k, NEW o, k # kind \/ o # of PROVE Waits(Screens!Call2(k, o))
  BY <1>1, <1>2, CallsMove
<1> QED BY <1>2, CallsMove DEF WaitsBut

LEMMA Asking ==
    /\ Screens!NoCall = Screens!Call2("none", 0)
    /\ \A kind : Screens!Call(kind) = Screens!Call2(kind, 0)
    /\ \A kind, of : kind # "none" => Screens!Call2(kind, of) # Screens!NoCall
BY DEF Screens!NoCall, Screens!Call, Screens!Call2

\* Without an answer taken, all that was under way is.
LEMMA CallsStay ==
    ASSUME IsBag(calls), UNCHANGED calls \/ \E made : Screens!Calls(Screens!NoCall, made)
    PROVE  IsBag(calls)' /\ WaitsBut("none")
<1>1. CASE UNCHANGED calls
  BY <1>1 DEF IsBag, WaitsBut, Waits
<1>2. ASSUME NEW made, Screens!Calls(Screens!NoCall, made) PROVE IsBag(calls)' /\ WaitsBut("none")
  BY <1>2, CallsKept, Asking
<1> QED BY <1>1, <1>2

\* A step that takes no answer disturbs what it changes only.
LEMMA ScreensKeep ==
    ASSUME ScreensInv, UNCHANGED <<methods, label>>, NEW kind, WaitsBut(kind)
    PROVE  /\ UNCHANGED <<form>> /\ (view' = "login" => view = "login") /\ kind # "login" => LoginTrue'
           /\ UNCHANGED <<editor, value>> /\ (view = "editor" => view' = "editor") => EditorTrue'
           /\ UNCHANGED <<applyView, applies>> /\ (view = "apply" <=> view' = "apply") /\ kind # "read" => ApplyTrue'
           /\ /\ UNCHANGED <<market, detail, installed>> /\ (view' = "detail" => view = "detail")
              /\ (view' = "installed" => view = "installed")
              /\ kind \notin {"install", "list", "change", "detail"}
              => PagesTrue'
<1>1. /\ kind # "login" => Waits(Screens!Call2("login", 0))
      /\ kind # "read" => Waits(Screens!Call2("read", applyView.of))
      /\ kind \notin {"install", "list", "change", "detail"} =>
            /\ Waits(Screens!Call2("install", 0)) /\ Waits(Screens!Call2("list", 0)) /\ Waits(Screens!Call2("change", 0))
            /\ \A p \in Plugins : Waits(Screens!Call2("detail", p))
  BY DEF WaitsBut
<1> QED BY <1>1, ScreensStay

-----------------------------------------------------------------------------
(* The keys that the app takes, of the login and of the tree.              *)

LEMMA QuitKeeps == ScreensInv /\ Screens!Quit => ScreensInv'
<1> SUFFICES ASSUME ScreensInv, Screens!Quit PROVE ScreensInv'
  OBVIOUS
<1>1. LoopTrue'
  <2>1. IsBag(calls)'
    BY DEF Screens!Quit, Screens!NoCalls, IsBag
  <2> QED BY <2>1 DEF ScreensInv, LoopTrue, Screens!Quit, Screens!around, Screens!Views
<1>2. LoginTrue'
  BY DEF Screens!Quit, Screens!NoLogin, LoginTrue, Screens!LoginUnderWay
<1>3. EditorTrue' /\ ApplyTrue' /\ PagesTrue'
  BY BlankIsTrue DEF Screens!Quit, ScreensInv, EditorTrue
<1> QED BY <1>1, <1>2, <1>3 DEF ScreensInv

LEMMA HelpAndFilterKeep == ScreensInv /\ (Screens!Help \/ Screens!CloseHelp \/ Screens!EscFilter \/ Screens!Filter) => ScreensInv'
<1> SUFFICES ASSUME ScreensInv, Screens!Help \/ Screens!CloseHelp \/ Screens!EscFilter \/ Screens!Filter PROVE ScreensInv'
  OBVIOUS
<1>1. UNCHANGED <<view, methods, label, form, editor, applyView, market, detail, installed, value, applies, calls>>
  BY DEF Screens!Help, Screens!CloseHelp, Screens!EscFilter, Screens!Filter, Screens!screens
<1>2. IsBag(calls)' /\ WaitsBut("none")
  BY <1>1, CallsStay DEF ScreensInv, LoopTrue
<1>4. help' \in BOOLEAN /\ filtering' \in BOOLEAN /\ (filtering' => view \in {"tree", "login", "gone"})
  <2>1. help \in BOOLEAN /\ filtering \in BOOLEAN /\ (filtering => view \in {"tree", "login", "gone"})
    BY DEF ScreensInv, LoopTrue
  <2>2. CASE Screens!Help
    BY <2>1, <2>2, Zenon DEF Screens!Help
  <2>3. CASE Screens!CloseHelp
    BY <2>1, <2>3, Zenon DEF Screens!CloseHelp
  <2>5. CASE Screens!EscFilter
    BY <2>1, <2>5, Zenon DEF Screens!EscFilter
  <2>4. CASE Screens!Filter
    <3>1. filtering' \in BOOLEAN /\ view = "tree" /\ UNCHANGED help
      BY <2>1, <2>4, Zenon DEF Screens!Filter
    <3> QED BY <3>1, <2>1
  <2> QED BY <2>2, <2>3, <2>4, <2>5
<1>3. LoopTrue'
  BY <1>1, <1>2, <1>4 DEF ScreensInv, LoopTrue
<1> QED BY <1>1, <1>2, <1>3, ScreensKeep DEF ScreensInv

LEMMA EscDetailKeeps == ScreensInv /\ Screens!EscDetail => ScreensInv'
<1> SUFFICES ASSUME ScreensInv, Screens!EscDetail PROVE ScreensInv'
  OBVIOUS
<1> USE DEF Screens!EscDetail, Screens!Esc, Screens!around
<1>1. IsBag(calls)' /\ WaitsBut("none")
  BY CallsStay DEF ScreensInv, LoopTrue
<1>2. LoopTrue'
  BY <1>1 DEF ScreensInv, LoopTrue, Screens!Views
<1>3. PagesTrue'
  BY DEF PagesTrue, ScreensInv, Screens!NoDetail, Screens!LoadingUnderWay
<1> QED BY <1>1, <1>2, <1>3, ScreensKeep DEF ScreensInv

LEMMA EscBackKeeps == ScreensInv /\ Screens!EscBack => ScreensInv'
<1> SUFFICES ASSUME ScreensInv, Screens!EscBack PROVE ScreensInv'
  OBVIOUS
<1> USE DEF Screens!EscBack, Screens!around
<1>1. IsBag(calls)' /\ WaitsBut("none")
  BY CallsStay DEF ScreensInv, LoopTrue
<1>2. LoopTrue'
  BY <1>1 DEF ScreensInv, LoopTrue, Screens!Views
<1>3. EditorTrue' /\ ApplyTrue' /\ PagesTrue'
  BY BlankIsTrue DEF ScreensInv, EditorTrue
<1> QED BY <1>1, <1>2, <1>3, ScreensKeep DEF ScreensInv

LEMMA LoginKeysKeep == ScreensInv /\ (Screens!PickMethod \/ Screens!Submit) => ScreensInv'
<1> SUFFICES ASSUME ScreensInv, Screens!PickMethod \/ Screens!Submit PROVE ScreensInv'
  OBVIOUS
<1> USE DEF Screens!around
<1>1. /\ UNCHANGED <<view, help, filtering, methods, label, editor, applyView, market, detail, installed, value, applies>>
      /\ view = "login"
      /\ UNCHANGED calls \/ Screens!Calls(Screens!NoCall, Screens!Call("login"))
  BY DEF Screens!PickMethod, Screens!Submit
<1>2. IsBag(calls)' /\ WaitsBut("none")
  BY <1>1, CallsStay DEF ScreensInv, LoopTrue
<1>3. LoopTrue'
  BY <1>1, <1>2 DEF ScreensInv, LoopTrue
<1>4. form'.submitting /\ ~form.submitting => Screens!Asked("login")'
  <2> SUFFICES ASSUME form'.submitting, ~form.submitting PROVE Screens!Asked("login")'
    OBVIOUS
  <2>1. Screens!Calls(Screens!NoCall, Screens!Call("login"))
    BY DEF Screens!PickMethod, Screens!Submit, ScreensInv, LoginTrue
  <2> QED BY <2>1, Asking, CallsMove DEF ScreensInv, LoopTrue, Screens!Asked, Screens!AskedOf, Screens!UnderWay
<1>5. /\ form' \in [phase : {"none", "method", "form", "browser"}, submitting : BOOLEAN, first : BOOLEAN]
      /\ form'.phase \in methods \/ (form'.phase = "method" /\ methods = {"form", "browser"})
      /\ form'.submitting => form'.phase # "method"
  <2>1. form.phase \in methods \/ (form.phase = "method" /\ methods = {"form", "browser"})
    BY <1>1 DEF ScreensInv, LoginTrue
  <2>2. methods \subseteq {"form", "browser"}
    BY MethodsAre DEF ScreensInv, LoopTrue
  <2>3. CASE Screens!Submit
    BY <2>1, <2>3 DEF Screens!Submit, ScreensInv, LoginTrue
  <2>4. CASE Screens!PickMethod
    BY <2>1, <2>2, <2>4 DEF Screens!PickMethod, ScreensInv, LoginTrue
  <2> QED BY <2>3, <2>4
<1>6. ~form.submitting
  BY DEF Screens!PickMethod, Screens!Submit
<1>7. LoginTrue'
  BY <1>1, <1>4, <1>5, <1>6 DEF LoginTrue, Screens!LoginUnderWay
<1> QED BY <1>1, <1>2, <1>3, <1>7, ScreensKeep DEF ScreensInv

LEMMA LoginResultKeeps == ScreensInv /\ Screens!LoginResult => ScreensInv'
<1> SUFFICES ASSUME ScreensInv, Screens!LoginResult PROVE ScreensInv'
  OBVIOUS
<1> USE DEF Screens!around
<1>1. /\ UNCHANGED <<view, help, filtering, methods, label, editor, applyView, market, detail, installed, value, applies>>
      /\ form' = IF view = "login" THEN [form EXCEPT !.submitting = FALSE] ELSE form
      /\ \E made : Screens!Calls(Screens!Call2("login", 0), made)
  BY Asking DEF Screens!LoginResult
<1>2. IsBag(calls)' /\ WaitsBut("login")
  BY <1>1, CallsKept DEF ScreensInv, LoopTrue
<1>3. LoopTrue'
  BY <1>1, <1>2 DEF ScreensInv, LoopTrue
<1>4. LoginTrue'
  BY <1>1 DEF LoginTrue, ScreensInv, Screens!LoginUnderWay
<1> QED BY <1>1, <1>2, <1>3, <1>4, ScreensKeep DEF ScreensInv

LEMMA OpenEditorKeeps == ScreensInv /\ Screens!OpenEditor => ScreensInv'
<1> SUFFICES ASSUME ScreensInv, Screens!OpenEditor PROVE ScreensInv'
  OBVIOUS
<1> USE DEF Screens!OpenEditor, Screens!TreeKey, Screens!around
<1>1. IsBag(calls)' /\ WaitsBut("none")
  BY CallsStay DEF ScreensInv, LoopTrue
<1>2. LoopTrue'
  BY <1>1 DEF ScreensInv, LoopTrue, Screens!Views
<1>3. EditorTrue'
  BY DEF ScreensInv, EditorTrue, Screens!NoEditor
<1> QED BY <1>1, <1>2, <1>3, ScreensKeep DEF ScreensInv

LEMMA SaveOrValidateKeeps == ScreensInv /\ Screens!SaveOrValidate => ScreensInv'
<1> SUFFICES ASSUME ScreensInv, Screens!SaveOrValidate PROVE ScreensInv'
  OBVIOUS
<1> USE DEF Screens!TreeKey, Screens!around, Screens!screens
<1>1. UNCHANGED <<help, filtering, methods, label, value, applies>> /\ view = "tree" /\ ~filtering
  BY DEF Screens!SaveOrValidate
<1>2. CASE view' \in {"tree", "validation"} /\ UNCHANGED <<Screens!screens, calls>>
  <2>1. IsBag(calls)' /\ WaitsBut("none")
    BY <1>2, CallsStay DEF ScreensInv, LoopTrue
  <2>2. LoopTrue'
    BY <1>1, <1>2, <2>1 DEF ScreensInv, LoopTrue, Screens!Views
  <2>3. EditorTrue'
    BY <1>1, <1>2 DEF ScreensInv, EditorTrue
  <2> QED BY <1>1, <1>2, <2>1, <2>2, <2>3, ScreensKeep DEF ScreensInv
<1>3. CASE Screens!ShowLogin(Screens!NoCall)
  <2>1. IsBag(calls)'
    BY <1>3, CallsStay DEF ScreensInv, LoopTrue, Screens!ShowLogin
  <2>2. LoopTrue'
    BY <1>1, <1>3, <2>1 DEF ScreensInv, LoopTrue, Screens!Views, Screens!ShowLogin
  <2>3. EditorTrue' /\ ApplyTrue' /\ PagesTrue'
    BY <1>1, <1>3, BlankIsTrue DEF ScreensInv, EditorTrue, Screens!ShowLogin
  <2> QED BY <1>1, <1>3, <2>2, <2>3, LoginShown DEF ScreensInv
<1> QED BY <1>2, <1>3 DEF Screens!SaveOrValidate

\* A page or an apply is opened with the call that is to fill it.
LEMMA OpenKeeps == ScreensInv /\ Screens!Open => ScreensInv'
<1> SUFFICES ASSUME ScreensInv, Screens!Open PROVE ScreensInv'
  OBVIOUS
<1> USE DEF Screens!TreeKey, Screens!around
<1>1. /\ UNCHANGED <<help, filtering, methods, label, form, editor, applyView, detail, value, applies>>
      /\ view = "tree" /\ ~filtering /\ view' \in {"component", "export", "market", "installed"}
  BY DEF Screens!Open
<1>2. IsBag(calls)' /\ WaitsBut("none")
  <2>1. UNCHANGED calls \/ \E made : Screens!Calls(Screens!NoCall, made)
    BY DEF Screens!Open
  <2> QED BY <2>1, CallsStay DEF ScreensInv, LoopTrue
<1>3. LoopTrue'
  BY <1>1, <1>2 DEF ScreensInv, LoopTrue, Screens!Views
<1>4. PagesTrue'
  <2>1. market' \in {market, Screens!NewMarket} /\ installed' \in {installed, Screens!NewInstalled}
    BY DEF Screens!Open
  <2>2. view' = "installed" => installed' = Screens!NewInstalled
    BY DEF Screens!Open
  <2>3. /\ market' \in [found : BOOLEAN, loading : BOOLEAN, searching : BOOLEAN]
        /\ installed' \in [listed : BOOLEAN, loading : BOOLEAN]
    <3>1. Screens!NewMarket \in [found : BOOLEAN, loading : BOOLEAN, searching : BOOLEAN]
      BY DEF Screens!NewMarket
    <3>2. Screens!NewInstalled \in [listed : BOOLEAN, loading : BOOLEAN]
      BY DEF Screens!NewInstalled
    <3> QED BY <2>1, <3>1, <3>2 DEF ScreensInv, PagesTrue
  <2>4. view' = "installed" => ~installed'.loading
    BY <2>2 DEF Screens!NewInstalled
  <2> QED BY <1>1, <2>3, <2>4 DEF ScreensInv, PagesTrue, Screens!LoadingUnderWay
<1>5. EditorTrue'
  BY <1>1 DEF ScreensInv, EditorTrue
<1> QED BY <1>1, <1>2, <1>3, <1>4, <1>5, ScreensKeep DEF ScreensInv

LEMMA ReloadKeeps == ScreensInv /\ Screens!Reload => ScreensInv'
<1> SUFFICES ASSUME ScreensInv, Screens!Reload PROVE ScreensInv'
  OBVIOUS
<1> USE DEF Screens!Reload, Screens!TreeKey, Screens!around, Screens!screens
<1>1. IsBag(calls)' /\ WaitsBut("none")
  BY CallsStay DEF ScreensInv, LoopTrue
<1>2. LoopTrue'
  BY <1>1 DEF ScreensInv, LoopTrue
<1> QED BY <1>1, <1>2, ScreensKeep DEF ScreensInv

LEMMA StartApplyKeeps == ScreensInv /\ Screens!StartApply => ScreensInv'
<1> SUFFICES ASSUME ScreensInv, Screens!StartApply PROVE ScreensInv'
  OBVIOUS
<1> USE DEF Screens!TreeKey, Screens!around
<1>1. /\ UNCHANGED <<help, filtering, methods, label, form, editor, market, detail, installed, value>>
      /\ view = "tree" /\ ~filtering /\ view' = "apply"
  BY DEF Screens!StartApply
<1>2. PICK i \in Screens!ApplyId :
        /\ applies' = [applies EXCEPT ![i] = "runs"]
        /\ applyView' = [of |-> i, running |-> TRUE]
        /\ Screens!Calls(Screens!NoCall, Screens!Call2("read", i))
  BY DEF Screens!StartApply
<1>3. IsBag(calls)' /\ WaitsBut("none")
  BY <1>2, CallsStay DEF ScreensInv, LoopTrue
<1>4. LoopTrue'
  BY <1>1, <1>2, <1>3 DEF ScreensInv, LoopTrue, Screens!Views
<1>5. Screens!Call2("read", i) \in DOMAIN calls'
  BY <1>2, Asking, CallsMove DEF ScreensInv, LoopTrue
<1>6. ApplyTrue'
  <2>1. i \in 1..MaxApplies /\ MaxApplies \in Nat /\ i # 0 /\ i \in 0..MaxApplies
    BY ScreensAssumption DEF Screens!ApplyId
  <2>2. applies'[i] = "runs"
    BY <1>2 DEF ScreensInv, LoopTrue
  <2>3. applyView' \in [of : 0..MaxApplies, running : BOOLEAN] /\ applyView'.of = i
    BY <1>2, <2>1
  <2>4. Screens!RunningIsRead'
    BY <1>5, <2>3 DEF Screens!RunningIsRead, Screens!AskedOf, Screens!UnderWay
  <2> QED BY <1>1, <2>1, <2>2, <2>3, <2>4 DEF ApplyTrue
<1>7. EditorTrue'
  BY <1>1 DEF ScreensInv, EditorTrue
<1> QED BY <1>1, <1>3, <1>4, <1>6, <1>7, ScreensKeep DEF ScreensInv

LEMMA TreeLoadedKeeps == ScreensInv /\ Screens!TreeLoaded => ScreensInv'
<1> SUFFICES ASSUME ScreensInv, Screens!TreeLoaded PROVE ScreensInv'
  OBVIOUS
<1> USE DEF Screens!around
<1>1. UNCHANGED <<help, methods, label, value, applies>>
  BY DEF Screens!TreeLoaded
<1>2. IsBag(calls)' /\ WaitsBut("load")
  <2>1. \E made : Screens!Calls(Screens!Call2("load", 0), made)
    BY Asking DEF Screens!TreeLoaded, Screens!ShowLogin
  <2> QED BY <2>1, CallsKept DEF ScreensInv, LoopTrue
<1>3. CASE /\ view' = (IF view = "login" THEN "tree" ELSE view)
           /\ form' = Screens!NoLogin /\ filtering' = FALSE
           /\ UNCHANGED <<editor, applyView, market, detail, installed>>
  <2>1. LoopTrue'
    BY <1>1, <1>2, <1>3 DEF ScreensInv, LoopTrue, Screens!Views
  <2>2. LoginTrue'
    BY <1>1, <1>3 DEF LoginTrue, Screens!NoLogin, Screens!LoginUnderWay
  <2> QED BY <1>1, <1>2, <1>3, <2>1, <2>2, ScreensKeep DEF ScreensInv
<1>4. CASE Screens!ShowLogin(Screens!Call("load")) /\ UNCHANGED filtering
  <2>1. LoopTrue'
    BY <1>1, <1>2, <1>4 DEF ScreensInv, LoopTrue, Screens!Views, Screens!ShowLogin
  <2>2. EditorTrue' /\ ApplyTrue' /\ PagesTrue'
    BY <1>1, <1>4, BlankIsTrue DEF ScreensInv, EditorTrue, Screens!ShowLogin
  <2> QED BY <1>1, <1>4, <2>1, <2>2, LoginShown DEF ScreensInv
<1>5. CASE UNCHANGED <<view, Screens!screens, filtering>>
  <2>1. LoopTrue'
    BY <1>1, <1>2, <1>5 DEF ScreensInv, LoopTrue
  <2> QED BY <1>1, <1>2, <1>5, <2>1, ScreensKeep DEF ScreensInv, Screens!screens
<1> QED BY <1>3, <1>4, <1>5 DEF Screens!TreeLoaded

-----------------------------------------------------------------------------
(* The editor.                                                             *)

LEMMA EditingKeeps ==
    ASSUME ScreensInv, NEW v \in Screens!Values,
           Screens!Type(v) \/ Screens!Choose(v) \/ Screens!EditEntry
    PROVE  ScreensInv'
<1> USE DEF Screens!EditorKey, Screens!around
<1>1. /\ UNCHANGED <<view, help, filtering, methods, label, form, applyView, market, detail, installed, value, applies, calls>>
      /\ view = "editor" /\ ~editor.confirming
  BY DEF Screens!Type, Screens!Choose, Screens!EditEntry
<1>2. IsBag(calls)' /\ WaitsBut("none")
  BY <1>1, CallsStay DEF ScreensInv, LoopTrue
<1>3. LoopTrue'
  BY <1>1, <1>2 DEF ScreensInv, LoopTrue
<1>4. EditorTrue'
  <2>1. CASE Screens!Type(v)
    BY <1>1, <2>1 DEF Screens!Type, ScreensInv, EditorTrue, LoopTrue
  <2>2. CASE Screens!Choose(v)
    BY <1>1, <2>2 DEF Screens!Choose, ScreensInv, EditorTrue
  <2>3. CASE Screens!EditEntry
    BY <1>1, <2>3 DEF Screens!EditEntry, ScreensInv, EditorTrue, Screens!Values
  <2> QED BY <2>1, <2>2, <2>3
<1> QED BY <1>1, <1>2, <1>3, <1>4, ScreensKeep DEF ScreensInv

LEMMA CommitKeeps ==
    ASSUME ScreensInv, Screens!Commit, ~editor.wrong, UNCHANGED <<Screens!around, applies>>
    PROVE  ScreensInv'
<1> USE DEF Screens!around
<1>1. value' \in Screens!Values \ {"wrong"}
  BY DEF ScreensInv, EditorTrue, Screens!Commit
<1>2. CASE view' = "tree" /\ Screens!Blank /\ UNCHANGED <<form, calls>>
  <2>1. IsBag(calls)' /\ WaitsBut("none")
    BY <1>2, CallsStay DEF ScreensInv, LoopTrue
  <2>2. LoopTrue'
    BY <1>2, <2>1 DEF ScreensInv, LoopTrue, Screens!Views
  <2> QED BY <1>1, <1>2, <2>1, <2>2, BlankIsTrue, ScreensKeep DEF ScreensInv
<1>3. CASE Screens!ShowLogin(Screens!NoCall)
  <2>1. IsBag(calls)'
    BY <1>3, CallsStay DEF ScreensInv, LoopTrue, Screens!ShowLogin
  <2>2. LoopTrue'
    BY <1>3, <2>1 DEF ScreensInv, LoopTrue, EditorTrue, Screens!Views, Screens!ShowLogin
  <2> QED BY <1>1, <1>3, <2>2, BlankIsTrue, LoginShown DEF ScreensInv, Screens!ShowLogin
<1> QED BY <1>2, <1>3 DEF Screens!Commit

LEMMA GivingUpKeeps ==
    ASSUME ScreensInv, view' = "tree", Screens!Blank,
           UNCHANGED <<value, form, calls, Screens!around, applies>>
    PROVE  ScreensInv'
<1> USE DEF Screens!around
<1>1. IsBag(calls)' /\ WaitsBut("none")
  BY CallsStay DEF ScreensInv, LoopTrue
<1>2. LoopTrue'
  BY <1>1 DEF ScreensInv, LoopTrue, Screens!Views
<1>3. value' \in Screens!Values \ {"wrong"}
  BY DEF ScreensInv, EditorTrue
<1> QED BY <1>1, <1>2, <1>3, BlankIsTrue, ScreensKeep DEF ScreensInv

LEMMA EnterKeeps == ScreensInv /\ (Screens!Enter \/ Screens!Confirm) => ScreensInv'
<1> SUFFICES ASSUME ScreensInv, Screens!Enter \/ Screens!Confirm PROVE ScreensInv'
  OBVIOUS
<1>1. UNCHANGED <<Screens!around, applies>>
  BY DEF Screens!Enter, Screens!Confirm
<1>2. \/ view' = "tree" /\ Screens!Blank /\ UNCHANGED <<value, form, calls>>
      \/ Screens!Commit /\ ~editor.wrong
      \/ /\ Screens!EditorKey /\ editor.dirty /\ ~editor.wrong /\ label.asks
         /\ editor' = [editor EXCEPT !.confirming = TRUE]
         /\ UNCHANGED <<view, value, form, applyView, market, detail, installed, calls>>
  BY DEF Screens!Enter, Screens!Confirm, Screens!MayCommit, ScreensInv, EditorTrue
<1>3. CASE view' = "tree" /\ Screens!Blank /\ UNCHANGED <<value, form, calls>>
  BY <1>1, <1>3, GivingUpKeeps
<1>4. CASE Screens!Commit /\ ~editor.wrong
  BY <1>1, <1>4, CommitKeeps
<1>5. CASE /\ Screens!EditorKey /\ editor.dirty /\ ~editor.wrong /\ label.asks
           /\ editor' = [editor EXCEPT !.confirming = TRUE]
           /\ UNCHANGED <<view, value, form, applyView, market, detail, installed, calls>>
  <2>1. IsBag(calls)' /\ WaitsBut("none")
    BY <1>5, CallsStay DEF ScreensInv, LoopTrue
  <2>2. LoopTrue'
    BY <1>1, <1>5, <2>1 DEF ScreensInv, LoopTrue, Screens!around
  <2>3. EditorTrue'
    BY <1>1, <1>5 DEF ScreensInv, EditorTrue, Screens!EditorKey, Screens!around
  <2> QED BY <1>1, <1>5, <2>1, <2>2, <2>3, ScreensKeep DEF ScreensInv, Screens!around
<1> QED BY <1>2, <1>3, <1>4, <1>5

-----------------------------------------------------------------------------
(* The output of an apply is read on, and its result ends it on the screen. *)

LEMMA RunEndsKeeps ==
    ASSUME ScreensInv, NEW i \in Screens!ApplyId, Screens!RunEnds(i)
    PROVE  ScreensInv'
<1> USE DEF Screens!RunEnds, Screens!around, Screens!screens
<1>1. IsBag(calls)' /\ WaitsBut("none")
  BY CallsStay DEF ScreensInv, LoopTrue
<1>2. LoopTrue'
  BY <1>1 DEF ScreensInv, LoopTrue
<1>3. \A j \in Screens!ApplyId : applies[j] # "unborn" => applies'[j] # "unborn"
  BY DEF ScreensInv, LoopTrue
<1>4. ApplyTrue'
  BY <1>1, <1>3, ScreensStay DEF WaitsBut
<1> QED BY <1>1, <1>2, <1>4, ScreensKeep DEF ScreensInv

LEMMA ApplyOutputKeeps ==
    ASSUME ScreensInv, NEW i \in Screens!ApplyId, Screens!ApplyOutput(i)
    PROVE  ScreensInv'
<1> USE DEF Screens!around, Screens!screens
<1>1. /\ UNCHANGED <<view, methods, label, help, filtering, form, editor, applyView, market, detail, installed, value>>
      /\ applies' \in {applies, [applies EXCEPT ![i] = "told"]} /\ applies[i] # "unborn"
      /\ Screens!Calls(Screens!Call2("read", i), Screens!NextRead)
  BY DEF Screens!ApplyOutput
<1>2. /\ IsBag(calls)' /\ WaitsBut("read")
      /\ Screens!NextRead # Screens!NoCall => Screens!NextRead \in DOMAIN calls'
  BY <1>1, CallsKept DEF ScreensInv, LoopTrue
<1>3. LoopTrue'
  BY <1>1, <1>2 DEF ScreensInv, LoopTrue
<1>4. ApplyTrue'
  <2>1. \A j \in Screens!ApplyId : applies[j] # "unborn" => applies'[j] # "unborn"
    BY <1>1 DEF ScreensInv, LoopTrue
  <2>2. applyView.of # 0 => applyView.of \in Screens!ApplyId
    BY ScreensAssumption DEF ScreensInv, ApplyTrue, Screens!ApplyId
  <2>3. view = "apply" => Screens!Call2("read", applyView.of) \in DOMAIN calls'
    BY <1>2, Asking DEF Screens!NextRead
  <2>4. Screens!RunningIsRead'
    BY <1>1, <2>3 DEF Screens!RunningIsRead, Screens!AskedOf, Screens!UnderWay
  <2> QED BY <1>1, <2>1, <2>2, <2>4 DEF ScreensInv, ApplyTrue
<1> QED BY <1>1, <1>2, <1>3, <1>4, ScreensKeep DEF ScreensInv

LEMMA ApplyDoneKeeps ==
    ASSUME ScreensInv, NEW i \in Screens!ApplyId, Screens!ApplyDone(i)
    PROVE  ScreensInv'
<1> USE DEF Screens!around
<1>1. /\ UNCHANGED <<view, methods, label, help, filtering, form, editor, market, detail, installed, value>>
      /\ applies' = [applies EXCEPT ![i] = "told"]
      /\ applyView' = IF view = "apply" THEN [applyView EXCEPT !.running = FALSE] ELSE applyView
      /\ Screens!Calls(Screens!Call2("read", i), Screens!NoCall)
  BY DEF Screens!ApplyDone
<1>2. IsBag(calls)' /\ WaitsBut("read")
  BY <1>1, CallsKept DEF ScreensInv, LoopTrue
<1>3. LoopTrue'
  BY <1>1, <1>2 DEF ScreensInv, LoopTrue
<1>4. ApplyTrue'
  <2>1. \A j \in Screens!ApplyId : applies[j] # "unborn" => applies'[j] # "unborn"
    BY <1>1 DEF ScreensInv, LoopTrue
  <2>2. applyView.of # 0 => applyView.of \in Screens!ApplyId
    BY ScreensAssumption DEF ScreensInv, ApplyTrue, Screens!ApplyId
  <2>3. applyView' \in [of : 0..MaxApplies, running : BOOLEAN] /\ applyView'.of = applyView.of
    BY <1>1 DEF ScreensInv, ApplyTrue
  <2>4. view = "apply" => ~applyView'.running
    BY <1>1 DEF ScreensInv, ApplyTrue
  <2>5. view # "apply" => applyView' = applyView
    BY <1>1
  <2> QED BY <1>1, <2>1, <2>2, <2>3, <2>4, <2>5 DEF ScreensInv, ApplyTrue, Screens!RunningIsRead
<1> QED BY <1>1, <1>2, <1>3, <1>4, ScreensKeep DEF ScreensInv

-----------------------------------------------------------------------------
(* The marketplace, a plugin's page and the installed plugins.             *)

LEMMA SearchKeeps == ScreensInv /\ Screens!Search => ScreensInv'
<1> SUFFICES ASSUME ScreensInv, Screens!Search PROVE ScreensInv'
  OBVIOUS
<1> USE DEF Screens!around
<1>1. /\ UNCHANGED <<view, methods, label, help, filtering, form, editor, applyView, detail, installed, value, applies>>
      /\ view = "market"
      /\ UNCHANGED calls \/ Screens!Calls(Screens!NoCall, Screens!Call("search"))
  BY DEF Screens!Search
<1>2. IsBag(calls)' /\ WaitsBut("none")
  BY <1>1, CallsStay DEF ScreensInv, LoopTrue
<1>3. LoopTrue'
  BY <1>1, <1>2 DEF ScreensInv, LoopTrue
<1>4. market' \in [found : BOOLEAN, loading : BOOLEAN, searching : BOOLEAN]
  BY DEF Screens!Search, ScreensInv, PagesTrue
<1>5. PagesTrue'
  BY <1>1, <1>4 DEF ScreensInv, PagesTrue, Screens!LoadingUnderWay
<1> QED BY <1>1, <1>2, <1>3, <1>5, ScreensKeep DEF ScreensInv

LEMMA OpenDetailKeeps == ASSUME ScreensInv, NEW p \in Plugins, Screens!OpenDetail(p) PROVE ScreensInv'
<1> USE DEF Screens!OpenDetail, Screens!around
<1>1. IsBag(calls)' /\ WaitsBut("none")
  BY CallsStay DEF ScreensInv, LoopTrue
<1>2. LoopTrue'
  BY <1>1 DEF ScreensInv, LoopTrue, Screens!Views
<1>3. Screens!AskedOf("detail", p)'
  BY Asking, CallsMove DEF ScreensInv, LoopTrue, Screens!AskedOf, Screens!UnderWay
<1>4. PagesTrue'
  BY <1>3 DEF ScreensInv, PagesTrue, Screens!LoadingUnderWay
<1> QED BY <1>1, <1>2, <1>4, ScreensKeep DEF ScreensInv

LEMMA InstallKeeps == ScreensInv /\ (Screens!Install \/ Screens!Manage) => ScreensInv'
<1> SUFFICES ASSUME ScreensInv, Screens!Install \/ Screens!Manage PROVE ScreensInv'
  OBVIOUS
<1> USE DEF Screens!around
<1>1. UNCHANGED <<view, methods, label, help, filtering, form, editor, applyView, value, applies>>
  BY DEF Screens!Install, Screens!Manage
<1>2. IsBag(calls)' /\ WaitsBut("none")
  BY CallsStay DEF ScreensInv, LoopTrue, Screens!Install, Screens!Manage
<1>3. LoopTrue'
  BY <1>1, <1>2 DEF ScreensInv, LoopTrue
<1>4. CASE Screens!Install
  <2>1. Screens!Asked("install")'
    BY <1>4, Asking, CallsMove DEF ScreensInv, LoopTrue, Screens!Install, Screens!Asked, Screens!AskedOf, Screens!UnderWay
  <2>2. /\ market' \in [found : BOOLEAN, loading : BOOLEAN, searching : BOOLEAN]
        /\ detail' \in {detail, [detail EXCEPT !.loading = TRUE]} /\ UNCHANGED installed
        /\ view \in {"market", "detail"}
    BY <1>4 DEF Screens!Install, ScreensInv, PagesTrue
  <2>3. PagesTrue'
    BY <1>1, <2>1, <2>2 DEF ScreensInv, PagesTrue, Screens!LoadingUnderWay
  <2> QED BY <1>1, <1>2, <1>3, <2>3, ScreensKeep DEF ScreensInv
<1>5. CASE Screens!Manage
  <2>1. Screens!Asked("list")' \/ Screens!Asked("change")'
    BY <1>5, Asking, CallsMove DEF ScreensInv, LoopTrue, Screens!Manage, Screens!Asked, Screens!AskedOf, Screens!UnderWay
  <2>2. PagesTrue'
    BY <1>1, <1>5, <2>1 DEF ScreensInv, PagesTrue, Screens!LoadingUnderWay, Screens!Manage
  <2> QED BY <1>1, <1>2, <1>3, <2>2, ScreensKeep DEF ScreensInv
<1> QED BY <1>4, <1>5

\* An answer ends the loading of the page that is shown if that page takes
\* it; the page that does not take it waits for an answer of another kind.
LEMMA SearchResultsKeep == ScreensInv /\ Screens!SearchResults => ScreensInv'
<1> SUFFICES ASSUME ScreensInv, Screens!SearchResults PROVE ScreensInv'
  OBVIOUS
<1> USE DEF Screens!around
<1>1. /\ UNCHANGED <<view, methods, label, help, filtering, form, editor, applyView, detail, installed, value, applies>>
      /\ Screens!Calls(Screens!Call2("search", 0), Screens!NoCall)
  BY Asking DEF Screens!SearchResults
<1>2. IsBag(calls)' /\ WaitsBut("search")
  BY <1>1, CallsKept DEF ScreensInv, LoopTrue
<1>3. LoopTrue'
  BY <1>1, <1>2 DEF ScreensInv, LoopTrue
<1>4. PagesTrue'
  <2>1. market' \in [found : BOOLEAN, loading : BOOLEAN, searching : BOOLEAN]
    BY DEF Screens!SearchResults, ScreensInv, PagesTrue
  <2>2. Screens!LoadingUnderWay'
    BY <1>1, <1>2 DEF ScreensInv, PagesTrue, Screens!LoadingUnderWay, Screens!Asked, Screens!AskedOf, Screens!UnderWay, WaitsBut, Waits
  <2> QED BY <1>1, <2>1, <2>2 DEF ScreensInv, PagesTrue
<1> QED BY <1>1, <1>2, <1>3, <1>4, ScreensKeep DEF ScreensInv

LEMMA InstallResultKeeps == ScreensInv /\ Screens!InstallResult => ScreensInv'
<1> SUFFICES ASSUME ScreensInv, Screens!InstallResult PROVE ScreensInv'
  OBVIOUS
<1> USE DEF Screens!around
<1>1. /\ UNCHANGED <<view, methods, label, help, filtering, form, editor, applyView, installed, value, applies>>
      /\ Screens!Calls(Screens!Call2("install", 0), Screens!NoCall)
      /\ market' = IF view = "market" THEN [market EXCEPT !.loading = FALSE] ELSE market
      /\ detail' = IF view = "detail" THEN [detail EXCEPT !.loading = FALSE] ELSE detail
  BY Asking DEF Screens!InstallResult
<1>2. IsBag(calls)' /\ WaitsBut("install")
  BY <1>1, CallsKept DEF ScreensInv, LoopTrue
<1>3. LoopTrue'
  BY <1>1, <1>2 DEF ScreensInv, LoopTrue
<1>4. PagesTrue'
  <2>1. market' \in [found : BOOLEAN, loading : BOOLEAN, searching : BOOLEAN]
    BY <1>1 DEF ScreensInv, PagesTrue
  <2>2. /\ detail' \in [of : Plugins \cup {Screens!NoPlugin}, shows : Plugins \cup {Screens!NoPlugin}, loading : BOOLEAN]
        /\ detail'.of = detail.of
        /\ view = "detail" => ~detail'.loading
    BY <1>1 DEF ScreensInv, PagesTrue
  <2>3. Screens!LoadingUnderWay'
    BY <1>1, <1>2, <2>2 DEF ScreensInv, PagesTrue, Screens!LoadingUnderWay, Screens!Asked, Screens!AskedOf, Screens!UnderWay, WaitsBut, Waits
  <2> QED BY <1>1, <2>1, <2>2, <2>3 DEF ScreensInv, PagesTrue
<1> QED BY <1>1, <1>2, <1>3, <1>4, ScreensKeep DEF ScreensInv

LEMMA DetailResultKeeps == ASSUME ScreensInv, NEW p \in Plugins, Screens!DetailResult(p) PROVE ScreensInv'
<1> USE DEF Screens!around
<1>1. /\ UNCHANGED <<view, methods, label, help, filtering, form, editor, applyView, market, installed, value, applies>>
      /\ Screens!Calls(Screens!Call2("detail", p), Screens!NoCall)
  BY DEF Screens!DetailResult
<1>2. IsBag(calls)' /\ WaitsBut("detail")
  BY <1>1, CallsKept DEF ScreensInv, LoopTrue
<1>3. LoopTrue'
  BY <1>1, <1>2 DEF ScreensInv, LoopTrue
<1>4. PagesTrue'
  <2>1. CASE view = "detail"
    <3>1. PICK s \in {p, detail.shows} : detail' = Screens!Page(s)
      BY <2>1 DEF Screens!DetailResult
    <3>2. s \in Plugins \cup {Screens!NoPlugin}
      BY DEF ScreensInv, PagesTrue
    <3>3. /\ detail' \in [of : Plugins \cup {Screens!NoPlugin}, shows : Plugins \cup {Screens!NoPlugin}, loading : BOOLEAN]
          /\ detail'.of = detail.of /\ ~detail'.loading
      BY <3>1, <3>2 DEF Screens!Page, ScreensInv, PagesTrue
    <3> QED BY <1>1, <2>1, <3>3 DEF ScreensInv, PagesTrue, Screens!LoadingUnderWay
  <2>2. CASE view # "detail"
    <3>1. UNCHANGED detail
      BY <2>2 DEF Screens!DetailResult
    <3>2. Screens!LoadingUnderWay'
      BY <1>1, <1>2, <2>2 DEF ScreensInv, PagesTrue, Screens!LoadingUnderWay, Screens!Asked, Screens!AskedOf, Screens!UnderWay, WaitsBut, Waits
    <3> QED BY <1>1, <3>1, <3>2 DEF ScreensInv, PagesTrue
  <2> QED BY <2>1, <2>2
<1> QED BY <1>1, <1>2, <1>3, <1>4, ScreensKeep DEF ScreensInv

LEMMA InstalledResultKeeps ==
    ASSUME ScreensInv, NEW kind \in {"list", "change"}, Screens!InstalledResult(kind)
    PROVE  ScreensInv'
<1> USE DEF Screens!around
<1>1. /\ UNCHANGED <<view, methods, label, help, filtering, form, editor, applyView, market, detail, value, applies>>
      /\ \E made : Screens!Calls(Screens!Call2(kind, 0), made)
  BY Asking DEF Screens!InstalledResult
<1>2. IsBag(calls)' /\ WaitsBut(kind)
  BY <1>1, CallsKept DEF ScreensInv, LoopTrue
<1>3. LoopTrue'
  BY <1>1, <1>2 DEF ScreensInv, LoopTrue
<1>4. PagesTrue'
  <2>1. installed' \in [listed : BOOLEAN, loading : BOOLEAN] /\ (view = "installed" => ~installed'.loading)
    <3>1. CASE view = "installed"
      <4>1. PICK l \in IF kind = "list" THEN BOOLEAN ELSE {installed.listed} :
              installed' = [listed |-> l, loading |-> FALSE]
        BY <3>1 DEF Screens!InstalledResult
      <4>2. l \in BOOLEAN
        BY DEF ScreensInv, PagesTrue
      <4> QED BY <4>1, <4>2
    <3>2. CASE view # "installed"
      BY <3>2 DEF Screens!InstalledResult, ScreensInv, PagesTrue
    <3> QED BY <3>1, <3>2
  <2>2. Screens!LoadingUnderWay'
    BY <1>1, <1>2, <2>1 DEF ScreensInv, PagesTrue, Screens!LoadingUnderWay, Screens!Asked, Screens!AskedOf, Screens!UnderWay, WaitsBut, Waits
  <2> QED BY <1>1, <2>1, <2>2 DEF ScreensInv, PagesTrue
<1> QED BY <1>1, <1>2, <1>3, <1>4, ScreensKeep DEF ScreensInv

-----------------------------------------------------------------------------
(* All steps together.                                                     *)

LEMMA ScreensStart == Screens!Init => ScreensInv
<1> SUFFICES ASSUME Screens!Init PROVE ScreensInv
  OBVIOUS
<1>1. LoopTrue
  <2>1. IsBag(calls)
    BY DEF Screens!Init, Screens!NoCalls, IsBag
  <2> QED BY <2>1 DEF Screens!Init, LoopTrue, Screens!Views
<1>2. LoginTrue
  <2>1. CASE view = "login"
    <3> DEFINE new == Screens!NewLogin
    <3>1. methods \in LoginKinds /\ form = [new EXCEPT !.first = TRUE]
      BY <2>1 DEF Screens!Init
    <3>2. (CHOOSE m \in methods : TRUE) \in methods
      BY <3>1, MethodsAre
    <3>3. /\ new \in [phase : {"none", "method", "form", "browser"}, submitting : BOOLEAN, first : BOOLEAN]
          /\ new.phase \in methods \/ (new.phase = "method" /\ methods = {"form", "browser"})
          /\ new.submitting => new.phase # "method"
      <4>1. CASE methods = {"form", "browser"}
        BY <4>1, <3>1, MethodsAre DEF Screens!NewLogin
      <4>2. CASE methods # {"form", "browser"}
        BY <4>2, <3>1, <3>2, MethodsAre DEF Screens!NewLogin
      <4> QED BY <4>1, <4>2
    <3> HIDE DEF new
    <3>4. /\ form \in [phase : {"none", "method", "form", "browser"}, submitting : BOOLEAN, first : BOOLEAN]
          /\ form.phase = new.phase /\ form.submitting = new.submitting /\ form.first
      BY <3>1, <3>3
    <3> QED BY <3>3, <3>4 DEF LoginTrue, Screens!LoginUnderWay
  <2>2. CASE view # "login"
    BY <2>2 DEF Screens!Init, Screens!NoLogin, LoginTrue, Screens!LoginUnderWay
  <2> QED BY <2>1, <2>2
<1>3. EditorTrue
  BY DEF Screens!Init, EditorTrue, Screens!NoEditor, Screens!Values
<1>4. ApplyTrue
  BY ScreensAssumption DEF Screens!Init, ApplyTrue, Screens!NoApply, Screens!RunningIsRead
<1>5. PagesTrue
  <2>1. market \in [found : BOOLEAN, loading : BOOLEAN, searching : BOOLEAN]
    BY DEF Screens!Init, Screens!NewMarket
  <2>2. detail \in [of : Plugins \cup {Screens!NoPlugin}, shows : Plugins \cup {Screens!NoPlugin}, loading : BOOLEAN]
    BY DEF Screens!Init, Screens!NoDetail
  <2>3. installed \in [listed : BOOLEAN, loading : BOOLEAN]
    BY DEF Screens!Init, Screens!NewInstalled
  <2> QED BY <2>1, <2>2, <2>3 DEF Screens!Init, PagesTrue, Screens!LoadingUnderWay
<1> QED BY <1>1, <1>2, <1>3, <1>4, <1>5 DEF ScreensInv

LEMMA ScreensStep == ScreensInv /\ Screens!Next => ScreensInv'
<1> SUFFICES ASSUME ScreensInv, Screens!Next PROVE ScreensInv'
  OBVIOUS
<1>1. CASE Screens!Key
  <2>1. CASE \/ Screens!Quit \/ Screens!Help \/ Screens!CloseHelp \/ Screens!EscFilter
             \/ Screens!EscDetail \/ Screens!EscBack \/ Screens!Filter
    BY <2>1, QuitKeeps, HelpAndFilterKeep, EscDetailKeeps, EscBackKeeps
  <2>2. CASE \/ Screens!PickMethod \/ Screens!Submit \/ Screens!OpenEditor \/ Screens!SaveOrValidate
             \/ Screens!Open \/ Screens!Reload \/ Screens!StartApply
    BY <2>2, LoginKeysKeep, OpenEditorKeeps, SaveOrValidateKeeps, OpenKeeps, ReloadKeeps, StartApplyKeeps
  <2>3. CASE Screens!EditEntry \/ \E v \in Screens!Values : Screens!Type(v) \/ Screens!Choose(v)
    <3>1. "old" \in Screens!Values
      BY DEF Screens!Values
    <3> QED BY <2>3, <3>1, EditingKeeps
  <2>4. CASE \/ Screens!Enter \/ Screens!Confirm \/ Screens!Search \/ Screens!Install \/ Screens!Manage
             \/ \E p \in Plugins : Screens!OpenDetail(p)
    BY <2>4, EnterKeeps, SearchKeeps, OpenDetailKeeps, InstallKeeps
  <2> QED BY <1>1, <2>1, <2>2, <2>3, <2>4 DEF Screens!Key
<1>2. CASE Screens!Message
  BY <1>2, LoginResultKeeps, TreeLoadedKeeps, ApplyOutputKeeps, ApplyDoneKeeps, SearchResultsKeep, InstallResultKeeps, DetailResultKeeps, InstalledResultKeeps DEF Screens!Message
<1>3. CASE \E i \in Screens!ApplyId : Screens!RunEnds(i)
  BY <1>3, RunEndsKeeps
<1> QED BY <1>1, <1>2, <1>3 DEF Screens!Next

LEMMA ScreensWait == ScreensInv /\ UNCHANGED screenVars => ScreensInv'
<1> SUFFICES ASSUME ScreensInv, UNCHANGED screenVars PROVE ScreensInv'
  OBVIOUS
<1> USE DEF screenVars
<1>1. IsBag(calls)' /\ WaitsBut("none")
  BY CallsStay DEF ScreensInv, LoopTrue
<1>2. LoopTrue'
  BY <1>1 DEF ScreensInv, LoopTrue
<1> QED BY <1>1, <1>2, ScreensKeep DEF ScreensInv

\* A screen keeps what belongs to it, and what it says is under way is,
\* whichever answer arrives in whichever view.
THEOREM ScreensHold == TuiSpec => []ScreensConsistent
<1>1. TuiInit => ScreensInv
  BY ScreensStart DEF TuiInit
<1>2. ScreensInv /\ [TuiNext]_<<vars, screenVars>> => ScreensInv'
  BY ScreensStep, ScreensWait DEF TuiNext
<1> QED BY <1>1, <1>2, ScreensInvSays, PTL DEF TuiSpec

\* What a running apply may leave the screen for, see KeepsScreen.
StaysWatched ==
    \/ Screens!Watched'
    \/ applies'[applyView.of] # "runs"
    \/ view' = "login" /\ Screens!Asked("load")
    \/ \E i \in Screens!ApplyId : applies[i] = "ended" /\ applies'[i] = "told"

LEMMA Watching == Screens!Watched /\ UNCHANGED <<view, applyView, applies>> => StaysWatched
BY DEF Screens!Watched, StaysWatched

\* A key that works in the view of a running apply leaves it alone.
LEMMA KeysKeepScreen == Screens!Watched /\ Screens!Key => StaysWatched
<1> SUFFICES ASSUME Screens!Watched, Screens!Key PROVE StaysWatched
  OBVIOUS
<1>1. view = "apply" /\ applyView.running
  BY DEF Screens!Watched
<1>2. CASE Screens!Help \/ Screens!CloseHelp
  BY <1>2, Watching DEF Screens!Help, Screens!CloseHelp, Screens!screens
<1>3. ~(\/ Screens!Quit \/ Screens!EscFilter \/ Screens!EscDetail \/ Screens!EscBack \/ Screens!Filter
        \/ Screens!PickMethod \/ Screens!Submit \/ Screens!OpenEditor \/ Screens!SaveOrValidate)
  BY <1>1 DEF Screens!Quit, Screens!EscFilter, Screens!EscDetail, Screens!EscBack, Screens!Leaving, Screens!Filter,
     Screens!PickMethod, Screens!Submit, Screens!OpenEditor, Screens!SaveOrValidate, Screens!TreeKey, Screens!Esc
<1>4. ~(\/ Screens!Open \/ Screens!Reload \/ Screens!StartApply \/ Screens!EditEntry \/ Screens!Enter
        \/ Screens!Confirm \/ \E v \in Screens!Values : Screens!Type(v) \/ Screens!Choose(v))
  BY <1>1 DEF Screens!Open, Screens!Reload, Screens!StartApply, Screens!TreeKey, Screens!EditEntry, Screens!Enter,
     Screens!Confirm, Screens!Type, Screens!Choose, Screens!EditorKey
<1>5. ~(Screens!Search \/ Screens!Install \/ Screens!Manage \/ \E p \in Plugins : Screens!OpenDetail(p))
  BY <1>1 DEF Screens!Search, Screens!Install, Screens!Manage, Screens!OpenDetail
<1> QED BY <1>2, <1>3, <1>4, <1>5 DEF Screens!Key

\* An answer does not, but for the result of an apply and a reload.
LEMMA AnswersKeepScreen == ScreensInv /\ Screens!Watched /\ Screens!Message => StaysWatched
<1> SUFFICES ASSUME ScreensInv, Screens!Watched, Screens!Message PROVE StaysWatched
  OBVIOUS
<1>1. CASE Screens!LoginResult \/ Screens!SearchResults \/ Screens!InstallResult
  BY <1>1, Watching DEF Screens!LoginResult, Screens!SearchResults, Screens!InstallResult
<1>2. ASSUME NEW p, Screens!DetailResult(p) PROVE StaysWatched
  BY <1>2, Watching DEF Screens!DetailResult
<1>3. ASSUME NEW kind, Screens!InstalledResult(kind) PROVE StaysWatched
  BY <1>3, Watching DEF Screens!InstalledResult
<1>4. CASE Screens!TreeLoaded
  <2>1. CASE Screens!ShowLogin(Screens!Call("load"))
    BY <1>4, <2>1 DEF Screens!TreeLoaded, Screens!ShowLogin, StaysWatched, Screens!Asked, Screens!AskedOf, Screens!Call, Screens!Call2
  <2>2. CASE UNCHANGED <<view, applyView, applies>>
    BY <2>2, Watching
  <2> QED BY <1>4, <2>1, <2>2 DEF Screens!TreeLoaded, Screens!screens, Screens!Watched
<1>5. ASSUME NEW i \in Screens!ApplyId, Screens!ApplyOutput(i) \/ Screens!ApplyDone(i) PROVE StaysWatched
  <2>1. CASE applies[i] = "ended" /\ applies' = [applies EXCEPT ![i] = "told"]
    <3>1. applies'[i] = "told"
      BY <2>1 DEF ScreensInv, LoopTrue
    <3> QED BY <2>1, <3>1 DEF StaysWatched
  <2>2. CASE UNCHANGED <<view, applyView, applies>>
    BY <2>2, Watching
  <2> QED BY <1>5, <2>1, <2>2 DEF Screens!ApplyOutput, Screens!ApplyDone, Screens!screens
<1> QED BY <1>1, <1>2, <1>3, <1>4, <1>5 DEF Screens!Message

LEMMA EndsKeepScreen ==
    ASSUME ScreensInv, Screens!Watched, NEW i \in Screens!ApplyId, Screens!RunEnds(i)
    PROVE  StaysWatched
<1>1. /\ UNCHANGED <<view, applyView>>
      /\ applies' = [applies EXCEPT ![i] = "ended"]
  BY DEF Screens!RunEnds, Screens!screens
<1>2. applies'[applyView.of] \in {applies[applyView.of], "ended"}
  BY <1>1 DEF ScreensInv, LoopTrue
<1> QED BY <1>1, <1>2 DEF Screens!Watched, StaysWatched

\* Only a commit stores a value, and the editor knows what it may store.
MayStore ==
    /\ value' # "wrong"
    /\ label.asks => editor.confirming
    /\ label.readonly => label.kind = "enum"

LEMMA OnlyCommitsStore == ScreensInv /\ Screens!Next /\ value' # value => MayStore
<1> SUFFICES ASSUME ScreensInv, Screens!Next, value' # value PROVE MayStore
  OBVIOUS
<1>1. Screens!Enter \/ Screens!Confirm
  <2>1. CASE Screens!Key
    <3>1. ~(\/ Screens!Quit \/ Screens!Help \/ Screens!CloseHelp \/ Screens!EscFilter \/ Screens!EscDetail
            \/ Screens!EscBack \/ Screens!PickMethod \/ Screens!Submit \/ Screens!Filter)
      BY DEF Screens!Quit, Screens!Help, Screens!CloseHelp, Screens!EscFilter, Screens!EscDetail, Screens!EscBack,
         Screens!PickMethod, Screens!Submit, Screens!Filter
    <3>2. ~(\/ Screens!OpenEditor \/ Screens!SaveOrValidate \/ Screens!Open \/ Screens!Reload
            \/ Screens!StartApply \/ Screens!EditEntry
            \/ \E v \in Screens!Values : Screens!Type(v) \/ Screens!Choose(v))
      BY DEF Screens!OpenEditor, Screens!SaveOrValidate, Screens!Open, Screens!Reload, Screens!StartApply,
         Screens!EditEntry, Screens!Type, Screens!Choose
    <3>3. ~(Screens!Search \/ Screens!Install \/ Screens!Manage \/ \E p \in Plugins : Screens!OpenDetail(p))
      BY DEF Screens!Search, Screens!Install, Screens!Manage, Screens!OpenDetail
    <3> QED BY <2>1, <3>1, <3>2, <3>3 DEF Screens!Key
  <2>2. ~Screens!Message
    <3>1. ~(Screens!LoginResult \/ Screens!TreeLoaded \/ Screens!SearchResults \/ Screens!InstallResult)
      BY DEF Screens!LoginResult, Screens!TreeLoaded, Screens!SearchResults, Screens!InstallResult
    <3>2. /\ \A i \in Screens!ApplyId : ~(Screens!ApplyOutput(i) \/ Screens!ApplyDone(i))
          /\ \A p \in Plugins : ~Screens!DetailResult(p)
          /\ \A kind \in {"list", "change"} : ~Screens!InstalledResult(kind)
      BY DEF Screens!ApplyOutput, Screens!ApplyDone, Screens!DetailResult, Screens!InstalledResult
    <3> QED BY <3>1, <3>2 DEF Screens!Message
  <2>3. \A i \in Screens!ApplyId : ~Screens!RunEnds(i)
    BY DEF Screens!RunEnds
  <2> QED BY <2>1, <2>2, <2>3 DEF Screens!Next
<1>2. value' = editor.input
  BY <1>1 DEF Screens!Enter, Screens!Confirm, Screens!Commit
<1>3. editor.dirty /\ ~editor.wrong /\ (label.asks => editor.confirming)
  BY <1>1 DEF Screens!Enter, Screens!Confirm, Screens!MayCommit, ScreensInv, EditorTrue
<1> QED BY <1>2, <1>3 DEF ScreensInv, EditorTrue, MayStore

\* No step takes a running apply off the screen unasked, and none stores what
\* the editor may not.
THEOREM KeysAreHarmless == TuiSpec => KeysDoNoHarm
<1>1. TuiInit => ScreensInv
  BY ScreensStart DEF TuiInit
<1>2. ScreensInv /\ [TuiNext]_<<vars, screenVars>> => ScreensInv'
  BY ScreensStep, ScreensWait DEF TuiNext
<1>3. ScreensInv /\ [TuiNext]_<<vars, screenVars>>
        => [Screens!Watched => StaysWatched]_Screens!vars /\ [value' # value => MayStore]_Screens!vars
  <2>1. CASE UNCHANGED screenVars
    BY <2>1 DEF screenVars, Screens!vars, Screens!around, Screens!screens
  <2>2. CASE Screens!Next
    BY <2>2, KeysKeepScreen, AnswersKeepScreen, EndsKeepScreen, OnlyCommitsStore DEF Screens!Next
  <2> QED BY <2>1, <2>2 DEF TuiNext
<1> QED BY <1>1, <1>2, <1>3, PTL DEF TuiSpec, KeysDoNoHarm, Screens!KeepsScreen, Screens!StoresWhatItMay,
           StaysWatched, MayStore

-----------------------------------------------------------------------------
\* The mirror.  What waits for the network, and for how long at most.
waiting == {"fetch", "coming", "byDigest", "listing"}

\* Where the requests stand, and how old what they hold may be.
JobKept(w) ==
    LET j == job[w] IN
    /\ j.stage \in waiting => j.since <= now /\ now <= j.since + Patience
    /\ j.stage \in {"read", "fetch", "coming", "tag"} => j.tag \in Tag
    /\ j.stage = "read" => j.do = "pull"
    /\ j.stage \in {"fetch", "coming", "tag"} => j.do \in {"pull", "sync"}
    /\ j.stage \in {"serve", "byDigest"} => j.do \in {"pull", "blob"}
    /\ j.stage \in {"read", "tag", "serve", "byDigest"} => j.digest \in Digest
    /\ j.stage = "coming" => j.new \in Top /\ j.since <= j.got
    /\ j.stage = "tag" => j.digest \in blobs \cup unwritten \cup misnamed /\ now <= j.got + Patience
    /\ j.got <= now
    /\ j.stage = "serve" /\ j.do = "pull" /\ j.how = "fresh" => now - j.got < TTL + Patience
    /\ j.stage = "byDigest" /\ j.do = "pull" /\ j.how = "fresh" => j.since - j.got < TTL + Patience

JobsKept == \A w \in Worker : JobKept(w)

TagsKept ==
    \A t \in Tag :
        /\ tags[t] = Mirrors!NoEntry \/ tags[t].digest \in Digest
        /\ tags[t].from = "upstream" => tags[t].at - tags[t].got <= Patience

Whole(b) == b = Mirrors!NoBundle
            \/ (Mirrors!Closed(b.blobs) /\ \A t \in Tag : b.arts[t] \in b.blobs)

AirgapKept ==
    /\ export.on =>
         /\ \A x \in export.have : Chosen[x] \subseteq export.have \cup export.todo
         /\ \A t \in Tag : export.arts[t] = Absent \/ export.arts[t] \in export.have \cup export.todo
    /\ Whole(bundle)
    /\ import.on => /\ Whole(import.of) /\ import.of # Mirrors!NoBundle
                    /\ import.of.blobs \subseteq import.todo \cup blobs

MirrorInv == MirrorConsistent /\ FreshAnswers /\ JobsKept /\ TagsKept /\ AirgapKept

LEMMA Typed == ASSUME Mirrors!TypeOK, NEW w \in Worker
               PROVE  /\ now \in Nat /\ now <= MaxTime /\ MaxTime \in Nat /\ TTL \in Nat /\ TTL >= 1 /\ Patience \in Nat
                      /\ work \in Nat /\ MaxWork \in Nat
                      /\ job[w] \in Mirrors!Job /\ job[w].since \in Nat /\ job[w].got \in Nat
BY MirrorAssumption DEF Mirrors!TypeOK, Mirrors!Job, Mirrors!Time

\* A worker that goes on leaves the others as they are.
LEMMA OthersKept ==
    ASSUME Mirrors!TypeOK, JobsKept, NEW w \in Worker, NEW j, Mirrors!Goes(w, j), now' = now,
           blobs \cup unwritten \cup misnamed \subseteq blobs' \cup unwritten' \cup misnamed', JobKept(w)'
    PROVE  JobsKept'
<1>1. SUFFICES ASSUME NEW v \in Worker, v # w PROVE JobKept(v)'
  BY DEF JobsKept
<1>2. job'[v] = job[v]
  BY <1>1 DEF Mirrors!Goes, Mirrors!TypeOK
<1>3. JobKept(v)
  BY DEF JobsKept
<1>q. QED BY <1>2, <1>3 DEF JobKept

LEMMA NewJobTyped ==
    ASSUME Mirrors!TypeOK, NEW w \in Worker, NEW j \in Mirrors!Job, Mirrors!Goes(w, j)
    PROVE  /\ job' \in [Worker -> Mirrors!Job]
           /\ job'[w] = j
BY DEF Mirrors!Goes, Mirrors!TypeOK

LEMMA IdleTyped == /\ Mirrors!Idle \in Mirrors!Job
                   /\ Mirrors!Idle.stage = "idle" /\ Mirrors!Idle.got = 0 /\ Mirrors!Idle.how = "old"
BY MirrorAssumption DEF Mirrors!Job, Mirrors!Idle, Mirrors!Stage, Mirrors!Time

\* A step of a worker that says nothing false and drops nothing that is held.
LEMMA WorkerKept ==
    ASSUME MirrorInv, NEW w \in Worker, NEW n \in Mirrors!Job, Mirrors!Goes(w, n), JobKept(w)',
           UNCHANGED <<Mirrors!world, Mirrors!airgap>>, work' \in 0..MaxWork,
           blobs \subseteq blobs', unwritten \subseteq unwritten', misnamed \subseteq misnamed',
           blobs' \cup unwritten' \cup misnamed' \subseteq Digest,
           tags' \in [Tag -> Mirrors!Entry \cup {Mirrors!NoEntry}],
           \A t \in Tag : tags'[t] = tags[t] \/ (/\ tags'[t].digest \in blobs' \cup unwritten' \cup misnamed'
                                                 /\ tags'[t].at = now /\ tags'[t].got <= now
                                                 /\ tags'[t].from = "upstream" /\ now - tags'[t].got <= Patience),
           cache' \in Mirrors!Cached,
           pulled' \subseteq Digest, pulled' \subseteq pulled \cup blobs' \cup unwritten',
           answer' \in Mirrors!Answer,
           Mirrors!PolicyAtAnswer', Mirrors!ServedAsNamed', FreshAnswers'
    PROVE  MirrorInv'
<1>0. Mirrors!TypeOK /\ JobsKept /\ TagsKept /\ AirgapKept /\ Mirrors!PulledStays /\ Mirrors!AirgapComplete
  BY DEF MirrorInv, MirrorConsistent
<1>1. now' = now /\ export' = export /\ bundle' = bundle /\ import' = import /\ allowed' = allowed
      /\ up' = up /\ mix' = mix
  BY DEF Mirrors!world, Mirrors!airgap
<1>2. \A t \in Tag : tags'[t].got <= tags'[t].at /\ tags'[t].at <= now
  BY <1>0, Typed DEF Mirrors!TypeOK
<1>3. Mirrors!TypeOK'
  <2>1. job' \in [Worker -> Mirrors!Job]
    BY <1>0, NewJobTyped
  <2>q. QED BY <1>0, <1>1, <1>2, <2>1 DEF Mirrors!TypeOK
<1>4. JobsKept'
  BY <1>0, <1>1, OthersKept
<1>5. TagsKept'
  BY <1>0 DEF TagsKept
<1>6. AirgapKept'
  BY <1>0, <1>1 DEF AirgapKept, Whole
<1>7. Mirrors!PulledStays'
  BY <1>0 DEF Mirrors!PulledStays
<1>8. Mirrors!AirgapComplete'
  BY <1>0 DEF Mirrors!AirgapComplete
<1>q. QED BY <1>3, <1>4, <1>5, <1>6, <1>7, <1>8 DEF MirrorInv, MirrorConsistent

LEMMA QuietAnswer ==
    ASSUME Mirrors!Quiet
    PROVE  /\ answer' \in Mirrors!Answer
           /\ Mirrors!PolicyAtAnswer' /\ Mirrors!ServedAsNamed' /\ FreshAnswers'
BY MirrorAssumption DEF Mirrors!Quiet, Mirrors!Silence, Mirrors!Answer, Mirrors!Time, Mirrors!PolicyAtAnswer,
                        Mirrors!ServedAsNamed, FreshAnswers, Mirrors!FreshAnswers

\* Most of them say nothing and write no file.
LEMMA QuietKept ==
    ASSUME MirrorInv, NEW w \in Worker, NEW n \in Mirrors!Job, Mirrors!Goes(w, n), JobKept(w)', Mirrors!Quiet,
           UNCHANGED <<Mirrors!world, Mirrors!files, Mirrors!airgap, unwritten, misnamed, pulled>>,
           work' \in 0..MaxWork
    PROVE  MirrorInv'
<1>1. /\ blobs' = blobs /\ tags' = tags /\ cache' = cache
      /\ unwritten' = unwritten /\ misnamed' = misnamed /\ pulled' = pulled
      /\ UNCHANGED <<Mirrors!world, Mirrors!airgap>>
  BY DEF Mirrors!files
<1>2. Mirrors!TypeOK
  BY DEF MirrorInv, MirrorConsistent
<1>q. QED BY <1>1, <1>2, QuietAnswer, WorkerKept DEF Mirrors!TypeOK

\* What may be used of the state before a step.
LEMMA Before == ASSUME MirrorInv, NEW w \in Worker
                PROVE  /\ Mirrors!TypeOK /\ JobsKept /\ TagsKept /\ JobKept(w)
                       /\ job[w] \in Mirrors!Job /\ now \in Mirrors!Time
BY Typed DEF MirrorInv, MirrorConsistent, JobsKept, Mirrors!TypeOK

LEMMA Started == ASSUME Mirrors!TypeOK, NEW kind, Mirrors!Starts(kind) PROVE work' \in 0..MaxWork
BY MirrorAssumption DEF Mirrors!TypeOK, Mirrors!Starts

LEMMA TagTyped ==
    ASSUME MirrorInv, NEW t \in Tag
    PROVE  /\ tags[t] \in Mirrors!Entry \/ tags[t] = Mirrors!NoEntry
           /\ tags[t].got \in Mirrors!Time /\ tags[t].at \in Mirrors!Time /\ tags[t].from \in {"upstream", "bundle"}
           /\ tags[t].digest \in Digest \cup {Absent}
           /\ tags[t].got <= tags[t].at /\ tags[t].at <= now /\ tags[t].got <= now
           /\ tags[t].from = "upstream" => tags[t].at - tags[t].got <= Patience
<1>1. /\ tags[t] \in Mirrors!Entry \/ tags[t] = Mirrors!NoEntry
      /\ tags[t].got <= tags[t].at /\ tags[t].at <= now
      /\ tags[t].from = "upstream" => tags[t].at - tags[t].got <= Patience
  BY DEF MirrorInv, MirrorConsistent, Mirrors!TypeOK, TagsKept
<1>2. tags[t].got \in Mirrors!Time /\ tags[t].at \in Mirrors!Time /\ tags[t].from \in {"upstream", "bundle"}
      /\ tags[t].digest \in Digest \cup {Absent}
  BY <1>1, MirrorAssumption DEF Mirrors!Entry, Mirrors!NoEntry, Mirrors!Time
<1>3. now \in Mirrors!Time
  BY DEF MirrorInv, MirrorConsistent, Mirrors!TypeOK
<1>4. tags[t].got <= now
  BY <1>1, <1>2, <1>3, MirrorAssumption DEF Mirrors!Time
<1>q. QED BY <1>1, <1>2, <1>4

LEMMA AskTagKept == ASSUME MirrorInv, NEW w \in Worker, NEW t \in Tag, Mirrors!AskTag(w, t) PROVE MirrorInv'
<1> DEFINE e == tags[t]
           j == [Mirrors!Idle EXCEPT !.do = "pull", !.tag = t, !.digest = e.digest, !.got = e.got]
           n == IF e = Mirrors!NoEntry THEN Mirrors!Sent(j) ELSE [j EXCEPT !.stage = "read"]
<1>1. /\ Mirrors!Goes(w, n) /\ Mirrors!Quiet /\ Mirrors!Starts("pull")
      /\ UNCHANGED <<Mirrors!world, Mirrors!files, Mirrors!airgap, unwritten, misnamed, pulled>>
  BY DEF Mirrors!AskTag
<1>2. now' = now /\ Mirrors!TypeOK /\ now \in Mirrors!Time
  BY <1>1, Before DEF Mirrors!world
<1>3. (e \in Mirrors!Entry \/ e = Mirrors!NoEntry) /\ e.got <= now
      /\ e.digest \in Digest \cup {Absent} /\ e.got \in Mirrors!Time
  BY TagTyped
<1> HIDE DEF e
<1>5. j \in Mirrors!Job /\ j.do = "pull" /\ j.tag = t /\ j.digest = e.digest /\ j.got = e.got
  BY <1>3, IdleTyped DEF Mirrors!Job
<1> HIDE DEF j
<1>6. /\ n \in Mirrors!Job /\ n.do = "pull" /\ n.tag = t /\ n.got = e.got
      /\ \/ n.stage = "fetch" /\ n.since = now
         \/ n.stage = "read" /\ n.digest \in Digest
  <2>1. CASE e = Mirrors!NoEntry
    BY <1>2, <1>5, <2>1 DEF Mirrors!Job, Mirrors!Sent, Mirrors!Stage
  <2>2. CASE e # Mirrors!NoEntry
    BY <1>3, <1>5, <2>2 DEF Mirrors!Job, Mirrors!Stage, Mirrors!Entry
  <2>q. QED BY <2>1, <2>2
<1> HIDE DEF n
<1>7. JobKept(w)'
  BY <1>1, <1>2, <1>3, <1>6, NewJobTyped, Typed DEF JobKept, waiting
<1>q. QED BY <1>1, <1>2, <1>6, <1>7, Started, QuietKept

LEMMA CheckTagKept == ASSUME MirrorInv, NEW w \in Worker, Mirrors!CheckTag(w) PROVE MirrorInv'
<1> DEFINE e == tags[job[w].tag]
           j == job[w]
           how == IF e.digest = j.digest THEN Mirrors!Worth(e) ELSE "old"
           n == IF Mirrors!Fresh(e) THEN [j EXCEPT !.stage = "serve", !.got = e.got, !.how = how]
                ELSE Mirrors!Sent(j)
<1>1. /\ Mirrors!Goes(w, n) /\ Mirrors!Quiet /\ work' = work
      /\ UNCHANGED <<Mirrors!world, Mirrors!files, Mirrors!airgap, unwritten, misnamed, pulled>>
      /\ j.stage = "read"
  BY DEF Mirrors!CheckTag, Mirrors!At
<1>2. /\ now' = now /\ Mirrors!TypeOK /\ now \in Mirrors!Time /\ j \in Mirrors!Job
      /\ j.tag \in Tag /\ j.do = "pull" /\ j.digest \in Digest /\ j.got <= now
  BY <1>1, Before DEF Mirrors!world, JobKept
<1>3. /\ e.got <= e.at /\ e.at <= now /\ e.got <= now
      /\ e.from = "upstream" => e.at - e.got <= Patience
      /\ e.got \in Mirrors!Time /\ e.at \in Mirrors!Time /\ e.from \in {"upstream", "bundle"}
  BY <1>2, TagTyped
<1>4. how \in {"fresh", "old", "bundle"} /\ (how = "fresh" => e.from = "upstream")
  BY <1>3 DEF Mirrors!Worth
<1> HIDE DEF e, j, how
<1>5. /\ n \in Mirrors!Job /\ n.do = "pull" /\ n.tag \in Tag /\ n.digest \in Digest /\ n.got <= now
      /\ \/ n.stage = "fetch" /\ n.since = now
         \/ n.stage = "serve" /\ (n.how = "fresh" => now - n.got < TTL + Patience)
  <2>1. CASE Mirrors!Fresh(e)
    <3>1. /\ n \in Mirrors!Job /\ n.do = "pull" /\ n.tag \in Tag /\ n.digest \in Digest /\ n.got = e.got
          /\ n.stage = "serve" /\ (n.how = "fresh" => e.from = "upstream")
      BY <1>2, <1>3, <1>4, <2>1 DEF Mirrors!Job, Mirrors!Stage
    <3>2. e.from = "upstream" => now - e.got < TTL + Patience
      BY <1>2, <1>3, <2>1, MirrorAssumption DEF Mirrors!Fresh, Mirrors!Time
    <3> HIDE DEF n
    <3>q. QED BY <1>3, <3>1, <3>2
  <2>2. CASE ~Mirrors!Fresh(e)
    BY <1>2, <2>2 DEF Mirrors!Job, Mirrors!Stage, Mirrors!Sent
  <2>q. QED BY <2>1, <2>2
<1> HIDE DEF n
<1>6. JobKept(w)'
  BY <1>1, <1>2, <1>5, NewJobTyped, Typed DEF JobKept, waiting
<1>7. work' \in 0..MaxWork
  BY <1>1, <1>2 DEF Mirrors!TypeOK
<1>q. QED BY <1>1, <1>2, <1>5, <1>6, <1>7, QuietKept

LEMMA SyncKept == ASSUME MirrorInv, NEW w \in Worker, NEW t \in Tag, Mirrors!Sync(w, t) PROVE MirrorInv'
<1> DEFINE n == Mirrors!Sent([Mirrors!Idle EXCEPT !.do = "sync", !.tag = t])
<1>1. /\ Mirrors!Goes(w, n) /\ Mirrors!Quiet /\ Mirrors!Starts("sync")
      /\ UNCHANGED <<Mirrors!world, Mirrors!files, Mirrors!airgap, unwritten, misnamed, pulled>>
  BY DEF Mirrors!Sync
<1>2. now' = now /\ Mirrors!TypeOK /\ now \in Mirrors!Time
  BY <1>1, Before DEF Mirrors!world
<1>3. n \in Mirrors!Job /\ n.do = "sync" /\ n.tag = t /\ n.got = 0 /\ n.stage = "fetch" /\ n.since = now
  BY <1>2, IdleTyped DEF Mirrors!Job, Mirrors!Sent, Mirrors!Stage
<1> HIDE DEF n
<1>4. JobKept(w)'
  BY <1>1, <1>2, <1>3, NewJobTyped, Typed DEF JobKept, waiting
<1>q. QED BY <1>1, <1>2, <1>3, <1>4, Started, QuietKept

LEMMA RespondKept == ASSUME MirrorInv, NEW w \in Worker, Mirrors!Respond(w) PROVE MirrorInv'
<1> DEFINE j == job[w]
           d == up[j.tag]
           n == [j EXCEPT !.stage = "coming", !.new = d, !.got = now]
<1>1. /\ Mirrors!Goes(w, n) /\ Mirrors!Quiet /\ work' = work /\ j.stage = "fetch"
      /\ UNCHANGED <<Mirrors!world, Mirrors!files, Mirrors!airgap, unwritten, misnamed, pulled>>
  BY DEF Mirrors!Respond, Mirrors!At
<1>2. /\ now' = now /\ Mirrors!TypeOK /\ now \in Mirrors!Time /\ j \in Mirrors!Job
      /\ j.tag \in Tag /\ j.do \in {"pull", "sync"} /\ j.since <= now /\ now <= j.since + Patience
  BY <1>1, Before DEF Mirrors!world, JobKept, waiting
<1>3. d \in Top /\ d \in Digest
  BY <1>2, MirrorAssumption DEF Mirrors!TypeOK
<1> HIDE DEF j, d
<1>4. /\ n \in Mirrors!Job /\ n.do = j.do /\ n.tag = j.tag /\ n.new = d /\ n.got = now
      /\ n.stage = "coming" /\ n.since = j.since
  BY <1>2, <1>3 DEF Mirrors!Job, Mirrors!Stage
<1> HIDE DEF n
<1>5. JobKept(w)'
  BY <1>1, <1>2, <1>3, <1>4, NewJobTyped, Typed DEF JobKept, waiting
<1>6. work' \in 0..MaxWork
  BY <1>1, <1>2 DEF Mirrors!TypeOK
<1>q. QED BY <1>1, <1>2, <1>4, <1>5, <1>6, QuietKept

LEMMA IdleKept == ASSUME Mirrors!TypeOK, NEW w \in Worker, Mirrors!Goes(w, Mirrors!Idle), now' = now PROVE JobKept(w)'
BY NewJobTyped, IdleTyped, Typed DEF JobKept, waiting

LEMMA FetchFailsKept == ASSUME MirrorInv, NEW w \in Worker, Mirrors!FetchFails(w) PROVE MirrorInv'
<1> DEFINE j == job[w]
           n == IF j.do = "pull" /\ j.digest # Absent THEN [j EXCEPT !.stage = "serve", !.how = "old"]
                ELSE Mirrors!Idle
<1>1. /\ Mirrors!Goes(w, n) /\ Mirrors!Quiet /\ work' = work
      /\ UNCHANGED <<Mirrors!world, Mirrors!files, Mirrors!airgap, unwritten, misnamed, pulled>>
  BY DEF Mirrors!FetchFails, Mirrors!At
<1>2. now' = now /\ Mirrors!TypeOK /\ now \in Mirrors!Time /\ j \in Mirrors!Job /\ j.got <= now
  BY <1>1, Before DEF Mirrors!world, JobKept
<1>3. work' \in 0..MaxWork
  BY <1>1, <1>2 DEF Mirrors!TypeOK
<1>4. CASE j.do = "pull" /\ j.digest # Absent
  <2> HIDE DEF j
  <2>1. /\ n \in Mirrors!Job /\ n.do = "pull" /\ n.digest \in Digest /\ n.got <= now /\ n.stage = "serve" /\ n.how = "old"
    BY <1>2, <1>4 DEF Mirrors!Job, Mirrors!Stage
  <2> HIDE DEF n
  <2>2. JobKept(w)'
    BY <1>1, <1>2, <2>1, NewJobTyped, Typed DEF JobKept, waiting
  <2>q. QED BY <1>1, <1>3, <2>1, <2>2, QuietKept
<1>5. CASE ~(j.do = "pull" /\ j.digest # Absent)
  BY <1>1, <1>2, <1>3, <1>5, IdleTyped, IdleKept, QuietKept
<1>q. QED BY <1>4, <1>5

\* Whatever name the upstream sends something under.
LEMMA SentKept ==
    ASSUME Mirrors!TypeOK, NEW d \in Digest, NEW c, Mirrors!SentAs(d, c)
    PROVE  /\ misnamed \subseteq misnamed' /\ misnamed' \subseteq Digest
           /\ d = c \/ d \in misnamed'
           /\ work' \in 0..MaxWork
<1>1. CASE d = c /\ UNCHANGED <<misnamed, work>>
  BY <1>1 DEF Mirrors!TypeOK
<1>2. CASE d # c /\ Mirrors!Starts("misname") /\ misnamed' = misnamed \cup {d}
  BY <1>2, Started DEF Mirrors!TypeOK
<1>q. QED BY <1>1, <1>2 DEF Mirrors!SentAs

LEMMA ReceiveKept ==
    ASSUME MirrorInv, NEW w \in Worker, NEW ok \in BOOLEAN, NEW d \in Digest, Mirrors!Receive(w, ok, d)
    PROVE  MirrorInv'
<1> DEFINE j == job[w]
           c == j.new
           n == IF j.do = "sync" /\ ~ok THEN Mirrors!Idle
                ELSE [j EXCEPT !.stage = "tag", !.digest = d, !.how = "fresh"]
<1>1. /\ Mirrors!Goes(w, n) /\ Mirrors!Quiet /\ j.stage = "coming" /\ Mirrors!PutBlob(c, ok) /\ Mirrors!SentAs(d, c)
      /\ UNCHANGED <<Mirrors!world, tags, cache, Mirrors!airgap, pulled>>
  BY DEF Mirrors!Receive, Mirrors!At
<1>2. /\ now' = now /\ Mirrors!TypeOK /\ now \in Mirrors!Time /\ j \in Mirrors!Job /\ j.got <= now
      /\ j.tag \in Tag /\ j.do \in {"pull", "sync"} /\ c \in Top /\ j.since <= j.got /\ now <= j.since + Patience
  BY <1>1, Before DEF Mirrors!world, JobKept, waiting
<1>3. /\ blobs \subseteq blobs' /\ unwritten \subseteq unwritten' /\ misnamed \subseteq misnamed'
      /\ blobs' \cup unwritten' \cup misnamed' \subseteq Digest
      /\ d \in blobs' \cup unwritten' \cup misnamed' /\ work' \in 0..MaxWork
  BY <1>1, <1>2, SentKept, MirrorAssumption DEF Mirrors!PutBlob, Mirrors!TypeOK
<1>4. n \in Mirrors!Job /\ JobKept(w)'
  <2>1. CASE j.do = "sync" /\ ~ok
    BY <1>1, <1>2, <2>1, IdleTyped, IdleKept
  <2>2. CASE ~(j.do = "sync" /\ ~ok)
    <3>0. j.got + Patience \in Nat /\ now <= j.got + Patience
      BY <1>2, Typed
    <3> HIDE DEF j, c
    <3>1. /\ n \in Mirrors!Job /\ n.do = j.do /\ n.tag = j.tag /\ n.digest = d /\ n.got = j.got /\ n.stage = "tag"
      BY <1>2, <1>3, <2>2 DEF Mirrors!Job, Mirrors!Stage
    <3> HIDE DEF n
    <3>q. QED BY <1>1, <1>2, <1>3, <3>0, <3>1, NewJobTyped, Typed DEF JobKept, waiting
  <2>q. QED BY <2>1, <2>2
<1> HIDE DEF n
<1>5. answer' \in Mirrors!Answer /\ Mirrors!PolicyAtAnswer' /\ Mirrors!ServedAsNamed' /\ FreshAnswers'
  BY <1>1, QuietAnswer
<1>6. tags' = tags /\ cache' = cache /\ pulled' = pulled
  BY <1>1
<1>q. QED BY <1>1, <1>2, <1>3, <1>4, <1>5, <1>6, WorkerKept DEF Mirrors!TypeOK

LEMMA StoreTagKept ==
    ASSUME MirrorInv, NEW w \in Worker, NEW ok \in BOOLEAN, Mirrors!StoreTag(w, ok) PROVE MirrorInv'
<1> DEFINE j == job[w]
           e == [digest |-> j.digest, at |-> now, got |-> j.got, from |-> "upstream"]
           n == IF j.do = "sync" THEN Mirrors!Idle ELSE [j EXCEPT !.stage = "serve"]
<1>1. /\ Mirrors!Goes(w, n) /\ Mirrors!Quiet /\ work' = work /\ j.stage = "tag"
      /\ tags' = IF ok THEN [tags EXCEPT ![j.tag] = e] ELSE tags
      /\ UNCHANGED <<Mirrors!world, blobs, cache, Mirrors!airgap, unwritten, misnamed, pulled>>
  BY DEF Mirrors!StoreTag, Mirrors!At
<1>2. /\ now' = now /\ Mirrors!TypeOK /\ now \in Mirrors!Time /\ j \in Mirrors!Job /\ j.got <= now
      /\ j.tag \in Tag /\ j.do \in {"pull", "sync"} /\ j.digest \in Digest
      /\ j.digest \in blobs \cup unwritten \cup misnamed
      /\ now <= j.got + Patience
  BY <1>1, Before DEF Mirrors!world, JobKept
<1>3. j.got \in Mirrors!Time /\ now - j.got <= Patience /\ now - j.got < TTL + Patience
  <2>1. j.got \in Mirrors!Time
    BY <1>2 DEF Mirrors!Job
  <2>q. QED BY <1>2, <2>1, MirrorAssumption DEF Mirrors!Time
<1> HIDE DEF j
<1>4. n \in Mirrors!Job /\ JobKept(w)'
  <2>1. CASE j.do = "sync"
    BY <1>1, <1>2, <2>1, IdleTyped, IdleKept
  <2>2. CASE j.do # "sync"
    <3>1. /\ n \in Mirrors!Job /\ n.do = "pull" /\ n.digest = j.digest /\ n.got = j.got /\ n.stage = "serve"
      BY <1>2, <2>2 DEF Mirrors!Job, Mirrors!Stage
    <3> HIDE DEF n
    <3>q. QED BY <1>1, <1>2, <1>3, <3>1, NewJobTyped, Typed DEF JobKept, waiting
  <2>q. QED BY <2>1, <2>2
<1> HIDE DEF n
<1>5. e \in Mirrors!Entry /\ e.digest = j.digest /\ e.at = now /\ e.got = j.got /\ e.from = "upstream"
  BY <1>2, <1>3 DEF Mirrors!Entry
<1> HIDE DEF e
<1>6. tags' \in [Tag -> Mirrors!Entry \cup {Mirrors!NoEntry}] /\ \A t \in Tag : tags'[t] = tags[t] \/ tags'[t] = e
  BY <1>1, <1>2, <1>5 DEF Mirrors!TypeOK
<1>7. \A t \in Tag : tags'[t] = tags[t] \/ (/\ tags'[t].digest \in blobs' \cup unwritten' \cup misnamed'
                                            /\ tags'[t].at = now /\ tags'[t].got <= now
                                            /\ tags'[t].from = "upstream" /\ now - tags'[t].got <= Patience)
  BY <1>1, <1>2, <1>3, <1>5, <1>6
<1>q. QED BY <1>1, <1>2, <1>4, <1>6, <1>7, QuietAnswer, WorkerKept DEF Mirrors!TypeOK

LEMMA AskDigestKept == ASSUME MirrorInv, NEW w \in Worker, NEW d \in Digest, Mirrors!AskDigest(w, d) PROVE MirrorInv'
<1> DEFINE n == [Mirrors!Idle EXCEPT !.do = "blob", !.digest = d, !.stage = "serve"]
<1>1. /\ Mirrors!Goes(w, n) /\ Mirrors!Quiet /\ Mirrors!Starts("blob")
      /\ UNCHANGED <<Mirrors!world, Mirrors!files, Mirrors!airgap, unwritten, misnamed, pulled>>
  BY DEF Mirrors!AskDigest
<1>2. now' = now /\ Mirrors!TypeOK /\ now \in Mirrors!Time
  BY <1>1, Before DEF Mirrors!world
<1>3. n \in Mirrors!Job /\ n.do = "blob" /\ n.digest = d /\ n.got = 0 /\ n.stage = "serve"
  BY <1>2, IdleTyped DEF Mirrors!Job, Mirrors!Stage
<1> HIDE DEF n
<1>4. JobKept(w)'
  BY <1>1, <1>2, <1>3, NewJobTyped, Typed DEF JobKept, waiting
<1>q. QED BY <1>1, <1>2, <1>3, <1>4, Started, QuietKept

\* An answer to a request for a tag or a digest.
LEMMA AnswerKept ==
    ASSUME Mirrors!TypeOK, NEW w \in Worker, NEW c \in Digest, Mirrors!Answers(w, c), now' = now,
           job[w].do \in {"pull", "blob"}, c = job[w].digest \/ job[w].digest \in misnamed',
           job[w].do = "pull" /\ job[w].how = "fresh" => now - job[w].got < TTL + 2 * Patience
    PROVE  /\ answer' \in Mirrors!Answer
           /\ Mirrors!PolicyAtAnswer' /\ Mirrors!ServedAsNamed' /\ FreshAnswers'
<1>1. job[w] \in Mirrors!Job
  BY Typed
<1>2. /\ answer'.to = job[w].do /\ answer'.got = job[w].got /\ answer'.how = job[w].how
      /\ answer'.digest = job[w].digest /\ answer'.content = c
      /\ answer' \in Mirrors!Answer
  <2>1. Mirrors!Silence \in Mirrors!Answer
    BY MirrorAssumption DEF Mirrors!Silence, Mirrors!Answer, Mirrors!Time
  <2>q. QED BY <1>1, <2>1 DEF Mirrors!Answers, Mirrors!Answer, Mirrors!Job
<1>q. QED BY <1>2 DEF Mirrors!PolicyAtAnswer, Mirrors!ServedAsNamed, FreshAnswers, Mirrors!FreshAnswers

LEMMA ServeKept == ASSUME MirrorInv, NEW w \in Worker, Mirrors!Serve(w) PROVE MirrorInv'
<1> DEFINE j == job[w]
<1>1. j.stage = "serve" /\ work' = work
      /\ UNCHANGED <<Mirrors!world, Mirrors!files, Mirrors!airgap, unwritten, misnamed>>
  BY DEF Mirrors!Serve, Mirrors!At
<1>2. /\ now' = now /\ Mirrors!TypeOK /\ now \in Mirrors!Time /\ j \in Mirrors!Job /\ j.got <= now
      /\ j.do \in {"pull", "blob"} /\ j.digest \in Digest
      /\ j.do = "pull" /\ j.how = "fresh" => now - j.got < TTL + Patience
  BY <1>1, Before DEF Mirrors!world, JobKept
<1>3. work' \in 0..MaxWork
  BY <1>1, <1>2 DEF Mirrors!TypeOK
<1>4. j.got \in Nat
  BY <1>2, Typed
<1>5. CASE j.digest \in blobs
  <2>1. Mirrors!Answers(w, j.digest) /\ Mirrors!Goes(w, Mirrors!Idle)
    BY <1>5 DEF Mirrors!Serve
  <2>2. j.do = "pull" /\ j.how = "fresh" => now - j.got < TTL + 2 * Patience
    BY <1>2, <1>4, MirrorAssumption DEF Mirrors!Time
  <2>3. pulled' \subseteq Digest /\ pulled' \subseteq pulled \cup blobs
    BY <1>2, <1>5, <2>1 DEF Mirrors!Answers, Mirrors!TypeOK
  <2>4. blobs' = blobs /\ tags' = tags /\ cache' = cache /\ unwritten' = unwritten /\ misnamed' = misnamed
        /\ UNCHANGED <<Mirrors!world, Mirrors!airgap>>
    BY <1>1 DEF Mirrors!files
  <2>5. JobKept(w)'
    BY <1>2, <2>1, IdleKept
  <2>6. /\ answer' \in Mirrors!Answer
        /\ Mirrors!PolicyAtAnswer' /\ Mirrors!ServedAsNamed' /\ FreshAnswers'
    BY <1>2, <2>1, <2>2, AnswerKept
  <2>q. QED BY <1>2, <1>3, <2>1, <2>3, <2>4, <2>5, <2>6, IdleTyped, WorkerKept DEF Mirrors!TypeOK
<1>6. CASE j.digest \notin blobs
  <2> DEFINE n == [j EXCEPT !.stage = "byDigest", !.since = now]
  <2>1. Mirrors!Goes(w, n) /\ Mirrors!Quiet /\ pulled' = pulled
    BY <1>6 DEF Mirrors!Serve
  <2> HIDE DEF j
  <2>2. /\ n \in Mirrors!Job /\ n.do = j.do /\ n.digest = j.digest /\ n.got = j.got /\ n.how = j.how
        /\ n.stage = "byDigest" /\ n.since = now
    BY <1>2 DEF Mirrors!Job, Mirrors!Stage
  <2> HIDE DEF n
  <2>3. JobKept(w)'
    BY <1>2, <2>1, <2>2, NewJobTyped, Typed DEF JobKept, waiting
  <2>q. QED BY <1>1, <1>3, <2>1, <2>2, <2>3, QuietKept
<1>q. QED BY <1>5, <1>6

LEMMA ServeFetchedKept ==
    ASSUME MirrorInv, NEW w \in Worker, NEW ok \in BOOLEAN, NEW c \in Digest, Mirrors!ServeFetched(w, ok, c)
    PROVE  MirrorInv'
<1> DEFINE j == job[w]
<1>1. /\ j.stage = "byDigest" /\ Mirrors!PutBlob(c, ok) /\ Mirrors!SentAs(j.digest, c)
      /\ Mirrors!Answers(w, c) /\ Mirrors!Goes(w, Mirrors!Idle)
      /\ UNCHANGED <<Mirrors!world, tags, cache, Mirrors!airgap>>
  BY DEF Mirrors!ServeFetched, Mirrors!At
<1>2. /\ now' = now /\ Mirrors!TypeOK /\ now \in Mirrors!Time /\ j \in Mirrors!Job
      /\ j.do \in {"pull", "blob"} /\ j.digest \in Digest /\ now <= j.since + Patience
      /\ j.do = "pull" /\ j.how = "fresh" => j.since - j.got < TTL + Patience
  BY <1>1, Before DEF Mirrors!world, JobKept, waiting
<1>3. j.got \in Nat /\ j.since \in Nat
  BY <1>2, Typed
<1>4. j.do = "pull" /\ j.how = "fresh" => now - j.got < TTL + 2 * Patience
  BY <1>2, <1>3, MirrorAssumption DEF Mirrors!Time
<1>5. /\ misnamed \subseteq misnamed' /\ misnamed' \subseteq Digest /\ work' \in 0..MaxWork
      /\ c = j.digest \/ j.digest \in misnamed'
  BY <1>1, <1>2, SentKept
<1>6. /\ blobs \subseteq blobs' /\ unwritten \subseteq unwritten' /\ blobs' \cup unwritten' \subseteq Digest
      /\ pulled' \subseteq Digest /\ pulled' \subseteq pulled \cup blobs' \cup unwritten'
  BY <1>1, <1>2 DEF Mirrors!PutBlob, Mirrors!Answers, Mirrors!TypeOK
<1>7. JobKept(w)'
  BY <1>1, <1>2, IdleKept
<1>8. /\ answer' \in Mirrors!Answer
      /\ Mirrors!PolicyAtAnswer' /\ Mirrors!ServedAsNamed' /\ FreshAnswers'
  BY <1>1, <1>2, <1>4, <1>5, AnswerKept
<1>9. tags' = tags /\ cache' = cache
  BY <1>1
<1>q. QED BY <1>1, <1>2, <1>5, <1>6, <1>7, <1>8, <1>9, IdleTyped, WorkerKept DEF Mirrors!TypeOK

\* What gives up leaves nothing behind.
LEMMA GivesUpKept == ASSUME MirrorInv, NEW w \in Worker, Mirrors!NotFound(w) \/ Mirrors!SearchFails(w) PROVE MirrorInv'
<1>1. /\ Mirrors!Goes(w, Mirrors!Idle) /\ Mirrors!Quiet /\ work' = work
      /\ UNCHANGED <<Mirrors!world, Mirrors!files, Mirrors!airgap, unwritten, misnamed, pulled>>
  BY DEF Mirrors!NotFound, Mirrors!SearchFails
<1>2. now' = now /\ Mirrors!TypeOK
  BY <1>1, Before DEF Mirrors!world
<1>3. JobKept(w)' /\ work' \in 0..MaxWork
  BY <1>1, <1>2, IdleKept DEF Mirrors!TypeOK
<1>q. QED BY <1>1, <1>3, IdleTyped, QuietKept

LEMMA ShownKept ==
    ASSUME Mirrors!TypeOK, NEW found \in SUBSET Plugin, NEW parses \in BOOLEAN, Mirrors!Shows(found, parses),
           allowed' = allowed
    PROVE  /\ answer' \in Mirrors!Answer
           /\ Mirrors!PolicyAtAnswer' /\ Mirrors!ServedAsNamed' /\ FreshAnswers'
<1> DEFINE f == Mirrors!Filtered(found, parses)
<1>1. f \in SUBSET Plugin /\ (parses => f \subseteq allowed)
  BY DEF Mirrors!Filtered
<1>2. answer' = [Mirrors!Silence EXCEPT !.to = "search", !.shown = f, !.parses = parses]
  BY DEF Mirrors!Shows
<1> HIDE DEF f
<1>3. Mirrors!Silence \in Mirrors!Answer
  BY MirrorAssumption DEF Mirrors!Silence, Mirrors!Answer, Mirrors!Time
<1>4. answer' \in Mirrors!Answer /\ answer'.to = "search" /\ answer'.shown = f /\ answer'.parses = parses
  BY <1>1, <1>2, <1>3 DEF Mirrors!Answer
<1>q. QED BY <1>1, <1>4 DEF Mirrors!PolicyAtAnswer, Mirrors!ServedAsNamed, FreshAnswers, Mirrors!FreshAnswers

LEMMA SearchKept == ASSUME MirrorInv, NEW w \in Worker, Mirrors!Search(w) PROVE MirrorInv'
<1>1. /\ Mirrors!Starts("search") /\ job[w].stage = "idle"
      /\ UNCHANGED <<Mirrors!world, Mirrors!files, Mirrors!airgap, unwritten, misnamed, pulled>>
  BY DEF Mirrors!Search, Mirrors!At
<1>2. now' = now /\ allowed' = allowed /\ Mirrors!TypeOK /\ now \in Mirrors!Time /\ JobKept(w)
  BY <1>1, Before DEF Mirrors!world
<1>3. work' \in 0..MaxWork
  BY <1>1, <1>2, Started
<1>4. CASE cache.held /\ now - cache.at <= TTL
  <2>1. Mirrors!Shows(cache.shown, cache.parses) /\ job' = job
    BY <1>4 DEF Mirrors!Search
  <2>2. cache.shown \in SUBSET Plugin /\ cache.parses \in BOOLEAN
    BY <1>2 DEF Mirrors!TypeOK, Mirrors!Cached
  <2>3. Mirrors!Goes(w, job[w]) /\ job[w] \in Mirrors!Job
    BY <1>2, <2>1, Typed DEF Mirrors!Goes, Mirrors!TypeOK
  <2>4. /\ blobs' = blobs /\ tags' = tags /\ cache' = cache
        /\ unwritten' = unwritten /\ misnamed' = misnamed /\ pulled' = pulled
        /\ UNCHANGED <<Mirrors!world, Mirrors!airgap>>
    BY <1>1 DEF Mirrors!files
  <2>5. JobKept(w)'
    BY <1>2, <2>1, <2>4 DEF JobKept
  <2>6. /\ answer' \in Mirrors!Answer
        /\ Mirrors!PolicyAtAnswer' /\ Mirrors!ServedAsNamed' /\ FreshAnswers'
    BY <1>2, <2>1, <2>2, ShownKept
  <2>q. QED BY <1>2, <1>3, <2>3, <2>4, <2>5, <2>6, WorkerKept DEF Mirrors!TypeOK
<1>5. CASE ~(cache.held /\ now - cache.at <= TTL)
  <2> DEFINE n == [Mirrors!Idle EXCEPT !.do = "search", !.stage = "listing", !.since = now]
  <2>1. Mirrors!Goes(w, n) /\ Mirrors!Quiet
    BY <1>5 DEF Mirrors!Search
  <2>2. n \in Mirrors!Job /\ n.stage = "listing" /\ n.since = now /\ n.got = 0
    BY <1>2, IdleTyped DEF Mirrors!Job, Mirrors!Stage
  <2> HIDE DEF n
  <2>3. JobKept(w)'
    BY <1>2, <2>1, <2>2, NewJobTyped, Typed DEF JobKept, waiting
  <2>q. QED BY <1>1, <1>3, <2>1, <2>2, <2>3, QuietKept
<1>q. QED BY <1>4, <1>5

LEMMA ListedKept ==
    ASSUME MirrorInv, NEW w \in Worker, NEW ok \in BOOLEAN, NEW body \in Mirrors!Body, Mirrors!Listed(w, ok, body)
    PROVE  MirrorInv'
<1> DEFINE parses == body = "results"
           c == [shown |-> Plugin, at |-> now, parses |-> parses, held |-> TRUE]
<1>1. /\ Mirrors!Goes(w, Mirrors!Idle) /\ work' = work /\ Mirrors!Shows(Plugin, parses)
      /\ cache' = IF ok /\ body # "none" THEN c ELSE cache
      /\ UNCHANGED <<Mirrors!world, blobs, tags, Mirrors!airgap, unwritten, misnamed, pulled>>
  BY DEF Mirrors!Listed
<1>2. now' = now /\ allowed' = allowed /\ Mirrors!TypeOK /\ now \in Mirrors!Time /\ parses \in BOOLEAN
  BY <1>1, Before DEF Mirrors!world
<1> HIDE DEF parses
<1>3. JobKept(w)' /\ work' \in 0..MaxWork
  BY <1>1, <1>2, IdleKept DEF Mirrors!TypeOK
<1>4. cache' \in Mirrors!Cached
  BY <1>1, <1>2 DEF Mirrors!TypeOK, Mirrors!Cached
<1>5. /\ answer' \in Mirrors!Answer
      /\ Mirrors!PolicyAtAnswer' /\ Mirrors!ServedAsNamed' /\ FreshAnswers'
  BY <1>1, <1>2, ShownKept
<1>6. /\ blobs' = blobs /\ tags' = tags /\ unwritten' = unwritten /\ misnamed' = misnamed /\ pulled' = pulled
      /\ UNCHANGED <<Mirrors!world, Mirrors!airgap>>
  BY <1>1
<1>q. QED BY <1>1, <1>2, <1>3, <1>4, <1>5, <1>6, IdleTyped, WorkerKept DEF Mirrors!TypeOK

LEMMA RequestKept == ASSUME MirrorInv, NEW w \in Worker, Mirrors!Request(w) PROVE MirrorInv'
BY AskTagKept, SyncKept, AskDigestKept, CheckTagKept, RespondKept, FetchFailsKept, ServeKept, GivesUpKept,
   ReceiveKept, StoreTagKept, ServeFetchedKept, ListedKept, SearchKept DEF Mirrors!Request

-----------------------------------------------------------------------------
\* Exports, imports and the rest.

\* While no time passes and no worker moves, what is held may grow.
LEMMA NobodyMoves ==
    ASSUME MirrorInv, job' = job, now' = now, blobs \subseteq blobs', unwritten' = unwritten,
           misnamed' = misnamed, pulled' = pulled
    PROVE  /\ JobsKept'
           /\ pulled' \subseteq blobs' \cup unwritten'
           /\ \A t \in Tag : Mirrors!Tree(tags[t].digest) \subseteq blobs => Mirrors!Tree(tags[t].digest) \subseteq blobs'
BY DEF MirrorInv, MirrorConsistent, JobsKept, JobKept, Mirrors!PulledStays

\* A step of an export, or of the end of one, leaves files and tags alone.
LEMMA FilesAlone ==
    ASSUME MirrorInv, Mirrors!Quiet, UNCHANGED <<now, allowed, mix, Mirrors!files, job, unwritten, misnamed, pulled>>,
           up' \in [Tag -> Top], work' \in 0..MaxWork, AirgapKept',
           export' \in [on : BOOLEAN, todo : SUBSET Digest, have : SUBSET Digest, arts : [Tag -> Top \cup {Absent}]],
           bundle' \in Mirrors!Bundle,
           import' \in [on : BOOLEAN, todo : SUBSET Digest, tags : SUBSET Tag, of : Mirrors!Bundle]
    PROVE  MirrorInv'
<1>1. blobs' = blobs /\ tags' = tags /\ cache' = cache
  BY DEF Mirrors!files
<1>2. Mirrors!TypeOK'
  BY <1>1, QuietAnswer DEF MirrorInv, MirrorConsistent, Mirrors!TypeOK
<1>3. Mirrors!PulledStays' /\ Mirrors!AirgapComplete' /\ TagsKept'
  BY <1>1 DEF MirrorInv, MirrorConsistent, Mirrors!PulledStays, Mirrors!AirgapComplete, TagsKept
<1>q. QED BY <1>1, <1>2, <1>3, NobodyMoves, QuietAnswer DEF MirrorInv, MirrorConsistent

ExportType == [on : BOOLEAN, todo : SUBSET Digest, have : SUBSET Digest, arts : [Tag -> Top \cup {Absent}]]
ImportType == [on : BOOLEAN, todo : SUBSET Digest, tags : SUBSET Tag, of : Mirrors!Bundle]

LEMMA AirgapBefore ==
    ASSUME MirrorInv
    PROVE  /\ export \in ExportType /\ bundle \in Mirrors!Bundle /\ import \in ImportType
           /\ up \in [Tag -> Top] /\ blobs \subseteq Digest /\ work \in 0..MaxWork /\ AirgapKept
           /\ now \in Mirrors!Time
BY DEF MirrorInv, MirrorConsistent, Mirrors!TypeOK, ExportType, ImportType

LEMMA NothingUnderWay == Mirrors!NoExport \in ExportType /\ ~Mirrors!NoExport.on
                         /\ Mirrors!NoBundle \in Mirrors!Bundle /\ Whole(Mirrors!NoBundle)
                         /\ Mirrors!NoImport \in ImportType /\ ~Mirrors!NoImport.on
BY DEF Mirrors!NoExport, Mirrors!NoBundle, Mirrors!NoImport, Mirrors!Bundle, ExportType, ImportType, Whole

LEMMA StartExportKept == ASSUME MirrorInv, Mirrors!StartExport PROVE MirrorInv'
<1>1. /\ Mirrors!Quiet /\ Mirrors!Starts("airgap") /\ export' = [Mirrors!NoExport EXCEPT !.on = TRUE]
      /\ UNCHANGED <<Mirrors!world, Mirrors!files, job, bundle, import, unwritten, misnamed, pulled>>
  BY DEF Mirrors!StartExport
<1>2. export' \in ExportType /\ export'.have = {} /\ export'.arts = [t \in Tag |-> Absent]
  BY <1>1, NothingUnderWay DEF ExportType, Mirrors!NoExport
<1>3. AirgapKept'
  BY <1>1, <1>2, AirgapBefore DEF AirgapKept, Whole, Mirrors!files
<1>4. work' \in 0..MaxWork
  BY <1>1, Started DEF MirrorInv, MirrorConsistent
<1>q. QED BY <1>1, <1>2, <1>3, <1>4, AirgapBefore, FilesAlone DEF Mirrors!world, ExportType, ImportType

LEMMA ExportTagKept == ASSUME MirrorInv, NEW t \in Tag, Mirrors!ExportTag(t) PROVE MirrorInv'
<1>1. /\ Mirrors!Quiet /\ export.on /\ export.todo = {} /\ work' = work
      /\ export' = [export EXCEPT !.todo = {up[t]}, !.arts = [@ EXCEPT ![t] = up[t]]]
      /\ UNCHANGED <<Mirrors!world, Mirrors!files, job, bundle, import, unwritten, misnamed, pulled>>
  BY DEF Mirrors!ExportTag
<1>2. up[t] \in Top /\ up[t] \in Digest
  BY AirgapBefore, MirrorAssumption
<1>3. /\ export' \in ExportType /\ export'.have = export.have /\ export'.todo = {up[t]}
      /\ export'.arts = [export.arts EXCEPT ![t] = up[t]]
  BY <1>1, <1>2, AirgapBefore DEF ExportType
<1>4. AirgapKept'
  <2>1. \A s \in Tag : export'.arts[s] = (IF s = t THEN up[t] ELSE export.arts[s])
    BY <1>3, AirgapBefore DEF ExportType
  <2>q. QED BY <1>1, <1>3, <2>1, AirgapBefore DEF AirgapKept, Whole, Mirrors!files
<1>q. QED BY <1>1, <1>3, <1>4, AirgapBefore, FilesAlone DEF Mirrors!world, ExportType, ImportType

LEMMA ExportDigestKept == ASSUME MirrorInv, NEW d \in Digest, Mirrors!ExportDigest(d) PROVE MirrorInv'
<1>1. /\ Mirrors!Quiet /\ export.on /\ d \in export.todo /\ work' = work
      /\ export' = [export EXCEPT !.have = @ \cup {d}, !.todo = (@ \cup Chosen[d]) \ (export.have \cup {d})]
      /\ UNCHANGED <<Mirrors!world, Mirrors!files, job, bundle, import, unwritten, misnamed, pulled>>
  BY DEF Mirrors!ExportDigest
<1>2. /\ export' \in ExportType /\ export'.have = export.have \cup {d} /\ export'.arts = export.arts
      /\ export'.todo = (export.todo \cup Chosen[d]) \ (export.have \cup {d})
  BY <1>1, AirgapBefore, MirrorAssumption DEF ExportType
<1>3. AirgapKept'
  <2>1. export'.have \cup export'.todo = export.have \cup export.todo \cup Chosen[d]
    BY <1>1, <1>2
  <2>2. \A x \in export'.have : Chosen[x] \subseteq export'.have \cup export'.todo
    BY <1>1, <1>2, <2>1, AirgapBefore DEF AirgapKept
  <2>q. QED BY <1>1, <1>2, <2>1, <2>2, AirgapBefore DEF AirgapKept, Whole, Mirrors!files
<1>q. QED BY <1>1, <1>2, <1>3, AirgapBefore, FilesAlone DEF Mirrors!world, ExportType, ImportType

\* What a finished export has taken along is closed.
LEMMA FinishExportKept == ASSUME MirrorInv, Mirrors!FinishExport PROVE MirrorInv'
<1>1. /\ Mirrors!Quiet /\ export.on /\ export.todo = {} /\ work' = work
      /\ \A t \in Tag : export.arts[t] # Absent
      /\ bundle' = [blobs |-> export.have, bad |-> {}, arts |-> export.arts]
      /\ export' = Mirrors!NoExport
      /\ UNCHANGED <<Mirrors!world, Mirrors!files, job, import, unwritten, misnamed, pulled>>
  BY DEF Mirrors!FinishExport
<1>2. bundle' \in Mirrors!Bundle /\ bundle'.blobs = export.have /\ bundle'.arts = export.arts
  BY <1>1, AirgapBefore DEF ExportType, Mirrors!Bundle
<1>3. Mirrors!Closed(export.have) /\ \A t \in Tag : export.arts[t] \in export.have
  BY <1>1, AirgapBefore DEF AirgapKept, Mirrors!Closed
<1>4. AirgapKept'
  BY <1>1, <1>2, <1>3, AirgapBefore, NothingUnderWay DEF AirgapKept, Whole, Mirrors!files, Mirrors!Closed
<1>q. QED BY <1>1, <1>2, <1>4, AirgapBefore, NothingUnderWay, FilesAlone DEF Mirrors!world, ExportType, ImportType

LEMMA ExportFailsKept == ASSUME MirrorInv, Mirrors!ExportFails PROVE MirrorInv'
<1>1. /\ Mirrors!Quiet /\ export' = Mirrors!NoExport /\ work' = work
      /\ UNCHANGED <<Mirrors!world, Mirrors!files, job, bundle, import, unwritten, misnamed, pulled>>
  BY DEF Mirrors!ExportFails
<1>2. AirgapKept'
  BY <1>1, AirgapBefore, NothingUnderWay DEF AirgapKept, Whole, Mirrors!files
<1>q. QED BY <1>1, <1>2, AirgapBefore, NothingUnderWay, FilesAlone DEF Mirrors!world, ExportType, ImportType

LEMMA DamageKept == ASSUME MirrorInv, NEW d \in Digest, Mirrors!Damage(d) PROVE MirrorInv'
<1>1. /\ Mirrors!Quiet /\ d \in bundle.blobs /\ bundle' = [bundle EXCEPT !.bad = @ \cup {d}] /\ work' = work
      /\ UNCHANGED <<Mirrors!world, Mirrors!files, job, export, import, unwritten, misnamed, pulled>>
  BY DEF Mirrors!Damage
<1>2. bundle' \in Mirrors!Bundle /\ bundle'.blobs = bundle.blobs /\ bundle'.arts = bundle.arts
  BY <1>1, AirgapBefore DEF Mirrors!Bundle
<1>3. bundle # Mirrors!NoBundle
  BY <1>1 DEF Mirrors!NoBundle
<1>4. AirgapKept'
  BY <1>1, <1>2, <1>3, AirgapBefore DEF AirgapKept, Whole, Mirrors!files
<1>q. QED BY <1>1, <1>2, <1>4, AirgapBefore, FilesAlone DEF Mirrors!world, ExportType, ImportType

LEMMA StartImportKept == ASSUME MirrorInv, Mirrors!StartImport PROVE MirrorInv'
<1>1. /\ Mirrors!Quiet /\ Mirrors!Starts("airgap") /\ bundle # Mirrors!NoBundle
      /\ import' = [on |-> TRUE, todo |-> bundle.blobs, tags |-> Tag, of |-> bundle]
      /\ UNCHANGED <<Mirrors!world, Mirrors!files, job, export, bundle, unwritten, misnamed, pulled>>
  BY DEF Mirrors!StartImport
<1>2. import' \in ImportType /\ import'.of = bundle /\ import'.todo = bundle.blobs
  BY <1>1, AirgapBefore DEF ImportType, Mirrors!Bundle
<1>3. AirgapKept'
  BY <1>1, <1>2, AirgapBefore DEF AirgapKept, Whole, Mirrors!files
<1>4. work' \in 0..MaxWork
  BY <1>1, Started DEF MirrorInv, MirrorConsistent
<1>q. QED BY <1>1, <1>2, <1>3, <1>4, AirgapBefore, FilesAlone DEF Mirrors!world, ExportType, ImportType

LEMMA EndImportKept == ASSUME MirrorInv, Mirrors!EndImport PROVE MirrorInv'
<1>1. /\ Mirrors!Quiet /\ import' = Mirrors!NoImport /\ work' = work
      /\ UNCHANGED <<Mirrors!world, Mirrors!files, job, export, bundle, unwritten, misnamed, pulled>>
  BY DEF Mirrors!EndImport
<1>2. AirgapKept'
  BY <1>1, AirgapBefore, NothingUnderWay DEF AirgapKept, Whole, Mirrors!files
<1>q. QED BY <1>1, <1>2, AirgapBefore, NothingUnderWay, FilesAlone DEF Mirrors!world, ExportType, ImportType

LEMMA ImportBlobKept == ASSUME MirrorInv, NEW d \in Digest, Mirrors!ImportBlob(d) PROVE MirrorInv'
<1>1. /\ Mirrors!Quiet /\ import.on /\ blobs' = blobs \cup {d} /\ import' = [import EXCEPT !.todo = @ \ {d}]
      /\ UNCHANGED <<Mirrors!world, tags, cache, job, export, bundle, unwritten, misnamed, pulled, work>>
  BY DEF Mirrors!ImportBlob
<1>2. now' = now /\ allowed' = allowed /\ up' = up /\ mix' = mix
  BY <1>1 DEF Mirrors!world
<1>3. import' \in ImportType /\ import'.of = import.of /\ import'.todo = import.todo \ {d} /\ import'.on
  BY <1>1, AirgapBefore DEF ImportType
<1>4. Mirrors!TypeOK'
  BY <1>1, <1>2, <1>3, QuietAnswer DEF MirrorInv, MirrorConsistent, Mirrors!TypeOK, ImportType
<1>5. AirgapKept'
  BY <1>1, <1>3, AirgapBefore DEF AirgapKept, Whole
<1>6. Mirrors!PulledStays' /\ Mirrors!AirgapComplete' /\ TagsKept'
  BY <1>1 DEF MirrorInv, MirrorConsistent, Mirrors!PulledStays, Mirrors!AirgapComplete, TagsKept
<1>q. QED BY <1>1, <1>2, <1>4, <1>5, <1>6, NobodyMoves, QuietAnswer DEF MirrorInv, MirrorConsistent

\* A tag comes when all blobs of its bundle are held.
LEMMA ImportTagKept == ASSUME MirrorInv, NEW t \in Tag, Mirrors!ImportTag(t) PROVE MirrorInv'
<1> DEFINE d == import.of.arts[t]
           e == [digest |-> d, at |-> now, got |-> 0, from |-> "bundle"]
<1>1. /\ Mirrors!Quiet /\ import.on /\ import.todo = {} /\ d \in blobs /\ tags' = [tags EXCEPT ![t] = e]
      /\ import' = [import EXCEPT !.tags = @ \ {t}]
      /\ UNCHANGED <<Mirrors!world, blobs, cache, job, export, bundle, unwritten, misnamed, pulled, work>>
  BY DEF Mirrors!ImportTag, Mirrors!Ready
<1>2. now' = now /\ allowed' = allowed /\ up' = up /\ mix' = mix
  BY <1>1 DEF Mirrors!world
<1>3. import' \in ImportType /\ import'.of = import.of /\ import'.todo = import.todo /\ import'.on = import.on
  BY <1>1, AirgapBefore DEF ImportType
<1>4. d \in Digest /\ now \in Mirrors!Time /\ 0 \in Mirrors!Time /\ 0 <= now
  BY <1>1, AirgapBefore, MirrorAssumption DEF Mirrors!Time
<1>5. Mirrors!Tree(d) \subseteq blobs
  <2>1. /\ Mirrors!Closed(import.of.blobs) /\ d \in import.of.blobs /\ import.of.blobs \subseteq blobs
        /\ import.of.blobs \in SUBSET Digest
    BY <1>1, AirgapBefore DEF AirgapKept, Whole, ImportType, Mirrors!Bundle
  <2>q. QED BY <2>1 DEF Mirrors!Tree
<1> HIDE DEF d
<1>6. e \in Mirrors!Entry /\ e.digest = d /\ e.at = now /\ e.got = 0 /\ e.from = "bundle"
  BY <1>4 DEF Mirrors!Entry
<1> HIDE DEF e
<1>7. Mirrors!TypeOK
  BY DEF MirrorInv, MirrorConsistent
<1>8. tags' \in [Tag -> Mirrors!Entry \cup {Mirrors!NoEntry}] /\ \A s \in Tag : tags'[s] = IF s = t THEN e ELSE tags[s]
  BY <1>1, <1>6, <1>7 DEF Mirrors!TypeOK
<1>9. \A s \in Tag : tags'[s].got <= tags'[s].at /\ tags'[s].at <= now'
  BY <1>2, <1>4, <1>6, <1>7, <1>8, AirgapBefore, MirrorAssumption DEF Mirrors!TypeOK, Mirrors!Time
<1>10. Mirrors!TypeOK'
  BY <1>1, <1>2, <1>3, <1>7, <1>8, <1>9, QuietAnswer DEF Mirrors!TypeOK, ImportType
<1>11. AirgapKept'
  BY <1>1, <1>3, AirgapBefore DEF AirgapKept, Whole
<1>12. TagsKept'
  BY <1>4, <1>6, <1>8 DEF MirrorInv, TagsKept
<1>13. Mirrors!PulledStays'
  BY <1>1, <1>6, <1>8 DEF MirrorInv, MirrorConsistent, Mirrors!PulledStays
<1>14. Mirrors!AirgapComplete'
  BY <1>1, <1>5, <1>6, <1>8 DEF MirrorInv, MirrorConsistent, Mirrors!AirgapComplete
<1>q. QED BY <1>1, <1>2, <1>10, <1>11, <1>12, <1>13, <1>14, NobodyMoves, QuietAnswer DEF MirrorInv, MirrorConsistent

LEMMA AirgapStepKept == ASSUME MirrorInv, Mirrors!Airgap PROVE MirrorInv'
BY StartExportKept, FinishExportKept, ExportFailsKept, StartImportKept, EndImportKept, ExportTagKept,
   ImportTagKept, ExportDigestKept, DamageKept, ImportBlobKept DEF Mirrors!Airgap

LEMMA PublishKept == ASSUME MirrorInv, NEW t \in Tag, NEW d \in Top, Mirrors!Publish(t, d) PROVE MirrorInv'
<1>1. /\ Mirrors!Quiet /\ Mirrors!Starts("publish") /\ up' = [up EXCEPT ![t] = d]
      /\ UNCHANGED <<now, allowed, mix, Mirrors!files, job, Mirrors!airgap, unwritten, misnamed, pulled>>
  BY DEF Mirrors!Publish
<1>2. up' \in [Tag -> Top] /\ export' = export /\ bundle' = bundle /\ import' = import
  BY <1>1, AirgapBefore DEF Mirrors!airgap
<1>3. AirgapKept'
  BY <1>1, <1>2, AirgapBefore DEF AirgapKept, Whole, Mirrors!files
<1>4. work' \in 0..MaxWork
  BY <1>1, Started DEF MirrorInv, MirrorConsistent
<1>q. QED BY <1>1, <1>2, <1>3, <1>4, AirgapBefore, FilesAlone DEF ExportType, ImportType

\* A step of the clock, which no worker takes but one that waits.
LEMMA TickKept == ASSUME MirrorInv, Mirrors!Tick PROVE MirrorInv'
<1>1. /\ now < MaxTime /\ now' = now + 1 /\ Mirrors!Quiet /\ job' = job
      /\ \A w \in Worker : Mirrors!At(w, "idle") \/ Mirrors!Waits(w)
      /\ UNCHANGED <<up, allowed, mix, Mirrors!files, Mirrors!airgap, unwritten, misnamed, pulled, work>>
  BY DEF Mirrors!Tick
<1>2. blobs' = blobs /\ tags' = tags /\ cache' = cache /\ export' = export /\ bundle' = bundle /\ import' = import
  BY <1>1 DEF Mirrors!files, Mirrors!airgap
<1>3. Mirrors!TypeOK /\ now \in Nat /\ now' \in Mirrors!Time
  BY <1>1, MirrorAssumption DEF MirrorInv, MirrorConsistent, Mirrors!TypeOK, Mirrors!Time
<1>4. Mirrors!TypeOK'
  <2>1. \A t \in Tag : tags[t].at <= now'
    BY <1>1, <1>3, TagTyped, MirrorAssumption DEF Mirrors!Time
  <2>q. QED BY <1>1, <1>2, <1>3, <2>1, QuietAnswer DEF Mirrors!TypeOK
<1>5. JobsKept'
  <2>1. SUFFICES ASSUME NEW w \in Worker PROVE JobKept(w)'
    BY DEF JobsKept
  <2>2. JobKept(w) /\ job[w] \in Mirrors!Job /\ job[w].since \in Nat /\ job[w].got \in Nat
    BY <1>3, Before, Typed
  <2>3. CASE Mirrors!At(w, "idle")
    BY <1>1, <1>3, <2>2, <2>3 DEF JobKept, Mirrors!At, waiting
  <2>4. CASE Mirrors!Waits(w)
    BY <1>1, <1>2, <1>3, <2>2, <2>4, MirrorAssumption DEF JobKept, Mirrors!Waits, waiting
  <2>q. QED BY <1>1, <2>3, <2>4
<1>6. TagsKept' /\ AirgapKept' /\ Mirrors!PulledStays' /\ Mirrors!AirgapComplete'
  BY <1>1, <1>2 DEF MirrorInv, MirrorConsistent, TagsKept, AirgapKept, Whole, Mirrors!PulledStays, Mirrors!AirgapComplete
<1>q. QED BY <1>1, <1>4, <1>5, <1>6, QuietAnswer DEF MirrorInv, MirrorConsistent

LEMMA RestartKept == ASSUME MirrorInv, Mirrors!Restart PROVE MirrorInv'
<1>1. /\ job' = [w \in Worker |-> Mirrors!Idle] /\ allowed' \subseteq Plugin /\ Mirrors!Quiet
      /\ UNCHANGED <<now, up, mix, Mirrors!files, Mirrors!airgap, unwritten, misnamed, pulled, work>>
  BY DEF Mirrors!Restart
<1>2. blobs' = blobs /\ tags' = tags /\ cache' = cache /\ export' = export /\ bundle' = bundle /\ import' = import
  BY <1>1 DEF Mirrors!files, Mirrors!airgap
<1>3. Mirrors!TypeOK'
  BY <1>1, <1>2, QuietAnswer, IdleTyped DEF MirrorInv, MirrorConsistent, Mirrors!TypeOK
<1>4. JobsKept'
  BY <1>1, IdleTyped, AirgapBefore, MirrorAssumption DEF JobsKept, JobKept, waiting, Mirrors!Time
<1>5. TagsKept' /\ AirgapKept' /\ Mirrors!PulledStays' /\ Mirrors!AirgapComplete'
  BY <1>1, <1>2 DEF MirrorInv, MirrorConsistent, TagsKept, AirgapKept, Whole, Mirrors!PulledStays, Mirrors!AirgapComplete
<1>q. QED BY <1>3, <1>4, <1>5, QuietAnswer, <1>1 DEF MirrorInv, MirrorConsistent

LEMMA MirrorInit == ASSUME Mirrors!Init PROVE MirrorInv
<1>1. /\ now = 0 /\ work = 0 /\ mix \in Mixes /\ up \in [Tag -> Top] /\ blobs = {}
      /\ tags = [t \in Tag |-> Mirrors!NoEntry] /\ cache = Mirrors!Nothing /\ allowed = Plugin
      /\ job = [w \in Worker |-> Mirrors!Idle] /\ answer = Mirrors!Silence
      /\ export = Mirrors!NoExport /\ bundle = Mirrors!NoBundle /\ import = Mirrors!NoImport
      /\ unwritten = {} /\ misnamed = {} /\ pulled = {}
  BY DEF Mirrors!Init
<1>2. 0 \in Mirrors!Time /\ 0 \in 0..MaxWork
  BY MirrorAssumption DEF Mirrors!Time
<1>3. answer \in Mirrors!Answer
      /\ cache \in Mirrors!Cached
  BY <1>1, <1>2 DEF Mirrors!Silence, Mirrors!Nothing, Mirrors!Answer, Mirrors!Cached
<1>4. \A t \in Tag : tags[t] = Mirrors!NoEntry /\ tags[t].at = 0 /\ tags[t].got = 0 /\ tags[t].from = "upstream"
  BY <1>1 DEF Mirrors!NoEntry
<1>5. Mirrors!TypeOK
  <2>1. job \in [Worker -> Mirrors!Job]
    BY <1>1, IdleTyped
  <2>2. tags \in [Tag -> Mirrors!Entry \cup {Mirrors!NoEntry}]
    BY <1>1
  <2>3. export \in ExportType /\ bundle \in Mirrors!Bundle /\ import \in ImportType
    BY <1>1, NothingUnderWay
  <2>q. QED BY <1>1, <1>2, <1>3, <1>4, <2>1, <2>2, <2>3 DEF Mirrors!TypeOK, ExportType, ImportType
<1>6. JobsKept
  BY <1>1, IdleTyped, MirrorAssumption DEF JobsKept, JobKept, waiting
<1>7. TagsKept /\ AirgapKept /\ Mirrors!PulledStays /\ Mirrors!AirgapComplete
  BY <1>1, <1>4, NothingUnderWay, MirrorAssumption DEF TagsKept, AirgapKept, Mirrors!PulledStays, Mirrors!AirgapComplete
<1>8. Mirrors!PolicyAtAnswer /\ Mirrors!ServedAsNamed /\ FreshAnswers
  BY <1>1 DEF Mirrors!Silence, Mirrors!PolicyAtAnswer, Mirrors!ServedAsNamed, FreshAnswers, Mirrors!FreshAnswers
<1>q. QED BY <1>5, <1>6, <1>7, <1>8 DEF MirrorInv, MirrorConsistent

LEMMA MirrorStep == ASSUME MirrorInv, [Mirrors!Next]_mirrorVars PROVE MirrorInv'
<1>1. CASE Mirrors!Next
  BY <1>1, RequestKept, AirgapStepKept, PublishKept, TickKept, RestartKept DEF Mirrors!Next
<1>2. CASE UNCHANGED mirrorVars
  <2>1. /\ now' = now /\ up' = up /\ blobs' = blobs /\ tags' = tags /\ cache' = cache /\ allowed' = allowed
        /\ job' = job /\ answer' = answer /\ export' = export /\ bundle' = bundle /\ import' = import
        /\ unwritten' = unwritten /\ misnamed' = misnamed /\ pulled' = pulled /\ mix' = mix /\ work' = work
    BY <1>2 DEF mirrorVars
  <2>q. QED BY <2>1 DEF MirrorInv, MirrorConsistent, Mirrors!TypeOK, Mirrors!PulledStays, Mirrors!PolicyAtAnswer,
                 Mirrors!ServedAsNamed, Mirrors!AirgapComplete, FreshAnswers, Mirrors!FreshAnswers, JobsKept, JobKept, TagsKept, AirgapKept, Whole
<1>q. QED BY <1>1, <1>2

-----------------------------------------------------------------------------
\* The marketplace: what holds of its data, in memory and in the file, when n
\* changes have been tried.
Agrees(d, a) ==
    /\ IsFiniteSet(Market!Events(d, a)) /\ IsFiniteSet(Market!Downloads(d, a))
    /\ Cardinality(Market!Events(d, a)) = Cardinality(Market!Downloads(d, a))

RatingKept(r, n) ==
    /\ r.id <= n /\ r.helpful <= n
    /\ \A c \in r.cast : c[1] <= n
    /\ IsFiniteSet(r.cast) /\ r.helpful = Cardinality(r.cast)
    /\ r.voters = {u \in User : <<r.id, u>> \in r.cast}

DataKept(d, n) ==
    /\ d \in Market!Data /\ Market!WellFormed(d)
    /\ \A e \in d.events : e.n <= n
    /\ \A v \in d.versions : v.downloads <= n
    /\ \A r \in d.ratings : RatingKept(r, n)
    /\ \A a \in Artifact : Agrees(d, a)

FactKinds == {"artifact", "version", "download", "rating", "vote", "advisory", "tier"}

HeardKept ==
    \A f \in heard :
        /\ f.what \in FactKinds /\ (f.what = "tier" => f.user \in User)
        /\ Market!Holds(mem, f) /\ Market!Holds(stored, f)

MarketInv ==
    /\ DataKept(mem, writes) /\ DataKept(stored, writes) /\ HeardKept
    /\ serving \in BOOLEAN /\ writes \in 0..MaxWrites

\* The size of a set is one number, from here and from within the marketplace.
LEMMA SameSize == \A S : Market!Cardinality(S) = Cardinality(S)
BY Zenon DEF Market!Cardinality, Cardinality

\* What a change has to keep of the data that the facts told are found in.
Grows(d, e) ==
    /\ d.artifacts \subseteq e.artifacts /\ d.events \subseteq e.events /\ d.advisories \subseteq e.advisories
    /\ \A u \in User : d.tier[u] = 1 => e.tier[u] = 1
    /\ \A a, v : Market!Resolve(d, a, v) # {} => Market!Resolve(e, a, v) = Market!Resolve(d, a, v)
    /\ \A r \in d.ratings : \E s \in e.ratings : s.art = r.art /\ s.user = r.user /\ r.cast \subseteq s.cast

LEMMA HoldsStill ==
    ASSUME NEW d, NEW e, Grows(d, e), NEW f, f.what \in FactKinds, f.what = "tier" => f.user \in User,
           Market!Holds(d, f)
    PROVE  Market!Holds(e, f)
<1>1. CASE f.what = "artifact"
  BY <1>1 DEF Market!Holds, Grows
<1>2. CASE f.what = "version"
  BY <1>2 DEF Market!Holds, Grows
<1>3. CASE f.what = "download"
  BY <1>3 DEF Market!Holds, Grows
<1>4. CASE f.what = "rating"
  BY <1>4 DEF Market!Holds, Grows
<1>5. CASE f.what = "vote"
  BY <1>5 DEF Market!Holds, Grows
<1>6. CASE f.what = "advisory"
  BY <1>6 DEF Market!Holds, Grows
<1>7. CASE f.what = "tier"
  BY <1>7 DEF Market!Holds, Grows
<1>q. QED BY <1>1, <1>2, <1>3, <1>4, <1>5, <1>6, <1>7 DEF FactKinds

\* The rest of a handler, after the change of the data.
LEMMA FlushKept ==
    ASSUME MarketInv, NEW d, NEW facts, NEW ok \in BOOLEAN, Market!Flush(d, facts, ok),
           DataKept(mem', writes'), Grows(mem, mem'), writes' \in 0..MaxWrites, writes <= writes',
           \A f \in facts : /\ f.what \in FactKinds /\ (f.what = "tier" => f.user \in User)
                            /\ Market!Holds(mem', f)
    PROVE  MarketInv'
<1>1. /\ mem' = d /\ stored' = IF ok THEN mem' ELSE stored
      /\ heard' = heard \cup (IF ok THEN facts ELSE {}) /\ serving' = serving
  BY DEF Market!Flush
<1>2. DataKept(stored', writes')
  <2>1. CASE ok
    BY <1>1, <2>1
  <2>2. CASE ~ok
    <3>1. writes \in Nat /\ writes' \in Nat
      BY MarketAssumption DEF MarketInv
    <3>2. stored' = stored /\ DataKept(stored, writes)
      BY <1>1, <2>2 DEF MarketInv
    <3>3. /\ \A e \in stored.events : e.n \in Nat
          /\ \A v \in stored.versions : v.downloads \in Nat
          /\ \A r \in stored.ratings : r.id \in Nat /\ r.helpful \in Nat /\ \A c \in r.cast : c[1] \in Nat
      BY <3>2, MarketAssumption DEF DataKept, Market!Data, Market!Event, Market!Published, Market!Rating
    <3>4. \A r \in stored.ratings : RatingKept(r, writes')
      BY <3>1, <3>2, <3>3 DEF DataKept, RatingKept
    <3>q. QED BY <3>1, <3>2, <3>3, <3>4 DEF DataKept
  <2>q. QED BY <2>1, <2>2
<1>3. HeardKept'
  <2>1. SUFFICES ASSUME NEW f \in heard'
                 PROVE  /\ f.what \in FactKinds /\ (f.what = "tier" => f.user \in User)
                        /\ Market!Holds(mem', f) /\ Market!Holds(stored', f)
    BY DEF HeardKept
  <2>2. CASE f \in heard
    <3>1. /\ f.what \in FactKinds /\ (f.what = "tier" => f.user \in User)
          /\ Market!Holds(mem, f) /\ Market!Holds(stored, f)
      BY <2>2 DEF MarketInv, HeardKept
    <3>2. Market!Holds(mem', f)
      BY <3>1, HoldsStill
    <3>q. QED BY <1>1, <3>1, <3>2
  <2>3. CASE f \notin heard
    BY <1>1, <2>1, <2>3
  <2>q. QED BY <2>2, <2>3
<1>q. QED BY <1>1, <1>2, <1>3 DEF MarketInv

\* What may be used of the data before a change.
LEMMA MemBefore ==
    ASSUME MarketInv
    PROVE  /\ mem \in Market!Data /\ Market!WellFormed(mem) /\ DataKept(mem, writes)
           /\ writes \in Nat /\ MaxWrites \in Nat /\ writes <= MaxWrites
           /\ mem.publishers \subseteq User /\ mem.tier \in [User -> 0..1] /\ mem.artifacts \subseteq Artifact
           /\ mem.versions \subseteq Market!Published /\ mem.ratings \subseteq Market!Rating
           /\ mem.events \subseteq Market!Event /\ mem.advisories \subseteq Market!Advisory
BY MarketAssumption DEF MarketInv, DataKept, Market!Data

\* Changes that count nothing: what does not change still agrees.
LEMMA CountsStill ==
    ASSUME DataKept(mem, writes), mem'.events = mem.events, mem'.versions = mem.versions
    PROVE  \A a \in Artifact : Agrees(mem', a)
BY DEF DataKept, Agrees, Market!Events, Market!Downloads

LEMMA OlderKept ==
    ASSUME MarketInv, writes' = writes + 1
    PROVE  /\ \A e \in mem.events : e.n <= writes'
           /\ \A v \in mem.versions : v.downloads <= writes'
           /\ \A r \in mem.ratings : RatingKept(r, writes')
<1>1. /\ \A e \in mem.events : e.n \in Nat
      /\ \A v \in mem.versions : v.downloads \in Nat
      /\ \A r \in mem.ratings : r.id \in Nat /\ r.helpful \in Nat /\ \A c \in r.cast : c[1] \in Nat
  BY MemBefore DEF Market!Event, Market!Published, Market!Rating
<1>2. \A r \in mem.ratings : RatingKept(r, writes')
  BY <1>1, MemBefore DEF DataKept, RatingKept
<1>q. QED BY <1>1, <1>2, MemBefore DEF DataKept

LEMMA RegisterPluginKept ==
    ASSUME MarketInv, NEW u \in User, NEW a \in Artifact, NEW ok \in BOOLEAN, Market!RegisterPlugin(u, a, ok)
    PROVE  MarketInv'
<1> DEFINE d == [mem EXCEPT !.artifacts = @ \cup {a}]
           facts == {[what |-> "artifact", art |-> a]}
<1>1. writes < MaxWrites /\ writes' = writes + 1 /\ Market!Flush(d, facts, ok)
  BY DEF Market!RegisterPlugin, Market!Write
<1>2. mem' = d
  BY <1>1 DEF Market!Flush
<1>3. /\ mem' \in Market!Data /\ mem'.artifacts = mem.artifacts \cup {a} /\ mem'.tier = mem.tier
      /\ mem'.versions = mem.versions /\ mem'.ratings = mem.ratings /\ mem'.events = mem.events
      /\ mem'.advisories = mem.advisories
  BY <1>2, MemBefore DEF Market!Data
<1>4. DataKept(mem', writes')
  BY <1>1, <1>3, MemBefore, CountsStill, OlderKept DEF DataKept, Market!WellFormed
<1>5. Grows(mem, mem')
  BY <1>3 DEF Grows, Market!Resolve
<1>6. \A f \in facts : f.what = "artifact" /\ Market!Holds(mem', f)
  <2>1. SUFFICES ASSUME NEW f \in facts PROVE f.what = "artifact" /\ Market!Holds(mem', f)
    OBVIOUS
  <2>2. f.what = "artifact" /\ f.art = a
    OBVIOUS
  <2>q. QED BY <1>3, <2>2 DEF Market!Holds
<1>q. QED BY <1>1, <1>4, <1>5, <1>6, MemBefore, FlushKept DEF FactKinds

LEMMA CreateAdvisoryKept ==
    ASSUME MarketInv, NEW u \in User, NEW a \in Artifact, NEW ok \in BOOLEAN, Market!CreateAdvisory(u, a, ok)
    PROVE  MarketInv'
<1> DEFINE x == [id |-> Market!Id, art |-> a]
           d == [mem EXCEPT !.advisories = @ \cup {x}]
           facts == {[what |-> "advisory", art |-> a, id |-> Market!Id]}
<1>1. writes < MaxWrites /\ writes' = writes + 1 /\ a \in mem.artifacts /\ Market!Flush(d, facts, ok)
  BY DEF Market!CreateAdvisory, Market!Write
<1>2. mem' = d
  BY <1>1 DEF Market!Flush
<1>3. x \in Market!Advisory /\ x.art = a
  BY <1>1, MemBefore DEF Market!Id, Market!Advisory
<1>4. /\ mem' \in Market!Data /\ mem'.advisories = mem.advisories \cup {x} /\ mem'.tier = mem.tier
      /\ mem'.versions = mem.versions /\ mem'.ratings = mem.ratings /\ mem'.events = mem.events
      /\ mem'.artifacts = mem.artifacts
  <2> HIDE DEF x
  <2>q. QED BY <1>2, <1>3, MemBefore DEF Market!Data
<1>5. DataKept(mem', writes')
  <2> HIDE DEF x
  <2>1. Market!WellFormed(mem')
    BY <1>1, <1>3, <1>4, MemBefore DEF Market!WellFormed
  <2>q. QED BY <1>1, <1>4, <2>1, MemBefore, CountsStill, OlderKept DEF DataKept
<1>6. Grows(mem, mem')
  BY <1>4 DEF Grows, Market!Resolve
<1>7. \A f \in facts : f.what = "advisory" /\ Market!Holds(mem', f)
  <2>1. SUFFICES ASSUME NEW f \in facts PROVE f.what = "advisory" /\ Market!Holds(mem', f)
    OBVIOUS
  <2>2. f.what = "advisory" /\ [id |-> f.id, art |-> f.art] = x
    OBVIOUS
  <2> HIDE DEF x
  <2>q. QED BY <1>4, <2>2 DEF Market!Holds
<1>q. QED BY <1>1, <1>5, <1>6, <1>7, MemBefore, FlushKept DEF FactKinds

LEMMA VerifyRequestKept ==
    ASSUME MarketInv, NEW u \in User, NEW ok \in BOOLEAN, Market!VerifyRequest(u, ok)
    PROVE  MarketInv'
<1> DEFINE t == [mem.tier EXCEPT ![u] = 1]
           d == [mem EXCEPT !.tier = t]
           facts == {[what |-> "tier", user |-> u]}
<1>1. writes < MaxWrites /\ writes' = writes + 1 /\ Market!Flush(d, facts, ok)
  BY DEF Market!VerifyRequest, Market!Write
<1>2. mem' = d
  BY <1>1 DEF Market!Flush
<1>3. t \in [User -> 0..1] /\ t[u] = 1 /\ \A v \in User : mem.tier[v] = 1 => t[v] = 1
  BY MemBefore
<1> HIDE DEF t
<1>4. /\ mem' \in Market!Data /\ mem'.tier = t /\ mem'.advisories = mem.advisories
      /\ mem'.versions = mem.versions /\ mem'.ratings = mem.ratings /\ mem'.events = mem.events
      /\ mem'.artifacts = mem.artifacts
  BY <1>2, <1>3, MemBefore DEF Market!Data
<1>5. DataKept(mem', writes')
  <2>1. Market!WellFormed(mem')
    BY <1>4, MemBefore DEF Market!WellFormed
  <2>q. QED BY <1>1, <1>4, <2>1, MemBefore, CountsStill, OlderKept DEF DataKept
<1>6. Grows(mem, mem')
  BY <1>3, <1>4 DEF Grows, Market!Resolve
<1>7. \A f \in facts : f.what = "tier" /\ f.user \in User /\ Market!Holds(mem', f)
  <2>1. SUFFICES ASSUME NEW f \in facts PROVE f.what = "tier" /\ f.user \in User /\ Market!Holds(mem', f)
    OBVIOUS
  <2>2. f.what = "tier" /\ f.user = u
    OBVIOUS
  <2>q. QED BY <1>3, <1>4, <2>2 DEF Market!Holds
<1>q. QED BY <1>1, <1>5, <1>6, <1>7, MemBefore, FlushKept DEF FactKinds

LEMMA RegisterVersionKept ==
    ASSUME MarketInv, NEW u \in User, NEW a \in Artifact, NEW v \in Version, NEW c \in Contents, NEW ok \in BOOLEAN,
           Market!RegisterVersion(u, a, v, c, ok)
    PROVE  MarketInv'
<1> DEFINE x == [art |-> a, version |-> v, digest |-> c, downloads |-> 0]
           d == [mem EXCEPT !.versions = @ \cup {x}]
           facts == {[what |-> "version", art |-> a, version |-> v, digest |-> c]}
<1>1. /\ writes < MaxWrites /\ writes' = writes + 1 /\ a \in mem.artifacts /\ Market!Flush(d, facts, ok)
      /\ \A y \in mem.versions : y.art = a => y.version # v
  BY DEF Market!RegisterVersion, Market!Write
<1>2. mem' = d
  BY <1>1 DEF Market!Flush
<1>3. x \in Market!Published /\ x.art = a /\ x.version = v /\ x.digest = c /\ x.downloads = 0
  BY <1>1, MemBefore DEF Market!Published
<1> HIDE DEF x
<1>4. /\ mem' \in Market!Data /\ mem'.versions = mem.versions \cup {x} /\ mem'.tier = mem.tier
      /\ mem'.advisories = mem.advisories /\ mem'.ratings = mem.ratings /\ mem'.events = mem.events
      /\ mem'.artifacts = mem.artifacts
  BY <1>2, <1>3, MemBefore DEF Market!Data
<1>5. DataKept(mem', writes')
  <2>1. Market!WellFormed(mem')
    BY <1>1, <1>3, <1>4, MemBefore DEF Market!WellFormed
  <2>2. \A b \in Artifact : Market!Downloads(mem', b) = Market!Downloads(mem, b)
    BY <1>3, <1>4 DEF Market!Downloads
  <2>3. \A b \in Artifact : Market!Events(mem', b) = Market!Events(mem, b)
    BY <1>4 DEF Market!Events
  <2>4. \A b \in Artifact : Agrees(mem', b)
    BY <2>2, <2>3, MemBefore DEF DataKept, Agrees
  <2>5. \A y \in mem'.versions : y.downloads <= writes'
    BY <1>1, <1>3, <1>4, MemBefore, OlderKept
  <2>q. QED BY <1>1, <1>4, <2>1, <2>4, <2>5, OlderKept DEF DataKept
<1>6. /\ Market!Resolve(mem', a, v) = {c}
      /\ \A b, w : Market!Resolve(mem, b, w) # {} => Market!Resolve(mem', b, w) = Market!Resolve(mem, b, w)
  BY <1>1, <1>3, <1>4 DEF Market!Resolve
<1>7. Grows(mem, mem')
  BY <1>4, <1>6 DEF Grows
<1>8. \A f \in facts : f.what = "version" /\ Market!Holds(mem', f)
  <2>1. SUFFICES ASSUME NEW f \in facts PROVE f.what = "version" /\ Market!Holds(mem', f)
    OBVIOUS
  <2>2. f.what = "version" /\ f.art = a /\ f.version = v /\ f.digest = c
    OBVIOUS
  <2>q. QED BY <1>6, <2>2 DEF Market!Holds
<1>q. QED BY <1>1, <1>5, <1>7, <1>8, MemBefore, FlushKept DEF FactKinds

\* What a download of an artifact stands for in a search.
LEMMA CountedOnce ==
    ASSUME NEW d, NEW b, NEW p
    PROVE  p \in Market!Downloads(d, b)
             <=> \E z \in d.versions : z.art = b /\ \E i \in 1..z.downloads : p = <<z.version, i>>
BY DEF Market!Downloads

\* One more download of a version, one more event.
LEMMA RecordDownloadKept ==
    ASSUME MarketInv, NEW x \in mem.versions, NEW ok \in BOOLEAN, Market!RecordDownload(x, ok)
    PROVE  MarketInv'
<1> DEFINE k == x.downloads + 1
           y == [x EXCEPT !.downloads = k]
           ev == [n |-> Market!Id, art |-> x.art, version |-> x.version]
           d == [mem EXCEPT !.versions = (@ \ {x}) \cup {y}, !.events = @ \cup {ev}]
           facts == {[what |-> "download", art |-> x.art, version |-> x.version, n |-> Market!Id]}
<1>1. writes < MaxWrites /\ writes' = writes + 1 /\ Market!Flush(d, facts, ok)
  BY DEF Market!RecordDownload, Market!Counted
<1>2. mem' = d
  BY <1>1 DEF Market!Flush
<1>3. /\ x \in Market!Published /\ x.art \in Artifact /\ x.downloads \in Nat /\ x.downloads <= writes
      /\ k \in 0..MaxWrites /\ k \in Nat /\ k <= writes'
  BY <1>1, MemBefore DEF Market!Published, DataKept
<1>4. /\ y \in Market!Published /\ y.art = x.art /\ y.version = x.version /\ y.digest = x.digest
      /\ y.downloads = k
  <2> HIDE DEF k
  <2>q. QED BY <1>3 DEF Market!Published
<1>5. ev \in Market!Event /\ ev.art = x.art /\ ev.version = x.version /\ ev.n = writes'
  BY <1>1, <1>3, MemBefore DEF Market!Event, Market!Id, Market!Published
<1>6. \A f \in facts : f.what = "download" /\ [n |-> f.n, art |-> f.art, version |-> f.version] = ev
  <2>1. SUFFICES ASSUME NEW f \in facts
                 PROVE  f.what = "download" /\ [n |-> f.n, art |-> f.art, version |-> f.version] = ev
    OBVIOUS
  <2>2. f.what = "download" /\ f.n = Market!Id /\ f.art = x.art /\ f.version = x.version
    OBVIOUS
  <2>q. QED BY <2>2
<1> HIDE DEF y, ev
<1>7. /\ mem' \in Market!Data /\ mem'.versions = (mem.versions \ {x}) \cup {y} /\ mem'.tier = mem.tier
      /\ mem'.events = mem.events \cup {ev} /\ mem'.ratings = mem.ratings
      /\ mem'.advisories = mem.advisories /\ mem'.artifacts = mem.artifacts
  BY <1>2, <1>4, <1>5, MemBefore DEF Market!Data
<1>8. Market!WellFormed(mem')
  <2>1. \A z, w \in mem'.versions : z.art = w.art /\ z.version = w.version => z = w
    BY <1>4, <1>7, MemBefore DEF Market!WellFormed
  <2>2. \A e \in mem'.events : \E z \in mem'.versions : z.art = e.art /\ z.version = e.version
    <3>1. SUFFICES ASSUME NEW e \in mem'.events PROVE \E z \in mem'.versions : z.art = e.art /\ z.version = e.version
      OBVIOUS
    <3>2. PICK z \in mem.versions : z.art = e.art /\ z.version = e.version
      BY <1>5, <1>7, MemBefore DEF Market!WellFormed
    <3>q. QED BY <1>4, <1>7, <3>2
  <2>3. \A z \in mem'.versions \cup mem'.ratings \cup mem'.advisories : z.art \in mem'.artifacts
    BY <1>4, <1>7, MemBefore DEF Market!WellFormed
  <2>q. QED BY <1>7, <2>1, <2>2, <2>3, MemBefore DEF Market!WellFormed
<1>9. \A b \in Artifact : Agrees(mem', b)
  <2>1. SUFFICES ASSUME NEW b \in Artifact PROVE Agrees(mem', b)
    OBVIOUS
  <2>2. Agrees(mem, b)
    BY MemBefore DEF DataKept
  <2>3. CASE b # x.art
    <3>1. Market!Downloads(mem', b) = Market!Downloads(mem, b) /\ Market!Events(mem', b) = Market!Events(mem, b)
      BY <1>4, <1>5, <1>7, <2>3 DEF Market!Downloads, Market!Events
    <3>q. QED BY <2>2, <3>1 DEF Agrees
  <2>4. CASE b = x.art
    <3>1. Market!Events(mem', b) = Market!Events(mem, b) \cup {ev} /\ ev \notin Market!Events(mem, b)
      <4>1. ev \notin mem.events
        BY <1>1, <1>5, MemBefore DEF DataKept
      <4>q. QED BY <1>5, <1>7, <2>4, <4>1 DEF Market!Events
    <3>2. Market!Downloads(mem', b) = Market!Downloads(mem, b) \cup {<<x.version, k>>}
      <4>1. ASSUME NEW p \in Market!Downloads(mem', b) PROVE p \in Market!Downloads(mem, b) \cup {<<x.version, k>>}
        <5>0. PICK z \in mem'.versions : z.art = b /\ \E i \in 1..z.downloads : p = <<z.version, i>>
          BY <4>1, CountedOnce
        <5>1. PICK i \in 1..z.downloads : p = <<z.version, i>>
          BY <5>0
        <5>2. CASE z = y
          <6>1. i \in 1..k
            BY <1>4, <5>1, <5>2
          <6>2. i \in 1..x.downloads \/ i = k
            BY <1>3, <6>1
          <6>q. QED BY <1>4, <2>4, <5>0, <5>1, <5>2, <6>2, CountedOnce
        <5>3. CASE z # y
          BY <1>7, <5>0, <5>1, <5>3, CountedOnce
        <5>q. QED BY <5>2, <5>3
      <4>2. ASSUME NEW p \in Market!Downloads(mem, b) PROVE p \in Market!Downloads(mem', b)
        <5>0. PICK z \in mem.versions : z.art = b /\ \E i \in 1..z.downloads : p = <<z.version, i>>
          BY <4>2, CountedOnce
        <5>1. PICK i \in 1..z.downloads : p = <<z.version, i>>
          BY <5>0
        <5>2. CASE z = x
          <6>1. i \in 1..k
            BY <1>3, <5>1, <5>2
          <6>2. y \in mem'.versions /\ i \in 1..y.downloads /\ y.art = b /\ p = <<y.version, i>>
            BY <1>4, <1>7, <2>4, <5>0, <5>1, <5>2, <6>1
          <6>q. QED BY <6>2, CountedOnce
        <5>3. CASE z # x
          BY <1>7, <5>0, <5>1, <5>3, CountedOnce
        <5>q. QED BY <5>2, <5>3
      <4>3. <<x.version, k>> \in Market!Downloads(mem', b)
        <5>1. y \in mem'.versions /\ k \in 1..y.downloads /\ y.art = b /\ y.version = x.version
          BY <1>3, <1>4, <1>7, <2>4
        <5>q. QED BY <5>1, CountedOnce
      <4>q. QED BY <4>1, <4>2, <4>3
    <3>3. <<x.version, k>> \notin Market!Downloads(mem, b)
      <4>1. SUFFICES ASSUME <<x.version, k>> \in Market!Downloads(mem, b) PROVE FALSE
        OBVIOUS
      <4>0. PICK z \in mem.versions : z.art = b /\ \E i \in 1..z.downloads : <<x.version, k>> = <<z.version, i>>
        BY <4>1, CountedOnce
      <4>2. PICK i \in 1..z.downloads : <<x.version, k>> = <<z.version, i>>
        BY <4>0
      <4>3. z = x
        BY <2>4, <4>0, <4>2, MemBefore DEF Market!WellFormed
      <4>q. QED BY <1>3, <4>2, <4>3
    <3>4. /\ IsFiniteSet(Market!Events(mem', b)) /\ IsFiniteSet(Market!Downloads(mem', b))
          /\ Cardinality(Market!Events(mem', b)) = Cardinality(Market!Events(mem, b)) + 1
          /\ Cardinality(Market!Downloads(mem', b)) = Cardinality(Market!Downloads(mem, b)) + 1
      <4> HIDE DEF k
      <4>q. QED BY <2>2, <3>1, <3>2, <3>3, FS_AddElement DEF Agrees
    <3>q. QED BY <2>2, <3>4 DEF Agrees
  <2>q. QED BY <2>3, <2>4
<1>10. DataKept(mem', writes')
  <2>1. \A z \in mem'.versions : z.downloads <= writes'
    BY <1>3, <1>4, <1>7, OlderKept, <1>1
  <2>2. \A e \in mem'.events : e.n <= writes'
    BY <1>1, <1>5, <1>7, OlderKept, MemBefore
  <2>q. QED BY <1>1, <1>7, <1>8, <1>9, <2>1, <2>2, OlderKept DEF DataKept
<1>11. Grows(mem, mem')
  <2>1. \A b, w : Market!Resolve(mem', b, w) = Market!Resolve(mem, b, w)
    BY <1>4, <1>7 DEF Market!Resolve
  <2>q. QED BY <1>7, <2>1 DEF Grows
<1>12. \A f \in facts : f.what = "download" /\ Market!Holds(mem', f)
  <2>1. SUFFICES ASSUME NEW f \in facts PROVE f.what = "download" /\ Market!Holds(mem', f)
    OBVIOUS
  <2>2. f.what = "download" /\ [n |-> f.n, art |-> f.art, version |-> f.version] = ev
    BY <1>6
  <2>q. QED BY <1>7, <2>2 DEF Market!Holds
<1> HIDE DEF facts
<1>q. QED BY <1>1, <1>10, <1>11, <1>12, MemBefore, FlushKept DEF FactKinds

\* Ratings that change, while nothing else does.
LEMMA RatingsKept ==
    ASSUME MarketInv, writes < MaxWrites, writes' = writes + 1, NEW ok \in BOOLEAN, NEW a \in mem.artifacts, NEW u \in User,
           NEW ratings, ratings \subseteq Market!Rating,
           \A r \in ratings : RatingKept(r, writes') /\ (r \in mem.ratings \/ (r.art = a /\ r.user = u)),
           \A r, s \in ratings : r.art = s.art /\ r.user = s.user => r = s,
           \A r \in mem.ratings : \E s \in ratings : s.art = r.art /\ s.user = r.user /\ r.cast \subseteq s.cast,
           NEW facts, \A f \in facts : f.what \in FactKinds \ {"tier"} /\ Market!Holds([mem EXCEPT !.ratings = ratings], f),
           Market!Flush([mem EXCEPT !.ratings = ratings], facts, ok)
    PROVE  MarketInv'
<1> DEFINE d == [mem EXCEPT !.ratings = ratings]
<1>1. mem' = d
  BY DEF Market!Flush
<1>2. /\ mem' \in Market!Data /\ mem'.ratings = ratings /\ mem'.tier = mem.tier
      /\ mem'.versions = mem.versions /\ mem'.events = mem.events
      /\ mem'.advisories = mem.advisories /\ mem'.artifacts = mem.artifacts
  BY <1>1, MemBefore DEF Market!Data
<1>3. Market!WellFormed(mem')
  <2>1. \A r \in ratings : r.art \in mem.artifacts
    BY MemBefore DEF Market!WellFormed
  <2>q. QED BY <1>2, <2>1, MemBefore DEF Market!WellFormed
<1>4. DataKept(mem', writes')
  BY <1>2, <1>3, MemBefore, CountsStill, OlderKept DEF DataKept
<1>5. Grows(mem, mem')
  BY <1>2 DEF Grows, Market!Resolve
<1>6. \A f \in facts : f.what \in FactKinds /\ f.what # "tier" /\ Market!Holds(mem', f)
  BY <1>1
<1> HIDE DEF d
<1>q. QED BY <1>1, <1>4, <1>5, <1>6, MemBefore, FlushKept

LEMMA SubmitRatingKept ==
    ASSUME MarketInv, NEW u \in User, NEW a \in Artifact, NEW s \in Score, NEW ok \in BOOLEAN,
           Market!SubmitRating(u, a, s, ok)
    PROVE  MarketInv'
<1> DEFINE new == [id |-> Market!Id, art |-> a, user |-> u, score |-> s, helpful |-> 0, voters |-> {}, cast |-> {}]
           kept == IF Market!Mine(a, u) = {} THEN {new} ELSE {Market!Renewed(r, new) : r \in Market!Mine(a, u)}
           ratings == (mem.ratings \ Market!Mine(a, u)) \cup kept
           facts == {[what |-> "rating", art |-> a, user |-> u]}
<1>1. /\ writes < MaxWrites /\ writes' = writes + 1 /\ a \in mem.artifacts
      /\ Market!Flush([mem EXCEPT !.ratings = ratings], facts, ok)
  BY DEF Market!SubmitRating, Market!Write
<1>2. /\ writes \in Nat /\ MaxWrites \in Nat /\ Market!Id = writes' /\ Market!Id \in 1..MaxWrites /\ 0 \in 0..MaxWrites
  BY <1>1, MemBefore DEF Market!Id
<1>3. /\ new \in Market!Rating /\ new.id = writes' /\ new.art = a /\ new.user = u /\ new.helpful = 0
      /\ new.voters = {} /\ new.cast = {}
  BY <1>2 DEF Market!Rating
<1>4. \A f \in facts : f.what = "rating" /\ f.art = a /\ f.user = u
  OBVIOUS
<1> HIDE DEF new, facts
\* What replaces the author's rating.
<1>5. \A r \in Market!Mine(a, u) :
        /\ Market!Renewed(r, new) \in Market!Rating /\ Market!Renewed(r, new).id = writes'
        /\ Market!Renewed(r, new).art = a /\ Market!Renewed(r, new).user = u
        /\ Market!Renewed(r, new).helpful = r.helpful /\ Market!Renewed(r, new).voters = {}
        /\ Market!Renewed(r, new).cast = r.cast
  <2>1. SUFFICES ASSUME NEW r \in Market!Rating
                 PROVE  LET x == Market!Renewed(r, new)
                        IN  /\ x \in Market!Rating /\ x.id = writes' /\ x.art = a /\ x.user = u
                            /\ x.helpful = r.helpful /\ x.voters = {} /\ x.cast = r.cast
    BY MemBefore DEF Market!Mine
  <2>2. r.helpful \in 0..MaxWrites /\ r.cast \in SUBSET ((1..MaxWrites) \X User)
    BY DEF Market!Rating
  <2>q. QED BY <1>3, <2>2 DEF Market!Renewed, Market!Rating
<1>6. \A r \in kept : r \in Market!Rating /\ r.id = writes' /\ r.art = a /\ r.user = u /\ r.voters = {}
  BY <1>3, <1>5
<1>7. \A r \in kept : RatingKept(r, writes')
  <2>1. SUFFICES ASSUME NEW r \in kept PROVE RatingKept(r, writes')
    OBVIOUS
  <2>2. CASE Market!Mine(a, u) = {}
    BY <1>2, <1>3, <2>2, SameSize, FS_EmptySet DEF RatingKept
  <2>3. CASE Market!Mine(a, u) # {}
    <3>1. PICK o \in Market!Mine(a, u) : r = Market!Renewed(o, new)
      BY <2>3
    <3>2. RatingKept(o, writes) /\ o \in Market!Rating
      BY MemBefore DEF Market!Mine, DataKept
    <3>3. \A v \in User : <<writes', v>> \notin o.cast
      BY <1>1, <1>2, <3>2 DEF RatingKept
    <3>4. o.helpful \in Nat /\ \A c \in o.cast : c[1] \in Nat
      BY <3>2 DEF Market!Rating
    <3>5. /\ r.id = writes' /\ r.helpful = o.helpful /\ r.voters = {} /\ r.cast = o.cast
      BY <1>5, <3>1
    <3>6. r.voters = {v \in User : <<r.id, v>> \in r.cast}
      BY <3>3, <3>5
    <3>q. QED BY <1>1, <1>2, <3>2, <3>4, <3>5, <3>6 DEF RatingKept
  <2>q. QED BY <2>2, <2>3
<1>8. \A r, t \in kept : r = t
  <2>1. \A r, t \in Market!Mine(a, u) : r = t
    BY MemBefore DEF Market!Mine, Market!WellFormed
  <2>q. QED BY <2>1
<1>9. kept # {}
  OBVIOUS
<1>10. \A r \in mem.ratings : \E t \in ratings : t.art = r.art /\ t.user = r.user /\ r.cast \subseteq t.cast
  <2>1. SUFFICES ASSUME NEW r \in mem.ratings
                 PROVE  \E t \in ratings : t.art = r.art /\ t.user = r.user /\ r.cast \subseteq t.cast
    OBVIOUS
  <2>2. CASE r \in Market!Mine(a, u)
    <3>1. Market!Renewed(r, new) \in ratings
      BY <2>2
    <3>q. QED BY <1>5, <2>2, <3>1 DEF Market!Mine
  <2>3. CASE r \notin Market!Mine(a, u)
    BY <2>3
  <2>q. QED BY <2>2, <2>3
<1> HIDE DEF kept
<1>11. /\ ratings \subseteq Market!Rating
       /\ \A r \in ratings : RatingKept(r, writes') /\ (r \in mem.ratings \/ (r.art = a /\ r.user = u))
  BY <1>1, <1>6, <1>7, MemBefore, OlderKept
<1>12. \A r, t \in ratings : r.art = t.art /\ r.user = t.user => r = t
  BY <1>6, <1>8, MemBefore DEF Market!Mine, Market!WellFormed
<1>13. \E r \in ratings : r.art = a /\ r.user = u
  BY <1>6, <1>9
<1> HIDE DEF ratings
<1>14. \A f \in facts : f.what \in FactKinds \ {"tier"} /\ Market!Holds([mem EXCEPT !.ratings = ratings], f)
  <2>1. [mem EXCEPT !.ratings = ratings].ratings = ratings
    BY MemBefore DEF Market!Data
  <2>q. QED BY <1>4, <1>13, <2>1 DEF Market!Holds, FactKinds
<1>q. QED BY <1>1, <1>10, <1>11, <1>12, <1>14, RatingsKept

LEMMA RatingHelpfulKept ==
    ASSUME MarketInv, NEW u \in User, NEW id \in 1..MaxWrites, NEW ok \in BOOLEAN, Market!RatingHelpful(u, id, ok)
    PROVE  MarketInv'
<1>0. PICK r \in mem.ratings :
        /\ writes < MaxWrites /\ writes' = writes + 1 /\ r.id = id /\ u \notin r.voters
        /\ Market!Flush([mem EXCEPT !.ratings = (@ \ {r}) \cup
                 {[r EXCEPT !.helpful = @ + 1, !.voters = @ \cup {u}, !.cast = @ \cup {<<id, u>>}]}],
               {[what |-> "vote", art |-> r.art, user |-> r.user, id |-> id, voter |-> u]}, ok)
  BY Zenon DEF Market!RatingHelpful, Market!Write, Market!MayVote
<1>1. writes < MaxWrites /\ writes' = writes + 1 /\ r.id = id /\ u \notin r.voters
  BY Zenon, <1>0
<1> DEFINE h == r.helpful + 1
           vs == r.voters \cup {u}
           cs == r.cast \cup {<<id, u>>}
           x == [r EXCEPT !.helpful = h, !.voters = vs, !.cast = cs]
           ratings == (mem.ratings \ {r}) \cup {x}
           facts == {[what |-> "vote", art |-> r.art, user |-> r.user, id |-> id, voter |-> u]}
<1>2. Market!Flush([mem EXCEPT !.ratings = ratings], facts, ok)
  BY <1>0, MemBefore DEF Market!Rating, Market!Data
<1>3. /\ r \in Market!Rating /\ RatingKept(r, writes) /\ r.art \in mem.artifacts /\ r.user \in User
      /\ r.helpful \in 0..MaxWrites /\ r.voters \subseteq User /\ r.cast \subseteq (1..MaxWrites) \X User
      /\ r.helpful <= writes /\ writes \in Nat /\ MaxWrites \in Nat
  BY MemBefore DEF Market!Rating, DataKept, RatingKept, Market!WellFormed
<1>4. h \in 0..MaxWrites /\ h = r.helpful + 1 /\ h <= writes'
  BY <1>1, <1>3
<1>5. vs \subseteq User /\ cs \subseteq (1..MaxWrites) \X User
  BY <1>3
<1>6. \A f \in facts : f.what = "vote" /\ f.art = r.art /\ f.user = r.user /\ f.id = id /\ f.voter = u
  OBVIOUS
<1> HIDE DEF h, facts
<1>7. /\ IsFiniteSet(cs) /\ Cardinality(cs) = h
      /\ vs = {v \in User : <<id, v>> \in cs} /\ \A c \in cs : c[1] <= writes'
  <2>1. <<id, u>> \notin r.cast
    BY <1>1, <1>3 DEF RatingKept
  <2>2. IsFiniteSet(r.cast) /\ Cardinality(r.cast) = r.helpful /\ r.voters = {v \in User : <<id, v>> \in r.cast}
    BY <1>1, <1>3, SameSize DEF RatingKept
  <2>3. IsFiniteSet(cs) /\ Cardinality(cs) = h
    BY <1>4, <2>1, <2>2, FS_AddElement
  <2>4. id <= writes /\ \A c \in r.cast : c[1] <= writes /\ c[1] \in Nat
    BY <1>1, <1>3 DEF RatingKept
  <2>5. \A c \in cs : c[1] <= writes'
    BY <1>1, <1>3, <2>4
  <2>q. QED BY <2>2, <2>3, <2>5
<1>8. r.cast \subseteq cs /\ <<id, u>> \in cs
  OBVIOUS
<1> HIDE DEF vs, cs
<1>9. /\ x \in Market!Rating /\ x.id = id /\ x.art = r.art /\ x.user = r.user /\ x.helpful = h
      /\ x.voters = vs /\ x.cast = cs
  BY <1>1, <1>3, <1>4, <1>5 DEF Market!Rating
<1> HIDE DEF x
<1>10. RatingKept(x, writes')
  <2>1. id <= writes'
    BY <1>1, <1>3 DEF RatingKept
  <2>q. QED BY <1>4, <1>7, <1>9, <2>1, SameSize DEF RatingKept
<1>11. /\ ratings \subseteq Market!Rating
       /\ \A t \in ratings : RatingKept(t, writes') /\ (t \in mem.ratings \/ (t.art = r.art /\ t.user = r.user))
  BY <1>1, <1>9, <1>10, MemBefore, OlderKept
<1>12. \A s, t \in ratings : s.art = t.art /\ s.user = t.user => s = t
  BY <1>9, MemBefore DEF Market!WellFormed
<1>13. \A s \in mem.ratings : \E t \in ratings : t.art = s.art /\ t.user = s.user /\ s.cast \subseteq t.cast
  BY <1>8, <1>9
<1>14. x \in ratings
  OBVIOUS
<1> HIDE DEF ratings
<1>15. \A f \in facts : f.what \in FactKinds \ {"tier"} /\ Market!Holds([mem EXCEPT !.ratings = ratings], f)
  <2>1. [mem EXCEPT !.ratings = ratings].ratings = ratings
    BY MemBefore DEF Market!Data
  <2>q. QED BY <1>6, <1>8, <1>9, <1>14, <2>1 DEF Market!Holds, FactKinds
<1>q. QED BY <1>1, <1>2, <1>3, <1>11, <1>12, <1>13, <1>15, RatingsKept

\* Starts and ends: the data is that of the file, or that of memory.
LEMMA StartKept == ASSUME MarketInv, NEW ok \in BOOLEAN, Market!Start(ok) PROVE MarketInv'
<1> DEFINE d == [stored EXCEPT !.publishers = User]
<1>1. /\ mem' = d /\ stored' = (IF ok THEN d ELSE stored) /\ serving' = TRUE /\ heard' = heard /\ writes' = writes
  BY DEF Market!Start
<1>2. DataKept(stored, writes) /\ stored \in Market!Data
  BY DEF MarketInv, DataKept
<1>3. /\ d \in Market!Data /\ d.artifacts = stored.artifacts /\ d.tier = stored.tier /\ d.versions = stored.versions
      /\ d.ratings = stored.ratings /\ d.events = stored.events /\ d.advisories = stored.advisories
  BY <1>2 DEF Market!Data
<1> HIDE DEF d
<1>4. DataKept(d, writes)
  <2>1. \A a \in Artifact : Agrees(d, a)
    BY <1>2, <1>3 DEF DataKept, Agrees, Market!Events, Market!Downloads
  <2>q. QED BY <1>2, <1>3, <2>1 DEF DataKept, Market!WellFormed
<1>5. Grows(stored, d)
  BY <1>3 DEF Grows, Market!Resolve
<1>6. \A f \in heard : f.what \in FactKinds /\ (f.what = "tier" => f.user \in User) /\ Market!Holds(stored, f)
  BY DEF MarketInv, HeardKept
<1>7. \A f \in heard : Market!Holds(d, f)
  BY <1>5, <1>6, HoldsStill
<1>8. DataKept(mem', writes') /\ DataKept(stored', writes')
  BY <1>1, <1>2, <1>4
<1>9. HeardKept'
  BY <1>1, <1>6, <1>7 DEF HeardKept
<1>q. QED BY <1>1, <1>8, <1>9 DEF MarketInv

LEMMA CrashKept == ASSUME MarketInv, Market!Crash PROVE MarketInv'
<1>1. mem' = stored /\ stored' = stored /\ serving' = FALSE /\ heard' = heard /\ writes' = writes
  BY DEF Market!Crash
<1>q. QED BY <1>1 DEF MarketInv, HeardKept

LEMMA StopKept == ASSUME MarketInv, NEW ok \in BOOLEAN, Market!Stop(ok) PROVE MarketInv'
<1>1. /\ stored' = (IF ok THEN mem ELSE stored) /\ mem' = stored' /\ serving' = FALSE
      /\ heard' = heard /\ writes' = writes
  BY DEF Market!Stop
<1>q. QED BY <1>1 DEF MarketInv, HeardKept

LEMMA MarketInit == ASSUME Market!Init PROVE MarketInv
<1>1. /\ mem = Market!NoData /\ stored = Market!NoData /\ serving = FALSE /\ heard = {} /\ writes = 0
  BY DEF Market!Init
<1>2. /\ Market!NoData \in Market!Data /\ Market!NoData.versions = {} /\ Market!NoData.ratings = {}
      /\ Market!NoData.events = {} /\ Market!NoData.advisories = {}
  BY DEF Market!NoData, Market!Data
<1>3. Market!WellFormed(Market!NoData)
  BY <1>2 DEF Market!WellFormed
<1>4. \A a \in Artifact : Agrees(Market!NoData, a)
  <2>1. \A a \in Artifact : Market!Events(Market!NoData, a) = {} /\ Market!Downloads(Market!NoData, a) = {}
    BY <1>2 DEF Market!Events, Market!Downloads
  <2>q. QED BY <2>1, FS_EmptySet DEF Agrees
<1>5. DataKept(Market!NoData, 0)
  BY <1>2, <1>3, <1>4 DEF DataKept
<1>6. DataKept(mem, writes) /\ DataKept(stored, writes)
  BY <1>1, <1>5
<1>7. HeardKept
  BY <1>1 DEF HeardKept
<1>8. MaxWrites \in Nat
  BY MarketAssumption
<1>9. serving \in BOOLEAN
  BY Zenon, <1>1
<1>10. writes = 0
  BY <1>1
<1>11. writes \in 0..MaxWrites
  BY <1>8, <1>10
<1>q. QED BY <1>6, <1>7, <1>9, <1>11 DEF MarketInv

LEMMA MarketStep == ASSUME MarketInv, [Market!Next]_marketVars PROVE MarketInv'
<1>1. ASSUME NEW ok \in BOOLEAN, Market!Handle(ok) PROVE MarketInv'
  BY <1>1, VerifyRequestKept, RatingHelpfulKept, RegisterPluginKept, CreateAdvisoryKept, SubmitRatingKept,
     RegisterVersionKept, RecordDownloadKept DEF Market!Handle
<1>2. CASE Market!Next
  BY <1>1, <1>2, CrashKept, StartKept, StopKept DEF Market!Next
<1>3. CASE UNCHANGED marketVars
  BY <1>3 DEF marketVars, MarketInv, HeardKept
<1>q. QED BY <1>2, <1>3

\* Votes that all went to one edition are as many as their voters.
LEMMA OneEach ==
    ASSUME NEW id, NEW cast \in SUBSET ({id} \X User), IsFiniteSet(cast)
    PROVE  Cardinality({u \in User : <<id, u>> \in cast}) = Cardinality(cast)
<1> DEFINE voters == {u \in User : <<id, u>> \in cast}
           f == [vote \in cast |-> vote[2]]
<1>1. \A vote \in cast : vote = <<id, vote[2]>> /\ vote[2] \in voters
  OBVIOUS
<1>2. \A u \in voters : <<id, u>> \in cast /\ <<id, u>>[2] = u
  OBVIOUS
<1>3. f \in Injection(cast, voters)
  BY <1>1 DEF Injection, IsInjective
<1>4. f \in Surjection(cast, voters)
  BY <1>1, <1>2 DEF Surjection
<1>5. ExistsBijection(cast, voters)
  BY <1>3, <1>4 DEF ExistsBijection, Bijection
<1>q. QED BY <1>5, FS_Bijection

LEMMA MarketSafe == ASSUME MarketInv PROVE MarketConsistent
<1>1. ASSUME NEW d, DataKept(d, writes)
      PROVE  /\ \A a \in Artifact : Market!OnPage(d, a) = Market!InSearch(d, a)
             /\ \A r \in d.ratings :
                   /\ r.helpful = Market!Cardinality(r.cast)
                   /\ r.voters = {u \in User : <<r.id, u>> \in r.cast}
                   /\ (\A vote \in r.cast : vote[1] = r.id) => r.helpful = Market!Cardinality(r.voters)
  <2>1. /\ \A a \in Artifact : Market!OnPage(d, a) = Market!InSearch(d, a)
        /\ \A r \in d.ratings : /\ r.helpful = Market!Cardinality(r.cast)
                                /\ r.voters = {u \in User : <<r.id, u>> \in r.cast}
    BY <1>1, SameSize DEF DataKept, Agrees, RatingKept, Market!OnPage, Market!InSearch
  <2>2. ASSUME NEW r \in d.ratings, \A vote \in r.cast : vote[1] = r.id
        PROVE  r.helpful = Market!Cardinality(r.voters)
    <3>1. IsFiniteSet(r.cast) /\ r.cast \subseteq (1..MaxWrites) \X User
      BY <1>1, <2>2 DEF DataKept, RatingKept, Market!Data, Market!Rating
    <3>2. r.cast \in SUBSET ({r.id} \X User)
      BY <2>2, <3>1
    <3>3. Cardinality({u \in User : <<r.id, u>> \in r.cast}) = Cardinality(r.cast)
      BY <3>1, <3>2, OneEach
    <3>4. r.helpful = Market!Cardinality(r.cast) /\ r.voters = {u \in User : <<r.id, u>> \in r.cast}
      BY <2>1, <2>2
    <3>q. QED BY <3>3, <3>4, SameSize
  <2>3. \A r \in d.ratings : (\A vote \in r.cast : vote[1] = r.id) => r.helpful = Market!Cardinality(r.voters)
    BY <2>2
  <2>4. ASSUME NEW r \in d.ratings
        PROVE  /\ r.helpful = Market!Cardinality(r.cast)
               /\ r.voters = {u \in User : <<r.id, u>> \in r.cast}
               /\ (\A vote \in r.cast : vote[1] = r.id) => r.helpful = Market!Cardinality(r.voters)
    <3>1. (\A vote \in r.cast : vote[1] = r.id) => r.helpful = Market!Cardinality(r.voters)
      BY <2>3, Zenon
    <3>q. QED BY <2>1, <3>1
  <2>q. QED BY <2>1, <2>4
<1>2. DataKept(mem, writes) /\ DataKept(stored, writes)
  BY DEF MarketInv
<1>3. Market!CountersAgree /\ Market!VotesAddUp
  BY <1>1, <1>2 DEF Market!CountersAgree, Market!VotesAddUp
<1>q. QED BY <1>2, <1>3 DEF MarketInv, DataKept, HeardKept, MarketConsistent, Market!TypeOK, Market!AnsweredStays

-----------------------------------------------------------------------------
SharingInv == MirrorInv /\ MarketInv

LEMMA SharingInvariant == ServersSpec => []SharingInv
<1>1. ServersInit => SharingInv
  BY MirrorInit, MarketInit DEF ServersInit, SharingInv
<1>2. SharingInv /\ [ServersNext]_<<server, mirrorVars, marketVars>> => SharingInv'
  <2>1. SUFFICES ASSUME SharingInv, [ServersNext]_<<server, mirrorVars, marketVars>> PROVE SharingInv'
    OBVIOUS
  <2>2. [Mirrors!Next]_mirrorVars /\ [Market!Next]_marketVars
    BY <2>1 DEF ServersNext
  <2>q. QED BY <2>1, <2>2, MirrorStep, MarketStep DEF SharingInv
<1>q. QED BY <1>1, <1>2, PTL DEF ServersSpec

(* The servers keep what they took.  The mirror holds whatever it has       *)
(* pulled, stores a tag after the manifest it names, serves a digest with   *)
(* the contents of that digest unless the upstream once sent something else *)
(* under it, asks the policy of the moment for all search results that      *)
(* parse, and holds the whole of what an import brought.  The marketplace   *)
(* keeps what a client was told is stored, counts downloads in two ways to  *)
(* one number, and counts the votes it took, one per voter as long as the   *)
(* author does not edit; across failed writes, crashes and restarts, for    *)
(* any number of requests, tags, plugins and users.                         *)
THEOREM SharingSafe == ServersSpec => []SharingConsistent
<1>1. SharingInv => SharingConsistent
  BY MarketSafe DEF SharingInv, MirrorInv, SharingConsistent
<1>q. QED BY <1>1, SharingInvariant, PTL

(* What the mirror answers as fresh, the upstream said no longer ago than a *)
(* time to live and two timeouts, whatever the times to live and the        *)
(* timeout are.                                                             *)
THEOREM FreshIsRecent == ServersSpec => []FreshAnswers
<1>1. SharingInv => FreshAnswers
  BY DEF SharingInv, MirrorInv
<1>q. QED BY <1>1, SharingInvariant, PTL

===========================================================================

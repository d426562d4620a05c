------------------------- MODULE ExportRollbackProofs -------------------------
(***************************************************************************)
(* Theorems about ExportRollback, for any number of files and contents;     *)
(* about the verdict of Drift, for any templates, outputs and texts; and     *)
(* about Diffs and Numbers, for any texts, context and widths.  The lemmas   *)
(* of the last two are inductions over what is computed step by step, by the *)
(* least number of steps that would refute them.                            *)
(***************************************************************************)
EXTENDS MCOutputs, FiniteSetTheorems, TLAPS

-----------------------------------------------------------------------------
(* Types.                                                                  *)

LEMMA InitTypeOK == Init => TypeOK
BY DEF Init, TypeOK, Contents, Lists, Places, Empty

LEMMA StepTypeOK == TypeOK /\ [Next]_vars => TypeOK'
<1> SUFFICES ASSUME TypeOK, [Next]_vars PROVE TypeOK'
  OBVIOUS
<1> USE DEF TypeOK, Contents, Lists, Places, snapshot, locals, last, Goto
<1>leave. ASSUME Leave PROVE outputs' \subseteq Files /\ todo' \subseteq Files
                             /\ cur' \in Files \cup {Nothing} /\ list' \in Lists /\ pc' \in Places
  BY <1>leave DEF Leave, Empty
<1>1. CASE RemoveOne
  BY <1>1 DEF RemoveOne
<1>2. CASE Cleared
  BY <1>2 DEF Cleared
<1>3. CASE CopyWrite
  <2>1. cur \in Files => disk[cur] \in Contents
    OBVIOUS
  <2> QED BY <1>3, <2>1 DEF CopyWrite
<1>4. CASE ManifestOpen
  BY <1>4 DEF ManifestOpen
<1>5. CASE ManifestWrite
  BY <1>5 DEF ManifestWrite, Entries
<1>6. CASE SnapshotFails
  BY <1>6 DEF SnapshotFails
<1>7. CASE Finish \/ RollbackEnds \/ Stop
  BY <1>7, <1>leave DEF Finish, RollbackEnds, Stop
<1>8. CASE RollbackBegin
  BY <1>8 DEF RollbackBegin, Listed
<1>9. CASE RestoreWrite
  BY <1>9 DEF RestoreWrite
<1>10. CASE Restored
  BY <1>10 DEF Restored
<1>11. CASE \E kind \in Kinds, F \in SUBSET Files \ {{}} : Begin(kind, F)
  BY <1>11 DEF Begin
<1>12. CASE \E f \in Files : ListNew(f)
  BY <1>12 DEF ListNew
<1>13. CASE \E f \in Files : CopyOpen(f)
  BY <1>13 DEF CopyOpen
<1>14. CASE \E f \in Files : RemoveNew(f)
  BY <1>14 DEF RemoveNew
<1>15. CASE \E f \in Files : RestoreOpen(f)
  BY <1>15 DEF RestoreOpen
<1>16. CASE \E f \in Files, c \in Texts : WriteOutput(f, c)
  BY <1>16 DEF WriteOutput
<1>17. CASE \E f \in Files, c \in Texts \cup {Missing} : Edit(f, c)
  BY <1>17 DEF Edit
<1>18. CASE UNCHANGED vars
  BY <1>18 DEF vars
<1> QED BY <1>1, <1>2, <1>3, <1>4, <1>5, <1>6, <1>7, <1>8, <1>9, <1>10, <1>11, <1>12,
           <1>13, <1>14, <1>15, <1>16, <1>17, <1>18 DEF Next

\* No operation leaves an output, a backup or a manifest in a form that the
\* others do not know.
THEOREM TypeCorrect == Spec => []TypeOK
BY InitTypeOK, StepTypeOK, PTL DEF Spec

-----------------------------------------------------------------------------
(* A snapshot in the making agrees with the files, and one that is made    *)
(* with what the files were, entry by entry, as far as it is still there.  *)

Making == {"backup", "copying", "listing"}

\* Nothing stands in for a manifest before all the backups are complete.
NoManifestYet ==
    /\ pc \in {"backup", "copying"} => manifest = Missing
    /\ pc = "listing" => manifest = Torn

ListAgrees ==
    /\ pc \in {"idle", "clear"} => list = Empty
    /\ pc \in Making => \A f \in Files :
          /\ list[f] = "backed" => backup[f] = disk[f]
          /\ list[f] = "new" => disk[f] = Missing
    /\ pc \in {"backup", "copying"} => \A f \in todo : list[f] = "none"
    /\ pc = "copying" => cur \in todo

ManifestAgrees ==
    manifest \in Lists => \A f \in Files :
        /\ manifest[f] = "backed" => backup[f] \in {Missing, origin[f]}
        /\ manifest[f] = "new" => origin[f] = Missing

\* A rollback has restored what it is done with.
RestoredSoFar ==
    /\ pc \in {"restore", "putting"} =>
          manifest \in Lists /\ \A f \in Listed \ todo : disk[f] = origin[f]
    /\ pc = "putting" => cur \in todo /\ manifest[cur] = "backed" /\ backup[cur] # Missing

Inv == TypeOK /\ NoManifestYet /\ ListAgrees /\ ManifestAgrees /\ RestoredSoFar

LEMMA InitInv == Init => Inv
<1> SUFFICES ASSUME Init PROVE Inv
  OBVIOUS
<1>1. TypeOK
  BY InitTypeOK
<1>2. manifest \notin Lists
  BY ManifestAssumption DEF Init
<1> QED BY <1>1, <1>2 DEF Init, Inv, NoManifestYet, ListAgrees, ManifestAgrees, RestoredSoFar, Making

LEMMA StepInv == Inv /\ [Next]_vars => Inv'
<1> SUFFICES ASSUME Inv, [Next]_vars PROVE Inv'
  OBVIOUS
<1>0. TypeOK /\ TypeOK'
  BY StepTypeOK DEF Inv
<1>m. Missing \notin Lists /\ Torn \notin Lists
  BY ManifestAssumption
<1> USE <1>m DEF Inv, NoManifestYet, ListAgrees, ManifestAgrees, RestoredSoFar, Making, Listed,
                 snapshot, locals, last, Goto
<1>1. CASE RemoveOne
  BY <1>0, <1>1 DEF RemoveOne, TypeOK
<1>2. CASE Cleared
  BY <1>0, <1>2 DEF Cleared, Removed, Empty, TypeOK
<1>3. CASE CopyWrite
  BY <1>0, <1>3 DEF CopyWrite, TypeOK
<1>4. CASE ManifestOpen
  BY <1>0, <1>4 DEF ManifestOpen
<1>5. CASE ManifestWrite
  BY <1>0, <1>5 DEF ManifestWrite, Entries, TypeOK
<1>6. CASE SnapshotFails
  BY <1>0, <1>6 DEF SnapshotFails
<1>7. CASE Finish \/ RollbackEnds \/ Stop
  BY <1>0, <1>7 DEF Finish, RollbackEnds, Stop, Leave
<1>8. CASE RollbackBegin
  BY <1>0, <1>8 DEF RollbackBegin
<1>9. CASE RestoreWrite
  BY <1>0, <1>9 DEF RestoreWrite, TypeOK
<1>10. CASE Restored
  BY <1>0, <1>10 DEF Restored
<1>11. CASE \E kind \in Kinds, F \in SUBSET Files \ {{}} : Begin(kind, F)
  BY <1>0, <1>11 DEF Begin
<1>12. CASE \E f \in Files : ListNew(f)
  BY <1>0, <1>12 DEF ListNew, TypeOK, Lists
<1>13. CASE \E f \in Files : CopyOpen(f)
  BY <1>0, <1>13 DEF CopyOpen, TypeOK
<1>14. CASE \E f \in Files : RemoveNew(f)
  BY <1>0, <1>14 DEF RemoveNew, TypeOK
<1>15. CASE \E f \in Files : RestoreOpen(f)
  BY <1>0, <1>15 DEF RestoreOpen, Restorable, TypeOK
<1>16. CASE \E f \in Files, c \in Texts : WriteOutput(f, c)
  BY <1>0, <1>16 DEF WriteOutput
<1>17. CASE \E f \in Files, c \in Texts \cup {Missing} : Edit(f, c)
  BY <1>0, <1>17 DEF Edit
<1>18. CASE UNCHANGED vars
  BY <1>0, <1>18 DEF vars
<1> QED BY <1>1, <1>2, <1>3, <1>4, <1>5, <1>6, <1>7, <1>8, <1>9, <1>10, <1>11, <1>12,
           <1>13, <1>14, <1>15, <1>16, <1>17, <1>18 DEF Next

\* Whatever died, tore or failed since: a rollback that reports success has
\* restored every file of its manifest (core.Rollback).
THEOREM RollbackIsExact == Spec => RollbackRestores
<1>1. Inv /\ [Next]_vars => [RestoresOrigin]_vars
  BY DEF Inv, RestoredSoFar, RestoresOrigin, Restored, Goto
<1> QED BY <1>1, InitInv, StepInv, PTL DEF Spec, RollbackRestores

-----------------------------------------------------------------------------
(* Where every export makes a snapshot, and an old snapshot is either      *)
(* removed or the end of the export, the manifest is the last export's.    *)

OnlySnapshots == Kinds \subseteq {"all"} /\ ~RemovalFails

\* Every output is in the list that an export puts together.
ListComplete ==
    /\ pc \in Making => \A f \in outputs \ todo : list[f] # "none"
    /\ pc = "listing" => todo = {}
    /\ pc = "clear" => todo = outputs

\* A manifest that is there when outputs are written is about them all.
ManifestCovers ==
    /\ pc = "write" /\ manifest \in Lists =>
          outputs \subseteq Listed /\ (todo = outputs => disk = origin)
    /\ pc = "write" => todo \subseteq outputs

ManifestIsLast ==
    manifest \in Lists => origin = before /\ wrote \subseteq Listed

LastInv == Inv /\ ListComplete /\ ManifestCovers /\ ManifestIsLast

LEMMA InitLastInv == Init => LastInv
<1> SUFFICES ASSUME Init PROVE LastInv
  OBVIOUS
<1>1. manifest \notin Lists
  BY ManifestAssumption DEF Init
<1> QED BY <1>1, InitInv DEF Init, LastInv, ListComplete, ManifestCovers, ManifestIsLast, Making

LEMMA StepLastInv == ASSUME OnlySnapshots, LastInv, [Next]_vars PROVE LastInv'
<1>i. Inv /\ Inv'
  BY StepInv DEF LastInv
<1>0. TypeOK /\ TypeOK' /\ NoManifestYet
  BY <1>i DEF Inv
<1>m. Missing \notin Lists /\ Torn \notin Lists
  BY ManifestAssumption
<1> USE <1>m DEF ListComplete, ManifestCovers, ManifestIsLast, Making, Listed,
                 snapshot, locals, last, Goto
<1> SUFFICES (ListComplete /\ ManifestCovers /\ ManifestIsLast)'
  BY <1>i DEF LastInv
<1>h. ListComplete /\ ManifestCovers /\ ManifestIsLast
  BY DEF LastInv
<1>1. CASE RemoveOne
  BY <1>0, <1>h, <1>1 DEF RemoveOne
<1>2. CASE Cleared
  BY <1>h, <1>2, <1>i, <1>0 DEF Cleared, Removed
<1>3. CASE CopyWrite
  BY <1>0, <1>h, <1>3 DEF CopyWrite, TypeOK, Lists
<1>4. CASE ManifestOpen
  BY <1>0, <1>h, <1>4 DEF ManifestOpen, Complete
<1>5. CASE ManifestWrite
  BY <1>0, <1>h, <1>5 DEF ManifestWrite, Entries, TypeOK
<1>6. CASE SnapshotFails
  BY <1>0, <1>h, <1>6 DEF SnapshotFails, NoManifestYet, Removed, OnlySnapshots
<1>7. CASE Finish \/ RollbackEnds \/ Stop
  BY <1>h, <1>7 DEF Finish, RollbackEnds, Stop, Leave
<1>8. CASE RollbackBegin
  BY <1>h, <1>8 DEF RollbackBegin
<1>9. CASE RestoreWrite
  BY <1>h, <1>9 DEF RestoreWrite
<1>10. CASE Restored
  BY <1>h, <1>10 DEF Restored
<1>11. CASE \E kind \in Kinds, F \in SUBSET Files \ {{}} : Begin(kind, F)
  BY <1>h, <1>11 DEF Begin, OnlySnapshots
<1>12. CASE \E f \in Files : ListNew(f)
  BY <1>0, <1>h, <1>12 DEF ListNew, TypeOK, Lists
<1>13. CASE \E f \in Files : CopyOpen(f)
  BY <1>0, <1>h, <1>13 DEF CopyOpen
<1>14. CASE \E f \in Files : RemoveNew(f)
  BY <1>h, <1>14 DEF RemoveNew
<1>15. CASE \E f \in Files : RestoreOpen(f)
  BY <1>h, <1>15 DEF RestoreOpen
<1>16. CASE \E f \in Files, c \in Texts : WriteOutput(f, c)
  BY <1>0, <1>h, <1>16 DEF WriteOutput
<1>17. CASE \E f \in Files, c \in Texts \cup {Missing} : Edit(f, c)
  BY <1>h, <1>17 DEF Edit
<1>18. CASE UNCHANGED vars
  BY <1>h, <1>18 DEF vars
<1> QED BY <1>1, <1>2, <1>3, <1>4, <1>5, <1>6, <1>7, <1>8, <1>9, <1>10, <1>11, <1>12,
           <1>13, <1>14, <1>15, <1>16, <1>17, <1>18 DEF Next

\* Where nothing but ExportAll exports, and .zhi-rollback can be removed, a
\* rollback undoes the last export (internal/cli/rollback.go).
THEOREM RollbackUndoes ==
  ASSUME OnlySnapshots
  PROVE  Spec => RollbackUndoesLastExport
<1>1. LastInv /\ [Next]_vars => [UndoesExport]_vars
  <2> SUFFICES ASSUME LastInv, Restored PROVE UndoesExport
    BY DEF UndoesExport
  <2>1. manifest \in Lists /\ \A f \in Listed : disk[f] = origin[f]
    BY DEF LastInv, Inv, RestoredSoFar, Restored, Goto
  <2> QED BY <2>1 DEF LastInv, ManifestIsLast, UndoesExport
<1>2. LastInv /\ [Next]_vars => LastInv'
  BY StepLastInv
<1> QED BY <1>1, <1>2, InitLastInv, PTL DEF Spec, RollbackUndoesLastExport

-----------------------------------------------------------------------------
(* `zhi drift`, for any templates, outputs and texts.                      *)

\* The templates a check has not come to yet.
Left == {rest[i] : i \in 1..Len(rest)}

LEMMA TailOf ==
    ASSUME NEW S, NEW s \in Seq(S), s # <<>>
    PROVE  /\ Head(s) \in S /\ Tail(s) \in Seq(S)
           /\ \A i \in 1..Len(s) : s[i] = Head(s) \/ \E j \in 1..Len(Tail(s)) : Tail(s)[j] = s[i]
<1>1. Len(s) \in Nat \ {0} /\ Head(s) = s[1] /\ Head(s) \in S
  OBVIOUS
<1>2. Tail(s) \in Seq(S) /\ Len(Tail(s)) = Len(s) - 1
  OBVIOUS
<1>3. \A j \in 1..Len(Tail(s)) : Tail(s)[j] = s[j + 1]
  BY <1>1, <1>2
<1>4. ASSUME NEW i \in 1..Len(s), i # 1
      PROVE  \E j \in 1..Len(Tail(s)) : Tail(s)[j] = s[i]
  <2>1. i - 1 \in 1..Len(Tail(s)) /\ (i - 1) + 1 = i
    BY <1>1, <1>2, <1>4
  <2> QED BY <2>1, <1>3
<1> QED BY <1>1, <1>2, <1>4

DriftStep == Check!Next \/ UNCHANGED driftVars

\* What a check has found so far is true as long as nothing changes: each
\* output of the tree is still to be looked at, or it is among the errors, or
\* it is known for what it is.
Looked(o) ==
    \/ o \in Check!Failing /\ errors # {}
    \/ o \notin Check!Failing /\ (o \in Check!Drift => o \in drifted)

FoundSoFar ==
    stage = "checking" /\ still =>
        /\ data = tree
        /\ \A o \in rendered : o[1] \notin broken
        /\ drifted \subseteq Check!Drift
        /\ errors # {} => Check!Failing # {}
        /\ \A o \in DOMAIN tree : o[1] \in Left \/ o \in rendered \/ Looked(o)

DriftInv == Check!TypeOK /\ FoundSoFar /\ Check!VerdictTrue

LEMMA OutputsOfTrees ==
    ASSUME NEW f \in Check!Trees
    PROVE  /\ DOMAIN f \subseteq Check!Output
           /\ \A o \in DOMAIN f : o[1] \in Check!Template \ Prints
           /\ \A o \in DOMAIN f : f[o] \in Text
           /\ \A t \in Check!Template \ (Iterates \cup Prints) : \E o \in DOMAIN f : o[1] = t
<1>1. DOMAIN f \subseteq Check!Output
  BY DEF Check!Trees
<1>2. \A o \in Check!Output : o[1] \in Check!Template \ Prints
  BY DEF Check!Output
<1>3. ASSUME NEW t \in Check!Template \ (Iterates \cup Prints)
      PROVE  \E o \in DOMAIN f : o[1] = t
  <2>1. <<t, Check!Only(t)>> \in DOMAIN f
    BY DEF Check!Trees
  <2> QED BY <2>1
<1>4. \A o \in DOMAIN f : f[o] \in Text
  <2>1. PICK S \in SUBSET Check!Output : f \in [S -> Text]
    BY DEF Check!Trees
  <2> QED BY <2>1
<1> QED BY <1>1, <1>2, <1>3, <1>4

LEMMA DriftTypes == Check!TypeOK /\ DriftStep => Check!TypeOK'
<1> SUFFICES ASSUME Check!TypeOK, DriftStep PROVE Check!TypeOK'
  OBVIOUS
<1> USE DEF Check!TypeOK, Check!world, Check!result
<1>0. DOMAIN Check!NoData = {}
  BY DEF Check!NoData
<1>1. CASE Check!NoTree \/ Check!HookEnds \/ Check!Cancel
  BY <1>1 DEF Check!NoTree, Check!HookEnds, Check!Cancel
<1>2. CASE Check!Begin
  <2>1. rest' \in Seq(Check!Template)
    BY <1>2, TemplatesAssumption DEF Check!Begin
  <2>2. data' \in Check!Trees
    BY <1>2 DEF Check!Begin
  <2>3. rendered' = {} /\ drifted' = {} /\ inSync' = {} /\ errors' = {}
    BY <1>2 DEF Check!Begin
  <2>4. Check!TypeOK'
    BY <1>2, <2>1, <2>2, <2>3 DEF Check!Begin
  <2> QED BY <2>4
<1>3. CASE Check!Render
  <2>1. Head(rest) \in Check!Template /\ Tail(rest) \in Seq(Check!Template)
    BY <1>3, TailOf DEF Check!Render
  <2>2. rendered' \subseteq DOMAIN data /\ errors' \subseteq Check!Output \cup {<<t, "">> : t \in Check!Template}
    BY <1>3, <2>1 DEF Check!Render, Check!Skip, Check!RenderOne, Check!RenderEach, Check!Outputs
  <2> QED BY <1>3, <2>1, <2>2 DEF Check!Render
<1>4. CASE Check!Compare
  <2>1. PICK o \in rendered : Check!CompareOne(o)
    BY <1>4 DEF Check!Compare
  <2>2. o \in Check!Output
    BY <1>4, OutputsOfTrees, <1>0
  <2> QED BY <1>4, <2>1, <2>2 DEF Check!Compare, Check!CompareOne
<1>5. CASE Check!Report
  BY <1>0, <1>5 DEF Check!Report, Check!Checked, Check!Forgotten
<1>6. CASE Check!Note
  BY <1>0, <1>6 DEF Check!Note, Check!Checked, Check!Forgotten, Check!Verdict
<1>7. CASE Check!SetTree
  BY <1>7 DEF Check!SetTree, Check!Changed
<1>8. CASE Check!StoreFails
  BY <1>8 DEF Check!StoreFails, Check!Changed
<1>9. CASE Check!EditTemplate
  BY <1>9 DEF Check!EditTemplate, Check!Changed
<1>10. CASE Check!EditFile
  BY <1>10 DEF Check!EditFile, Check!Changed
<1>11. CASE Check!Export
  <2>1. ASSUME NEW o \in Check!Renderable PROVE tree[o] \in Text
    <3>1. o \in DOMAIN tree
      BY <2>1 DEF Check!Renderable
    <3> QED BY <3>1, OutputsOfTrees
  <2>2. files' = [o \in Check!Output |-> IF o \in Check!Renderable THEN tree[o] ELSE files[o]]
    BY <1>11 DEF Check!Export
  <2>3. files' \in [Check!Output -> Text \cup {Missing, Unreadable}]
    BY <2>1, <2>2
  <2> HIDE DEF Check!Renderable
  <2>4. UNCHANGED <<tree, loads, broken, mode, stage, data, rest, rendered, drifted, inSync, errors, known, exit>>
    BY <1>11 DEF Check!Export, Check!Changed
  <2> QED BY <2>3, <2>4
<1>12. CASE UNCHANGED driftVars
  BY <1>12 DEF driftVars
<1> QED BY <1>1, <1>2, <1>3, <1>4, <1>5, <1>6, <1>7, <1>8, <1>9, <1>10, <1>11, <1>12
        DEF DriftStep, Check!Next, Check!Check

\* Of an output of the tree: it cannot be compared, it differs, or neither.
LEMMA Judged ==
    ASSUME NEW o \in DOMAIN tree
    PROVE  /\ o \in Check!Failing <=> o[1] \in broken \/ files[o] = Unreadable
           /\ o \in Check!Drift <=> o \notin Check!Failing /\ files[o] # tree[o]
BY DEF Check!Failing, Check!Drift, Check!Renderable

LEMMA SameWorld ==
    ASSUME UNCHANGED <<tree, broken, files>>
    PROVE  UNCHANGED <<Check!Failing, Check!Drift>>
BY DEF Check!Failing, Check!Drift, Check!Renderable

LEMMA RenderKeepsFound ==
    ASSUME DriftInv, Check!Render
    PROVE  FoundSoFar'
<1> SUFFICES ASSUME still PROVE FoundSoFar'
  BY DEF FoundSoFar, Check!Render
<1> DEFINE t == Head(rest)
<1>0. /\ stage = "checking" /\ rendered = {} /\ rest # <<>> /\ rest' = Tail(rest)
      /\ UNCHANGED <<tree, broken, files, data, drifted, stage, still>>
  BY DEF Check!Render, Check!world
<1>1. /\ data = tree /\ drifted \subseteq Check!Drift
      /\ errors # {} => Check!Failing # {}
      /\ \A o \in DOMAIN tree : o[1] \in Left \/ Looked(o)
  BY <1>0 DEF DriftInv, FoundSoFar
<1>2. t \in Check!Template /\ \A x \in Left : x = t \/ x \in Left'
  <2>1. rest \in Seq(Check!Template)
    BY DEF DriftInv, Check!TypeOK
  <2> QED BY <1>0, <2>1, TailOf DEF Left
<1>3. tree \in Check!Trees
  BY DEF DriftInv, Check!TypeOK
<1>4. UNCHANGED <<Check!Failing, Check!Drift>>
  BY <1>0, SameWorld
<1>5. /\ errors \subseteq errors'
      /\ errors' # errors => \E o \in DOMAIN tree : o[1] = t /\ t \in broken
      /\ rendered' \subseteq Check!Outputs(t) /\ (rendered' # {} => t \notin broken)
      /\ \A o \in DOMAIN tree : o[1] = t => o \in rendered' \/ (t \in broken /\ errors' # {})
  <2>1. Check!Outputs(t) = {o \in DOMAIN tree : o[1] = t}
    BY <1>1 DEF Check!Outputs
  <2>2. CASE Check!Skip(t)
    <3>1. \A o \in DOMAIN tree : o[1] # t
      BY <2>2, <1>3, OutputsOfTrees DEF Check!Skip
    <3> QED BY <3>1, <2>2 DEF Check!Skip
  <2>3. CASE Check!RenderOne(t)
    <3>1. \E o \in DOMAIN tree : o[1] = t
      BY <2>3, <1>2, <1>3, OutputsOfTrees DEF Check!RenderOne
    <3> QED BY <2>1, <3>1, <2>3 DEF Check!RenderOne
  <2>4. CASE Check!RenderEach(t)
    BY <2>1, <2>4 DEF Check!RenderEach
  <2> QED BY <2>2, <2>3, <2>4 DEF Check!Render
<1>6. \A o \in rendered' : o[1] \notin broken'
  BY <1>0, <1>5 DEF Check!Outputs
<1>7. errors' # {} => Check!Failing # {}
  <2>1. ASSUME NEW o \in DOMAIN tree, o[1] = t, t \in broken PROVE o \in Check!Failing
    BY <2>1, Judged
  <2> QED BY <1>1, <1>5, <2>1
<1>8. ASSUME NEW o \in DOMAIN tree
      PROVE  o[1] \in Left' \/ o \in rendered' \/ Looked(o)'
  <2>1. Looked(o) => Looked(o)'
    BY <1>0, <1>4, <1>5 DEF Looked
  <2>2. o[1] = t /\ t \in broken /\ errors' # {} => Looked(o)'
    BY <1>4, Judged DEF Looked
  <2> QED BY <2>1, <2>2, <1>1, <1>2, <1>5
<1> QED BY <1>0, <1>1, <1>4, <1>6, <1>7, <1>8 DEF FoundSoFar

LEMMA CompareKeepsFound ==
    ASSUME DriftInv, Check!Compare
    PROVE  FoundSoFar'
<1> SUFFICES ASSUME still PROVE FoundSoFar'
  BY DEF FoundSoFar, Check!Compare
<1>0. /\ stage = "checking"
      /\ UNCHANGED <<tree, broken, files, data, rest, stage, still>>
  BY DEF Check!Compare, Check!world
<1>1. /\ data = tree /\ drifted \subseteq Check!Drift
      /\ \A o \in rendered : o[1] \notin broken
      /\ errors # {} => Check!Failing # {}
      /\ \A o \in DOMAIN tree : o[1] \in Left \/ o \in rendered \/ Looked(o)
  BY <1>0 DEF DriftInv, FoundSoFar
<1>2. PICK o \in rendered : Check!CompareOne(o)
  BY DEF Check!Compare
<1>3. o \in DOMAIN tree
  BY <1>1 DEF DriftInv, Check!TypeOK
<1>4. UNCHANGED <<Check!Failing, Check!Drift, Left>>
  BY <1>0, SameWorld DEF Left
<1>5. /\ rendered' = rendered \ {o}
      /\ drifted \subseteq drifted' /\ errors \subseteq errors'
      /\ files[o] = Unreadable => errors' # {} /\ drifted' = drifted
      /\ files[o] # Unreadable => errors' = errors
      /\ files[o] # Unreadable /\ files[o] # tree[o] => drifted' = drifted \cup {o}
      /\ files[o] # Unreadable /\ files[o] = tree[o] => drifted' = drifted
  BY <1>1, <1>2 DEF Check!CompareOne, Check!Differs
<1>6. o \in Check!Failing <=> files[o] = Unreadable
  BY <1>1, <1>2, <1>3, Judged
<1>7. o \in Check!Drift <=> files[o] # Unreadable /\ files[o] # tree[o]
  BY <1>3, <1>6, Judged
<1>8. Looked(o)'
  BY <1>4, <1>5, <1>6, <1>7 DEF Looked
<1>9. ASSUME NEW p \in DOMAIN tree, Looked(p) PROVE Looked(p)'
  BY <1>4, <1>5, <1>9 DEF Looked
<1>10. drifted' \subseteq Check!Drift /\ (errors' # {} => Check!Failing # {})
  BY <1>1, <1>5, <1>6, <1>7
<1> QED BY <1>0, <1>1, <1>4, <1>5, <1>8, <1>9, <1>10 DEF FoundSoFar

\* A check that has come to its end knows whether there is a drift, and
\* whether anything could not be compared.
LEMMA FoundAtTheEnd ==
    ASSUME DriftInv, Check!Checked, still
    PROVE  /\ drifted # {} <=> Check!Drift # {}
           /\ drifted = {} => (errors # {} <=> Check!Failing # {})
<1>1. /\ drifted \subseteq Check!Drift /\ (errors # {} => Check!Failing # {})
      /\ \A o \in DOMAIN tree : o[1] \in Left \/ o \in rendered \/ Looked(o)
  BY DEF DriftInv, FoundSoFar, Check!Checked
<1>2. Left = {} /\ rendered = {}
  BY DEF Check!Checked, Left
<1>3. Check!Drift \subseteq DOMAIN tree /\ Check!Failing \subseteq DOMAIN tree
  BY DEF Check!Drift, Check!Failing, Check!Renderable
<1>4. \A o \in Check!Drift : o \notin Check!Failing
  BY <1>3, Judged
<1> QED BY <1>1, <1>2, <1>3, <1>4 DEF Looked

LEMMA DriftStepInv == DriftInv /\ DriftStep => DriftInv'
<1> SUFFICES ASSUME DriftInv, DriftStep PROVE DriftInv'
  OBVIOUS
<1>0. Check!TypeOK'
  BY DriftTypes DEF DriftInv
<1> SUFFICES FoundSoFar' /\ Check!VerdictTrue'
  BY <1>0 DEF DriftInv
<1>1. CASE Check!SetTree \/ Check!StoreFails \/ Check!EditTemplate \/ Check!EditFile \/ Check!Export
  <2>1. ~still'
    BY <1>1 DEF Check!SetTree, Check!StoreFails, Check!EditTemplate, Check!EditFile, Check!Export,
                Check!Changed
  <2> QED BY <2>1 DEF FoundSoFar, Check!VerdictTrue
<1>2. CASE Check!Begin
  <2>1. stage' = "checking" /\ data' = tree /\ rest' = Templates /\ rendered' = {}
        /\ drifted' = {} /\ errors' = {} /\ UNCHANGED <<tree, broken, files>>
    BY <1>2 DEF Check!Begin, Check!world
  <2>2. ASSUME NEW o \in DOMAIN tree' PROVE o[1] \in Left'
    <3>1. o[1] \in Check!Template
      BY <2>1, <2>2, OutputsOfTrees DEF DriftInv, Check!TypeOK
    <3> QED BY <2>1, <3>1, TemplatesAssumption DEF Left, Check!Template, Check!Range
  <2>3. FoundSoFar'
    BY <2>1, <2>2 DEF FoundSoFar
  <2> QED BY <2>1, <2>3 DEF Check!VerdictTrue
<1>3. CASE Check!Render
  BY <1>3, RenderKeepsFound DEF Check!Render, Check!VerdictTrue
<1>4. CASE Check!Compare
  BY <1>4, CompareKeepsFound DEF Check!Compare, Check!VerdictTrue
<1>5. CASE Check!Note
  <2>1. /\ Check!Checked /\ mode = "watch" /\ stage' \in {"hook", "waiting"}
        /\ known' = (IF drifted # {} THEN "drifted" ELSE "clean")
        /\ UNCHANGED <<tree, broken, files, mode, still, loads>>
    BY <1>5 DEF Check!Note, Check!world, Check!Verdict
  <2>2. still => (known' = "drifted") = (Check!Drift # {})
    BY <2>1, FoundAtTheEnd
  <2>3. UNCHANGED Check!Drift
    BY <2>1, SameWorld
  <2>4. Check!VerdictTrue'
    BY <2>1, <2>2, <2>3 DEF Check!VerdictTrue
  <2> QED BY <2>1, <2>4 DEF FoundSoFar
<1>6. CASE Check!Report
  <2>1. /\ Check!Checked /\ mode = "once" /\ stage' = "ended"
        /\ exit' = (IF drifted # {} THEN 1 ELSE IF errors # {} THEN 2 ELSE 0)
        /\ UNCHANGED <<tree, broken, files, mode, still, loads>>
    BY <1>6 DEF Check!Report, Check!world
  <2>2. still => exit' = (IF Check!Drift # {} THEN 1 ELSE IF Check!Failing # {} THEN 2 ELSE 0)
    BY <2>1, FoundAtTheEnd
  <2>3. UNCHANGED <<Check!Drift, Check!Failing>>
    BY <2>1, SameWorld
  <2>4. Check!VerdictTrue'
    BY <2>1, <2>2, <2>3 DEF Check!VerdictTrue
  <2> QED BY <2>1, <2>4 DEF FoundSoFar
<1>7. CASE Check!NoTree \/ Check!HookEnds \/ Check!Cancel
  <2>1. UNCHANGED <<tree, broken, files>> /\ stage' \in {"waiting", "ended"}
    BY <1>7 DEF Check!NoTree, Check!HookEnds, Check!Cancel, Check!world
  <2>2. UNCHANGED <<Check!Drift, Check!Failing>>
    BY <2>1, SameWorld
  <2>3. FoundSoFar'
    BY <2>1 DEF FoundSoFar
  <2>4. Check!VerdictTrue'
    BY <2>2, <1>7 DEF DriftInv, Check!VerdictTrue, Check!NoTree, Check!HookEnds, Check!Cancel, Check!world
  <2> QED BY <2>3, <2>4
<1>8. CASE UNCHANGED driftVars
  <2>1. UNCHANGED <<tree, loads, broken, files, stage, mode, data, rest, rendered, drifted, errors, known, exit, still>>
    BY <1>8 DEF driftVars
  <2>2. UNCHANGED <<Check!Drift, Check!Failing, Left>>
    BY <2>1, SameWorld DEF Left
  <2> QED BY <2>1, <2>2 DEF DriftInv, FoundSoFar, Looked, Check!VerdictTrue
<1> QED BY <1>1, <1>2, <1>3, <1>4, <1>5, <1>6, <1>7, <1>8 DEF DriftStep, Check!Next, Check!Check

\* "Exit codes: 0 all files in sync, 1 drift detected, 2 error during drift
\* check" (internal/cli/drift.go), and what a watch knows: true of whatever
\* templates and files there are, provided nothing changes during the check.
THEOREM DriftVerdict == OutputsSpec => []VerdictTrue
<1>1. OutputsInit => DriftInv
  <2> SUFFICES ASSUME Check!Init PROVE DriftInv
    BY DEF OutputsInit
  <2>1. Check!TypeOK
    BY DEF Check!Init, Check!TypeOK, Check!Running
  <2> QED BY <2>1 DEF DriftInv, FoundSoFar, Check!VerdictTrue, Check!Init
<1>2. DriftInv /\ [OutputsNext]_<<system, inputs, driftVars, vars>> => DriftInv'
  <2>1. [OutputsNext]_<<system, inputs, driftVars, vars>> => DriftStep
    BY DEF OutputsNext, DriftStep, Ended
  <2> QED BY <2>1, DriftStepInv
<1>3. DriftInv => VerdictTrue
  BY DEF DriftInv, VerdictTrue
<1> QED BY <1>1, <1>2, <1>3, PTL DEF OutputsSpec

-----------------------------------------------------------------------------
(* Induction. *)

\* Among numbers there is a least one, by which what is computed step by step
\* is known for every number of steps.
LEMMA LeastNumber ==
    ASSUME NEW T \in SUBSET Nat, T # {}
    PROVE  \E n \in T : \A m \in T : n <= m
<1> DEFINE Below == {0..n : n \in T}
<1>1. Below \subseteq FiniteSubsetsOf(Nat) /\ Below # {}
  <2>1. \A n \in T : IsFiniteSet(0..n) /\ 0..n \subseteq Nat
    BY FS_Interval
  <2> QED
    BY <2>1 DEF FiniteSubsetsOf
<1>2. IsWellFoundedOn(StrictSubsetOrdering(Nat), FiniteSubsetsOf(Nat))
  BY FS_StrictSubsetOrderingWellFounded
<1>3. PICK b \in Below : \A c \in Below : <<c, b>> \notin StrictSubsetOrdering(Nat)
  <2> HIDE DEF Below
  <2> QED
    BY <1>1, <1>2, WFMin
<1>4. PICK n \in T : b = 0..n
  OBVIOUS
<1>5. ASSUME NEW m \in T, m < n
      PROVE  FALSE
  <2>1. 0..m \subseteq 0..n /\ n \in 0..n /\ n \notin 0..m
    BY <1>5
  <2>2. <<0..m, 0..n>> \in StrictSubsetOrdering(Nat)
    BY <2>1 DEF StrictSubsetOrdering
  <2> QED
    BY <1>3, <1>4, <2>2
<1> QED
  BY <1>5

-----------------------------------------------------------------------------
(* The edit script. *)

\* What backtrack has after each of its turns.
Back(dp, a, b, k, g) == [i \in 0 .. k |-> IF i = 0 THEN [i |-> Len(a), j |-> Len(b), edits |-> <<>>] ELSE Diff!Turn(dp, a, b, g[i - 1])]

LEMMA BackExists ==
    ASSUME NEW dp, NEW a, NEW b, NEW k \in Nat
    PROVE  \E g : g = Back(dp, a, b, k, g)
<1> DEFINE T == {n \in Nat : ~\E g : g = Back(dp, a, b, n, g)}
<1>1. ASSUME T # {}
      PROVE  FALSE
  <2>1. PICK n \in T : \A m \in T : n <= m
    BY <1>1, LeastNumber
  <2>2. n # 0
    <3>1. Back(dp, a, b, 0, [i \in 0 .. 0 |-> [i |-> Len(a), j |-> Len(b), edits |-> <<>>]]) = [i \in 0 .. 0 |-> [i |-> Len(a), j |-> Len(b), edits |-> <<>>]]
      BY DEF Back
    <3> QED
      BY <3>1
  <2>3. n - 1 \in Nat /\ n - 1 \notin T
    BY <2>1, <2>2
  <2>4. PICK g : g = Back(dp, a, b, n - 1, g)
    BY <2>3
  <2> DEFINE final == Diff!Turn(dp, a, b, g[n - 1])
             h == [i \in 0 .. n |-> IF i = n THEN final ELSE g[i]]
  <2>5. \A i \in 0 .. n - 1 : g[i] = IF i = 0 THEN [i |-> Len(a), j |-> Len(b), edits |-> <<>>] ELSE Diff!Turn(dp, a, b, g[i - 1])
    BY <2>3, <2>4 DEF Back
  <2>6. ASSUME NEW i \in 0 .. n
        PROVE  h[i] = IF i = 0 THEN [i |-> Len(a), j |-> Len(b), edits |-> <<>>] ELSE Diff!Turn(dp, a, b, h[i - 1])
    <3>1. CASE i = n
      <4>1. h[i] = final /\ h[i - 1] = g[n - 1]
        BY <2>2, <3>1
      <4> HIDE DEF h
      <4> QED
        BY <2>2, <3>1, <4>1
    <3>2. CASE i # n
      <4>1. h[i] = g[i] /\ (i # 0 => h[i - 1] = g[i - 1]) /\ i \in 0 .. n - 1
        BY <3>2
      <4> HIDE DEF h
      <4> QED
        BY <2>5, <4>1
    <3> QED
      BY <3>1, <3>2
  <2>7. h = Back(dp, a, b, n, h)
    BY <2>6 DEF Back
  <2> QED
    BY <2>7
<1> QED
  BY <1>1

EditType == [op : {"=", "+", "-"}, line : Line, old : Nat, new : Nat]

\* After k edits o[k] lines of the one text are passed and q[k] of the other.
Placed(e, o, q, a, b) ==
    /\ o \in [0 .. Len(e) -> Nat] /\ q \in [0 .. Len(e) -> Nat]
    /\ o[Len(e)] = Len(a) /\ q[Len(e)] = Len(b)
    /\ \A k, l \in 0 .. Len(e) : k <= l => o[k] <= o[l] /\ q[k] <= q[l]
    /\ \A k \in 1 .. Len(e) :
          /\ IF e[k].op = "+" THEN o[k] = o[k - 1]
             ELSE o[k] = o[k - 1] + 1 /\ e[k].old = o[k] /\ e[k].line = a[o[k]]
          /\ IF e[k].op = "-" THEN q[k] = q[k - 1]
             ELSE q[k] = q[k - 1] + 1 /\ e[k].new = q[k] /\ e[k].line = b[q[k]]

BackInv(s, turn, a, b) ==
    /\ s.i \in 0 .. Len(a) /\ s.j \in 0 .. Len(b) /\ s.i + s.j <= Len(a) + Len(b) - turn
    /\ s.edits \in Seq(EditType)
    /\ \E o, q : Placed(s.edits, o, q, a, b) /\ o[0] = s.i /\ q[0] = s.j

LEMMA TurnKeeps ==
    ASSUME NEW a \in Seq(Line), NEW b \in Seq(Line), NEW dp, NEW turn \in 1 .. Len(a) + Len(b),
           NEW s, BackInv(s, turn - 1, a, b)
    PROVE  BackInv(Diff!Turn(dp, a, b, s), turn, a, b)
<1> DEFINE i == s.i
           j == s.j
           e == s.edits
           op == Diff!StepBack(dp, a, b, i, j)
           x == Diff!Edit(a, b, op, i, j)
           t == Diff!Turn(dp, a, b, s)
<1>1. /\ Len(a) \in Nat /\ Len(b) \in Nat /\ i \in 0 .. Len(a) /\ j \in 0 .. Len(b)
      /\ i + j <= Len(a) + Len(b) - (turn - 1) /\ e \in Seq(EditType) /\ Len(e) \in Nat
  BY DEF BackInv
<1>2. CASE i = 0 /\ j = 0
  <2>1. t = s
    BY <1>2 DEF Diff!Turn
  <2>2. s.i \in 0 .. Len(a) /\ s.j \in 0 .. Len(b) /\ s.i + s.j <= Len(a) + Len(b) - turn
    BY <1>1, <1>2
  <2> HIDE DEF t, i, j, e
  <2>3. BackInv(s, turn, a, b)
    BY <2>2 DEF BackInv
  <2>4. BackInv(t, turn, a, b)
    BY <2>1, <2>3
  <2> QED
    BY <2>4 DEF t
<1>3. CASE ~(i = 0 /\ j = 0)
  <2>1. /\ op \in {"=", "+", "-"}
        /\ op # "+" => i > 0
        /\ op # "-" => j > 0
        /\ op = "=" => a[i] = b[j]
    BY <1>1, <1>3 DEF Diff!StepBack
  <2>2. /\ t.i = (IF op = "+" THEN i ELSE i - 1) /\ t.j = (IF op = "-" THEN j ELSE j - 1)
        /\ t.edits = <<x>> \o e
    BY <1>3 DEF Diff!Turn
  <2>3. /\ x.op = op /\ x.line = (IF op = "+" THEN b[j] ELSE a[i])
        /\ x.old = (IF op = "+" THEN 0 ELSE i) /\ x.new = (IF op = "-" THEN 0 ELSE j)
        /\ x = [op |-> x.op, line |-> x.line, old |-> x.old, new |-> x.new]
    BY DEF Diff!Edit
  <2> HIDE DEF op, x, t, i, j, e
  <2>4. x \in EditType
    <3>1. op # "+" => a[i] \in Line
      BY <1>1, <2>1
    <3>2. op # "-" => b[j] \in Line
      BY <1>1, <2>1
    <3>3. x.line \in Line /\ x.old \in Nat /\ x.new \in Nat /\ x.op \in {"=", "+", "-"}
      BY <1>1, <2>1, <2>3, <3>1, <3>2
    <3> QED
      BY <2>3, <3>3 DEF EditType
  <2> DEFINE f == <<x>> \o e
  <2>5. /\ f \in Seq(EditType) /\ Len(f) = Len(e) + 1 /\ f[1] = x
        /\ \A k \in 2 .. Len(f) : f[k] = e[k - 1]
    BY <1>1, <2>4
  <2> HIDE DEF f
  <2>6. PICK o, q : Placed(e, o, q, a, b) /\ o[0] = i /\ q[0] = j
    BY DEF BackInv, i, j, e
  <2>61. /\ o \in [0 .. Len(e) -> Nat] /\ q \in [0 .. Len(e) -> Nat]
         /\ o[Len(e)] = Len(a) /\ q[Len(e)] = Len(b) /\ o[0] = i /\ q[0] = j
    BY <2>6 DEF Placed
  <2> DEFINE oo == [k \in 0 .. Len(f) |-> IF k = 0 THEN t.i ELSE o[k - 1]]
             qq == [k \in 0 .. Len(f) |-> IF k = 0 THEN t.j ELSE q[k - 1]]
  <2>7. /\ t.i \in 0 .. Len(a) /\ t.j \in 0 .. Len(b) /\ t.i <= i /\ t.j <= j
        /\ t.i + t.j <= Len(a) + Len(b) - turn
    <3>1. i \in Nat /\ j \in Nat /\ (op # "+" => i > 0) /\ (op # "-" => j > 0) /\ op \in {"=", "+", "-"}
      BY <1>1, <2>1
    <3>2. CASE op = "="
      <4>1. t.i = i - 1 /\ t.j = j - 1
        BY <2>2, <3>2
      <4> QED
        BY <1>1, <3>1, <3>2, <4>1
    <3>3. CASE op = "+"
      <4>1. t.i = i /\ t.j = j - 1
        BY <2>2, <3>3
      <4> QED
        BY <1>1, <3>1, <3>3, <4>1
    <3>4. CASE op = "-"
      <4>1. t.i = i - 1 /\ t.j = j
        BY <2>2, <3>4
      <4> QED
        BY <1>1, <3>1, <3>4, <4>1
    <3> QED
      BY <3>1, <3>2, <3>3, <3>4
  <2>8. /\ oo \in [0 .. Len(f) -> Nat] /\ qq \in [0 .. Len(f) -> Nat]
        /\ oo[0] = t.i /\ qq[0] = t.j
        /\ \A k \in 1 .. Len(f) : oo[k] = o[k - 1] /\ qq[k] = q[k - 1]
    <3>1. Len(f) \in Nat /\ 0 \in 0 .. Len(f) /\ t.i \in Nat /\ t.j \in Nat
      BY <1>1, <2>5, <2>7
    <3>2. \A k \in 0 .. Len(f) : k # 0 => k - 1 \in 0 .. Len(e)
      BY <1>1, <2>5
    <3>3. \A k \in 0 .. Len(f) : k # 0 => o[k - 1] \in Nat /\ q[k - 1] \in Nat
      BY <2>61, <3>2
    <3> QED
      BY <3>1, <3>3
  <2> HIDE DEF oo, qq
  <2>9. oo[Len(f)] = Len(a) /\ qq[Len(f)] = Len(b)
    <3>1. Len(f) \in 1 .. Len(f) /\ Len(f) - 1 = Len(e)
      BY <1>1, <2>5
    <3> QED
      BY <2>61, <2>8, <3>1
  <2>10. ASSUME NEW k \in 0 .. Len(f), NEW l \in 0 .. Len(f), k <= l
         PROVE  oo[k] <= oo[l] /\ qq[k] <= qq[l]
    <3>1. CASE k = 0 /\ l = 0
      BY <2>7, <2>8, <3>1
    <3>2. CASE k = 0 /\ l # 0
      <4>1. l - 1 \in 0 .. Len(e) /\ 0 \in 0 .. Len(e) /\ 0 <= l - 1
        BY <1>1, <2>5, <3>2
      <4>2. o[0] <= o[l - 1] /\ q[0] <= q[l - 1] /\ o[l - 1] \in Nat /\ q[l - 1] \in Nat
        BY <2>6, <4>1 DEF Placed
      <4>3. oo[l] = o[l - 1] /\ qq[l] = q[l - 1]
        BY <2>8, <3>2
      <4>4. i \in Nat /\ j \in Nat /\ t.i \in Nat /\ t.j \in Nat
        BY <1>1, <2>7
      <4>5. t.i <= o[l - 1] /\ t.j <= q[l - 1]
        <5>1. i <= o[l - 1] /\ j <= q[l - 1]
          BY <2>61, <4>2
        <5> QED
          <6>1. \A u, v, w \in Nat : u <= v /\ v <= w => u <= w
            OBVIOUS
          <6>2. t.i <= i /\ t.j <= j /\ o[l - 1] \in Nat /\ q[l - 1] \in Nat
            BY <2>7, <4>2
          <6> QED
            BY <4>4, <5>1, <6>1, <6>2, Zenon
      <4> QED
        BY <2>8, <3>2, <4>3, <4>5
    <3>3. CASE k # 0
      <4>1. k - 1 \in 0 .. Len(e) /\ l - 1 \in 0 .. Len(e) /\ k - 1 <= l - 1
        BY <1>1, <2>5, <2>10, <3>3
      <4>2. o[k - 1] <= o[l - 1] /\ q[k - 1] <= q[l - 1]
        BY <2>6, <4>1 DEF Placed
      <4> QED
        BY <2>8, <2>10, <3>3, <4>2
    <3> QED
      BY <3>1, <3>2, <3>3
  <2>11. ASSUME NEW k \in 1 .. Len(f)
         PROVE  /\ IF f[k].op = "+" THEN oo[k] = oo[k - 1]
                   ELSE oo[k] = oo[k - 1] + 1 /\ f[k].old = oo[k] /\ f[k].line = a[oo[k]]
                /\ IF f[k].op = "-" THEN qq[k] = qq[k - 1]
                   ELSE qq[k] = qq[k - 1] + 1 /\ f[k].new = qq[k] /\ f[k].line = b[qq[k]]
    <3>1. CASE k = 1
      <4>1. f[k] = x /\ oo[k] = i /\ qq[k] = j /\ oo[k - 1] = t.i /\ qq[k - 1] = t.j
        BY <2>5, <2>61, <2>8, <3>1
      <4>2. op # "+" => i \in Nat /\ t.i = i - 1 /\ i = t.i + 1
        BY <1>1, <2>2
      <4>3. op # "-" => j \in Nat /\ t.j = j - 1 /\ j = t.j + 1 
        BY <1>1, <2>2
      <4>5. op # "-" => x.line = b[j]
        BY <2>1, <2>3
      <4> QED
        BY <2>2, <2>3, <4>1, <4>2, <4>3, <4>5
    <3>2. CASE k # 1
      <4>1. k - 1 \in 1 .. Len(e) /\ f[k] = e[k - 1]
        BY <1>1, <2>5, <3>2
      <4>2. oo[k] = o[k - 1] /\ qq[k] = q[k - 1] /\ oo[k - 1] = o[k - 1 - 1] /\ qq[k - 1] = q[k - 1 - 1]
        <5>1. k - 1 \in 1 .. Len(f)
          BY <1>1, <2>5, <3>2
        <5> QED
          BY <2>8, <5>1
      <4> QED
        BY <2>6, <4>1, <4>2 DEF Placed
    <3> QED
      BY <3>1, <3>2
  <2>12. Placed(f, oo, qq, a, b)
    BY <2>8, <2>9, <2>10, <2>11 DEF Placed
  <2>13. BackInv(t, turn, a, b)
    BY <2>2, <2>5, <2>7, <2>8, <2>12 DEF BackInv, f
  <2> QED
    BY <2>13 DEF t
<1> QED
  BY <1>2, <1>3

\* backtrack makes a script that leads from the one text to the other,
\* whatever the table says: every line of both is in it, in its place.
LEMMA EditsPlaced ==
    ASSUME NEW a \in Seq(Line), NEW b \in Seq(Line)
    PROVE  /\ Diff!Edits(a, b) \in Seq(EditType)
           /\ \E o, q : Placed(Diff!Edits(a, b), o, q, a, b) /\ o[0] = 0 /\ q[0] = 0
<1> DEFINE dp == Diff!LcsMatrix(a, b)
           N == Len(a) + Len(b)
           g == CHOOSE g : g = Back(dp, a, b, N, g)
<1>1. N \in Nat /\ Len(a) \in Nat /\ Len(b) \in Nat
  OBVIOUS
<1> HIDE DEF dp
<1>2. g = Back(dp, a, b, N, g)
  BY <1>1, BackExists
<1>3. Diff!Backtrack(dp, a, b) = g[N].edits
  BY DEF Diff!Backtrack, Back
<1> HIDE DEF g, N
<1>4. \A n \in 0 .. N : g[n] = IF n = 0 THEN [i |-> Len(a), j |-> Len(b), edits |-> <<>>]
                               ELSE Diff!Turn(dp, a, b, g[n - 1])
  BY <1>2 DEF Back
<1> DEFINE T == {n \in 0 .. N : ~BackInv(g[n], n, a, b)}
<1>5. ASSUME T # {}
      PROVE  FALSE
  <2>1. PICK n \in T : \A m \in T : n <= m
    <3>1. T \in SUBSET Nat
      OBVIOUS
    <3> HIDE DEF T
    <3> QED
      BY <1>5, <3>1, LeastNumber
  <2>2. n # 0
    <3> DEFINE s == g[0]
               o == [k \in 0 .. 0 |-> Len(a)]
               q == [k \in 0 .. 0 |-> Len(b)]
    <3>1. s.i = Len(a) /\ s.j = Len(b) /\ s.edits = <<>>
      BY <1>1, <1>4
    <3>2. Placed(<<>>, o, q, a, b) /\ o[0] = Len(a) /\ q[0] = Len(b)
      BY <1>1 DEF Placed
    <3>3. BackInv(s, 0, a, b)
      <4> HIDE DEF s, o, q
      <4>1. <<>> \in Seq(EditType)
        OBVIOUS
      <4> QED
        BY <1>1, <3>1, <3>2, <4>1 DEF BackInv
    <3> QED
      BY <3>3
  <2>3. n - 1 \in 0 .. N /\ n \in 1 .. N /\ BackInv(g[n - 1], n - 1, a, b) /\ g[n] = Diff!Turn(dp, a, b, g[n - 1])
    BY <1>1, <1>4, <2>1, <2>2
  <2>4. BackInv(g[n], n, a, b)
    BY <1>1, <2>3, TurnKeeps DEF N
  <2> QED
    BY <2>4
<1>6. BackInv(g[N], N, a, b)
  BY <1>1, <1>5
<1>7. g[N].i = 0 /\ g[N].j = 0
  BY <1>1, <1>6 DEF BackInv, N
<1> QED
  BY <1>3, <1>6, <1>7 DEF BackInv, Diff!Edits, dp

-----------------------------------------------------------------------------
(* The lines of a hunk. *)

\* What Kept has of the first lines.
Keep(lines, op, k, g) == [i \in 0 .. k |-> IF i = 0 THEN <<>> ELSE IF lines[i].op = op THEN g[i - 1] ELSE Append(g[i - 1], lines[i])]

LEMMA KeepExists ==
    ASSUME NEW lines, NEW op, NEW k \in Nat
    PROVE  \E g : g = Keep(lines, op, k, g)
<1> DEFINE T == {n \in Nat : ~\E g : g = Keep(lines, op, n, g)}
<1>1. ASSUME T # {}
      PROVE  FALSE
  <2>1. PICK n \in T : \A m \in T : n <= m
    BY <1>1, LeastNumber
  <2>2. n # 0
    <3>1. Keep(lines, op, 0, [i \in 0 .. 0 |-> <<>>]) = [i \in 0 .. 0 |-> <<>>]
      BY DEF Keep
    <3> QED
      BY <3>1
  <2>3. n - 1 \in Nat /\ n - 1 \notin T
    BY <2>1, <2>2
  <2>4. PICK g : g = Keep(lines, op, n - 1, g)
    BY <2>3
  <2> DEFINE final == IF lines[n].op = op THEN g[n - 1] ELSE Append(g[n - 1], lines[n])
             h == [i \in 0 .. n |-> IF i = n THEN final ELSE g[i]]
  <2>5. \A i \in 0 .. n - 1 : g[i] = IF i = 0 THEN <<>> ELSE IF lines[i].op = op THEN g[i - 1] ELSE Append(g[i - 1], lines[i])
    BY <2>3, <2>4 DEF Keep
  <2>6. ASSUME NEW i \in 0 .. n
        PROVE  h[i] = IF i = 0 THEN <<>> ELSE IF lines[i].op = op THEN h[i - 1] ELSE Append(h[i - 1], lines[i])
    <3>1. CASE i = n
      <4>1. h[i] = final /\ h[i - 1] = g[n - 1]
        BY <2>2, <3>1
      <4> HIDE DEF h
      <4> QED
        BY <2>2, <3>1, <4>1
    <3>2. CASE i # n
      <4>1. h[i] = g[i] /\ (i # 0 => h[i - 1] = g[i - 1]) /\ i \in 0 .. n - 1
        BY <3>2
      <4> HIDE DEF h
      <4> QED
        BY <2>5, <4>1
    <3> QED
      BY <3>1, <3>2
  <2>7. h = Keep(lines, op, n, h)
    BY <2>6 DEF Keep
  <2> QED
    BY <2>7
<1> QED
  BY <1>1

KeptOf(s, n, lines, op, p) ==
    /\ s \in Seq(EditType) /\ Len(s) = p[n] - p[0]
    /\ \A y \in 1 .. Len(s) : \E k \in 1 .. n :
          lines[k].op # op /\ p[k] = p[0] + y /\ s[y] = lines[k]

LEMMA KeptIs ==
    ASSUME NEW lines \in Seq(EditType), NEW op, NEW p \in [0 .. Len(lines) -> Nat],
           \A k \in 1 .. Len(lines) : p[k] = IF lines[k].op = op THEN p[k - 1] ELSE p[k - 1] + 1
    PROVE  KeptOf(Diff!Kept(lines, op), Len(lines), lines, op, p)
<1> DEFINE N == Len(lines)
           g == CHOOSE g : g = Keep(lines, op, N, g)
<1>1. N \in Nat
  OBVIOUS
<1>2. g = Keep(lines, op, N, g)
  BY <1>1, KeepExists
<1>3. Diff!Kept(lines, op) = g[N]
  BY DEF Diff!Kept, Keep
<1> HIDE DEF g
<1>4. \A n \in 0 .. N : g[n] = IF n = 0 THEN <<>>
                               ELSE IF lines[n].op = op THEN g[n - 1] ELSE Append(g[n - 1], lines[n])
  BY <1>2 DEF Keep
<1> HIDE DEF N
<1> DEFINE T == {n \in 0 .. N : ~KeptOf(g[n], n, lines, op, p)}
<1>5. ASSUME T # {}
      PROVE  FALSE
  <2>1. PICK n \in T : \A m \in T : n <= m
    <3>1. T \in SUBSET Nat
      OBVIOUS
    <3> HIDE DEF T
    <3> QED
      BY <1>5, <3>1, LeastNumber
  <2>2. n # 0
    <3>1. g[0] = <<>> /\ p[0] \in Nat
      BY <1>1, <1>4 DEF N
    <3>2. KeptOf(g[0], 0, lines, op, p)
      BY <3>1 DEF KeptOf
    <3> QED
      BY <3>2
  <2>3. /\ n - 1 \in 0 .. N /\ n \in 1 .. N /\ KeptOf(g[n - 1], n - 1, lines, op, p)
        /\ g[n] = IF lines[n].op = op THEN g[n - 1] ELSE Append(g[n - 1], lines[n])
    BY <1>1, <1>4, <2>1, <2>2
  <2> HIDE DEF T
  <2>4. /\ p[n - 1] \in Nat /\ p[0] \in Nat /\ p[n] = (IF lines[n].op = op THEN p[n - 1] ELSE p[n - 1] + 1)
        /\ lines[n] \in EditType
    <3>1. n \in 1 .. Len(lines) /\ n - 1 \in 0 .. Len(lines) /\ 0 \in 0 .. Len(lines)
      BY <1>1, <2>3 DEF N
    <3>2. p[n] = IF lines[n].op = op THEN p[n - 1] ELSE p[n - 1] + 1
      BY <3>1
    <3>3. p[n - 1] \in Nat /\ p[0] \in Nat
      BY <3>1
    <3>4. lines[n] \in EditType
      BY <3>1
    <3> QED
      BY <3>2, <3>3, <3>4
  <2> DEFINE s == g[n - 1]
  <2>5. /\ s \in Seq(EditType) /\ Len(s) \in Nat /\ Len(s) = p[n - 1] - p[0]
        /\ \A y \in 1 .. Len(s) : \E k \in 1 .. n - 1 :
              lines[k].op # op /\ p[k] = p[0] + y /\ s[y] = lines[k]
    BY <2>3 DEF KeptOf
  <2> HIDE DEF s
  <2>6. \A y \in 1 .. Len(s) : \E k \in 1 .. n :
              lines[k].op # op /\ p[k] = p[0] + y /\ s[y] = lines[k]
    BY <1>1, <2>3, <2>5
  <2>7. CASE lines[n].op = op
    <3>1. KeptOf(s, n, lines, op, p)
      BY <2>4, <2>5, <2>6, <2>7 DEF KeptOf
    <3> QED
      BY <2>1, <2>3, <2>7, <3>1 DEF s, T
  <2>8. CASE lines[n].op # op
    <3> DEFINE r == Append(s, lines[n])
    <3>1. /\ r \in Seq(EditType) /\ Len(r) = Len(s) + 1 /\ r[Len(s) + 1] = lines[n]
          /\ \A y \in 1 .. Len(s) : r[y] = s[y]
      BY <2>4, <2>5
    <3> HIDE DEF r
    <3>2. Len(r) = p[n] - p[0] /\ p[n] = p[0] + (Len(s) + 1)
      BY <2>4, <2>5, <2>8, <3>1
    <3>3. ASSUME NEW y \in 1 .. Len(r)
          PROVE  \E k \in 1 .. n : lines[k].op # op /\ p[k] = p[0] + y /\ r[y] = lines[k]
      <4>1. CASE y = Len(s) + 1
        <5>1. n \in 1 .. n
          BY <1>1, <2>3
        <5> QED
          BY <2>8, <3>1, <3>2, <4>1, <5>1
      <4>2. CASE y # Len(s) + 1
        <5>1. y \in 1 .. Len(s)
          BY <2>5, <3>1, <4>2
        <5> QED
          BY <2>6, <3>1, <5>1
      <4> QED
        BY <4>1, <4>2
    <3>4. KeptOf(r, n, lines, op, p)
      BY <3>1, <3>2, <3>3 DEF KeptOf
    <3> QED
      BY <2>1, <2>3, <2>8, <3>4 DEF s, r, T
  <2> QED
    BY <2>7, <2>8
<1>6. N \in 0 .. N
  BY <1>1
<1>7. KeptOf(g[N], N, lines, op, p)
  BY <1>5, <1>6
<1> QED
  BY <1>3, <1>7 DEF N

\* What a hunk says of itself is where its lines are in either text.
HunkOf(h, e, o, q, a, b, from, to) ==
    /\ h.oldCount = o[to] - o[from - 1] /\ (h.oldCount > 0 => h.oldStart = o[from - 1] + 1)
    /\ h.newCount = q[to] - q[from - 1] /\ (h.newCount > 0 => h.newStart = q[from - 1] + 1)
    /\ h.lines = SubSeq(e, from, to)
    /\ Diff!Side(h.lines, "+") = [k \in 1 .. o[to] - o[from - 1] |-> a[o[from - 1] + k]]
    /\ Diff!Side(h.lines, "-") = [k \in 1 .. q[to] - q[from - 1] |-> b[q[from - 1] + k]]

LEMMA HunkIs ==
    ASSUME NEW a \in Seq(Line), NEW b \in Seq(Line), NEW e \in Seq(EditType), NEW o, NEW q, Placed(e, o, q, a, b),
           NEW from \in 1 .. Len(e), NEW to \in from .. Len(e)
    PROVE  HunkOf(Diff!Hunk(SubSeq(e, from, to)), e, o, q, a, b, from, to)
<1> DEFINE lines == SubSeq(e, from, to)
           h == Diff!Hunk(lines)
           p == [k \in 0 .. Len(lines) |-> o[from - 1 + k]]
           r == [k \in 0 .. Len(lines) |-> q[from - 1 + k]]
           ofOld == Diff!Kept(lines, "+")
           ofNew == Diff!Kept(lines, "-")
<1>1. /\ Len(e) \in Nat /\ from \in Nat /\ to \in Nat /\ from >= 1 /\ from <= to /\ to <= Len(e)
  OBVIOUS
<1>2. /\ lines \in Seq(EditType) /\ Len(lines) = to - from + 1 /\ Len(lines) \in Nat
      /\ \A k \in 1 .. Len(lines) : lines[k] = e[from - 1 + k]
  BY <1>1
<1>3. /\ h.oldStart = (IF ofOld = <<>> THEN 1 ELSE ofOld[1].old) /\ h.oldCount = Len(ofOld)
      /\ h.newStart = (IF ofNew = <<>> THEN 1 ELSE ofNew[1].new) /\ h.newCount = Len(ofNew)
      /\ h.lines = lines
  BY DEF Diff!Hunk
<1>4. /\ Diff!Side(lines, "+") = [k \in 1 .. Len(ofOld) |-> ofOld[k].line]
      /\ Diff!Side(lines, "-") = [k \in 1 .. Len(ofNew) |-> ofNew[k].line]
  BY DEF Diff!Side
<1> HIDE DEF h, lines
<1>5. \A k \in 0 .. Len(lines) : from - 1 + k \in 0 .. Len(e)
  BY <1>1, <1>2
<1>6. o \in [0 .. Len(e) -> Nat] /\ q \in [0 .. Len(e) -> Nat]
  BY DEF Placed
<1>7. /\ p \in [0 .. Len(lines) -> Nat] /\ r \in [0 .. Len(lines) -> Nat]
      /\ \A k \in 0 .. Len(lines) : p[k] = o[from - 1 + k] /\ r[k] = q[from - 1 + k]
  BY <1>5, <1>6
<1> HIDE DEF p, r
<1>8. p[0] = o[from - 1] /\ r[0] = q[from - 1] /\ p[Len(lines)] = o[to] /\ r[Len(lines)] = q[to]
  <2>1. 0 \in 0 .. Len(lines) /\ Len(lines) \in 0 .. Len(lines) /\ from - 1 + 0 = from - 1 /\ from - 1 + Len(lines) = to
    BY <1>1, <1>2
  <2> QED
    BY <1>7, <2>1
<1>9. ASSUME NEW k \in 1 .. Len(lines)
      PROVE  /\ IF lines[k].op = "+" THEN p[k] = p[k - 1]
                ELSE p[k] = p[k - 1] + 1 /\ lines[k].old = p[k] /\ lines[k].line = a[p[k]]
             /\ IF lines[k].op = "-" THEN r[k] = r[k - 1]
                ELSE r[k] = r[k - 1] + 1 /\ lines[k].new = r[k] /\ lines[k].line = b[r[k]]
  <2> DEFINE l == from - 1 + k
  <2>1. l \in 1 .. Len(e) /\ lines[k] = e[l] /\ k \in 0 .. Len(lines) /\ k - 1 \in 0 .. Len(lines) /\ l - 1 = from - 1 + (k - 1)
    BY <1>1, <1>2
  <2>2. p[k] = o[l] /\ r[k] = q[l] /\ p[k - 1] = o[l - 1] /\ r[k - 1] = q[l - 1]
    BY <1>7, <2>1
  <2> HIDE DEF l
  <2>3. /\ IF e[l].op = "+" THEN o[l] = o[l - 1]
           ELSE o[l] = o[l - 1] + 1 /\ e[l].old = o[l] /\ e[l].line = a[o[l]]
        /\ IF e[l].op = "-" THEN q[l] = q[l - 1]
           ELSE q[l] = q[l - 1] + 1 /\ e[l].new = q[l] /\ e[l].line = b[q[l]]
    BY <2>1 DEF Placed
  <2> QED
    BY <2>1, <2>2, <2>3
<1>10. KeptOf(ofOld, Len(lines), lines, "+", p) /\ KeptOf(ofNew, Len(lines), lines, "-", r)
  BY <1>2, <1>7, <1>9, KeptIs
<1> HIDE DEF ofOld, ofNew
<1>11. /\ Len(ofOld) = o[to] - o[from - 1] /\ Len(ofNew) = q[to] - q[from - 1]
       /\ ofOld \in Seq(EditType) /\ ofNew \in Seq(EditType)
  BY <1>8, <1>10 DEF KeptOf
<1>12. \A k \in 1 .. Len(ofOld) : ofOld[k].old = o[from - 1] + k /\ ofOld[k].line = a[o[from - 1] + k]
  <2> TAKE k \in 1 .. Len(ofOld)
  <2>1. PICK l \in 1 .. Len(lines) : lines[l].op # "+" /\ p[l] = p[0] + k /\ ofOld[k] = lines[l]
    BY <1>10 DEF KeptOf
  <2>2. lines[l].old = p[l] /\ lines[l].line = a[p[l]]
    BY <1>9, <2>1
  <2> QED
    BY <1>8, <2>1, <2>2
<1>13. \A k \in 1 .. Len(ofNew) : ofNew[k].new = q[from - 1] + k /\ ofNew[k].line = b[q[from - 1] + k]
  <2> TAKE k \in 1 .. Len(ofNew)
  <2>1. PICK l \in 1 .. Len(lines) : lines[l].op # "-" /\ r[l] = r[0] + k /\ ofNew[k] = lines[l]
    BY <1>10 DEF KeptOf
  <2>2. lines[l].new = r[l] /\ lines[l].line = b[r[l]]
    BY <1>9, <2>1
  <2> QED
    BY <1>8, <2>1, <2>2
<1>14. h.oldCount > 0 => h.oldStart = o[from - 1] + 1
  BY <1>3, <1>11, <1>12
<1>15. h.newCount > 0 => h.newStart = q[from - 1] + 1
  BY <1>3, <1>11, <1>13
<1>16. Diff!Side(lines, "+") = [k \in 1 .. o[to] - o[from - 1] |-> a[o[from - 1] + k]]
  BY <1>4, <1>11, <1>12
<1>17. Diff!Side(lines, "-") = [k \in 1 .. q[to] - q[from - 1] |-> b[q[from - 1] + k]]
  BY <1>4, <1>11, <1>13
<1>18. HunkOf(h, e, o, q, a, b, from, to)
  BY <1>3, <1>11, <1>14, <1>15, <1>16, <1>17 DEF HunkOf, lines
<1> QED
  BY <1>18 DEF h, lines

-----------------------------------------------------------------------------
(* Sequences. *)

Join(u, s, t) ==
    /\ Len(u) = Len(s) + Len(t)
    /\ \A k \in 1 .. Len(s) : u[k] = s[k]
    /\ \A k \in 1 .. Len(t) : u[Len(s) + k] = t[k]

LEMMA Joining ==
    ASSUME NEW S, NEW s \in Seq(S), NEW t \in Seq(S)
    PROVE  s \o t \in Seq(S) /\ Join(s \o t, s, t)
  BY DEF Join

LEMMA ByItsLines ==
    ASSUME NEW S, NEW n \in Nat, NEW s \in Seq(S), NEW t \in Seq(S), Len(s) = n, Len(t) = n,
           \A k \in 1 .. n : s[k] = t[k]
    PROVE  s = t
  OBVIOUS

LEMMA OfAFunction ==
    ASSUME NEW S, NEW n \in Nat, NEW s \in [1 .. n -> S]
    PROVE  s \in Seq(S) /\ Len(s) = n
  OBVIOUS

LEMMA Part ==
    ASSUME NEW S, NEW s \in Seq(S), NEW m \in Nat, NEW n \in m .. Len(s)
    PROVE  /\ SubSeq(s, m + 1, n) \in Seq(S) /\ Len(SubSeq(s, m + 1, n)) = n - m
           /\ \A k \in 1 .. n - m : SubSeq(s, m + 1, n)[k] = s[m + k]
  OBVIOUS

-----------------------------------------------------------------------------
(* A text of which the end is new. *)

\* What is old up to the place of edit p and new from there on.
Mix(o, q, a, b, p) ==
    [x \in 1 .. o[p] + Len(b) - q[p] |-> IF x <= o[p] THEN a[x] ELSE b[x - o[p] + q[p]]]

LEMMA MixIs ==
    ASSUME NEW a \in Seq(Line), NEW b \in Seq(Line), NEW e \in Seq(EditType), NEW o, NEW q, Placed(e, o, q, a, b),
           NEW p \in 0 .. Len(e)
    PROVE  /\ o[p] \in 0 .. Len(a) /\ q[p] \in 0 .. Len(b)
           /\ Mix(o, q, a, b, p) \in Seq(Line) /\ Len(Mix(o, q, a, b, p)) = o[p] + Len(b) - q[p]
           /\ \A x \in 1 .. o[p] + Len(b) - q[p] :
                 Mix(o, q, a, b, p)[x] = IF x <= o[p] THEN a[x] ELSE b[x - o[p] + q[p]]
<1>1. Len(a) \in Nat /\ Len(b) \in Nat /\ Len(e) \in Nat /\ Len(e) \in 0 .. Len(e) /\ p <= Len(e)
  OBVIOUS
<1>2. o[p] <= o[Len(e)] /\ q[p] <= q[Len(e)] /\ o[p] \in Nat /\ q[p] \in Nat /\ o[Len(e)] = Len(a) /\ q[Len(e)] = Len(b)
  BY <1>1 DEF Placed
<1>3. o[p] \in 0 .. Len(a) /\ q[p] \in 0 .. Len(b)
  BY <1>1, <1>2
<1> DEFINE N == o[p] + Len(b) - q[p]
<1>4. N \in Nat
  BY <1>1, <1>3
<1>5. ASSUME NEW x \in 1 .. N
      PROVE  (IF x <= o[p] THEN a[x] ELSE b[x - o[p] + q[p]]) \in Line
  <2>1. CASE x <= o[p]
    <3>1. x \in 1 .. Len(a)
      BY <1>1, <1>3, <2>1
    <3> QED
      BY <2>1, <3>1
  <2>2. CASE ~(x <= o[p])
    <3>1. x - o[p] + q[p] \in 1 .. Len(b)
      <4>1. \A u, v, w, z \in Nat : z \in 1 .. u + w - v /\ ~(z <= u) => z - u + v \in 1 .. w
        OBVIOUS
      <4>2. o[p] \in Nat /\ q[p] \in Nat /\ x \in Nat
        BY <1>2, <1>4
      <4> QED
        BY <1>1, <1>5, <2>2, <4>1, <4>2, Zenon
    <3> QED
      BY <2>2, <3>1
  <2> QED
    BY <2>1, <2>2
<1>6. Mix(o, q, a, b, p) = [x \in 1 .. N |-> IF x <= o[p] THEN a[x] ELSE b[x - o[p] + q[p]]]
  BY DEF Mix
<1>7. Mix(o, q, a, b, p) \in [1 .. N -> Line]
  <2> HIDE DEF N
  <2> QED
    BY <1>5, <1>6
<1>8. Mix(o, q, a, b, p) \in Seq(Line) /\ Len(Mix(o, q, a, b, p)) = N
  <2> HIDE DEF N
  <2> QED
    BY <1>4, <1>7
<1> QED
  BY <1>3, <1>6, <1>8

LEMMA MixAtTheEnds ==
    ASSUME NEW a \in Seq(Line), NEW b \in Seq(Line), NEW e \in Seq(EditType), NEW o, NEW q, Placed(e, o, q, a, b),
           o[0] = 0, q[0] = 0
    PROVE  Mix(o, q, a, b, 0) = b /\ Mix(o, q, a, b, Len(e)) = a
<1>1. Len(a) \in Nat /\ Len(b) \in Nat /\ o[Len(e)] = Len(a) /\ q[Len(e)] = Len(b)
  BY DEF Placed
<1>2. a = [x \in 1 .. Len(a) |-> a[x]] /\ b = [x \in 1 .. Len(b) |-> b[x]]
  OBVIOUS
<1>3. Mix(o, q, a, b, 0) = [x \in 1 .. Len(b) |-> b[x]]
  BY <1>1 DEF Mix
<1>4. Mix(o, q, a, b, Len(e)) = [x \in 1 .. Len(a) |-> a[x]]
  BY <1>1 DEF Mix
<1> QED
  BY <1>2, <1>3, <1>4

\* Over lines that are the same it is the same text.
LEMMA MixStays ==
    ASSUME NEW a \in Seq(Line), NEW b \in Seq(Line), NEW e \in Seq(EditType), NEW o, NEW q, Placed(e, o, q, a, b),
           NEW p \in 1 .. Len(e), e[p].op = "="
    PROVE  Mix(o, q, a, b, p) = Mix(o, q, a, b, p - 1)
<1>1. p \in 0 .. Len(e) /\ p - 1 \in 0 .. Len(e)
  OBVIOUS
<1>2. /\ o[p] = o[p - 1] + 1 /\ q[p] = q[p - 1] + 1 /\ e[p].line = a[o[p]] /\ e[p].line = b[q[p]]
  BY DEF Placed
<1>3. o[p] \in Nat /\ q[p] \in Nat /\ o[p - 1] \in Nat /\ q[p - 1] \in Nat /\ Len(b) \in Nat
  BY <1>1 DEF Placed
<1> DEFINE N == o[p] + Len(b) - q[p]
           left(x) == IF x <= o[p] THEN a[x] ELSE b[x - o[p] + q[p]]
           right(x) == IF x <= o[p - 1] THEN a[x] ELSE b[x - o[p - 1] + q[p - 1]]
<1>4. N = o[p - 1] + Len(b) - q[p - 1]
  BY <1>2, <1>3
<1>5. ASSUME NEW x \in 1 .. N
      PROVE  left(x) = right(x)
  <2>1. CASE x = o[p]
    <3> DEFINE u == o[p - 1]
               v == q[p - 1]
    <3>0. u \in Nat /\ v \in Nat /\ o[p] = u + 1 /\ q[p] = v + 1 /\ x = u + 1
      BY <1>2, <1>3, <2>1
    <3> HIDE DEF u, v
    <3>01. x - u + v = q[p] /\ ~(x <= u) /\ x <= o[p]
      BY <3>0
    <3>1. x - o[p - 1] + q[p - 1] = q[p] /\ ~(x <= o[p - 1]) /\ x <= o[p]
      BY <3>01 DEF u, v
    <3>2. left(x) = a[o[p]] /\ right(x) = b[q[p]]
      BY <2>1, <3>1
    <3> QED
      BY <1>2, <3>2
  <2>2. CASE x # o[p]
    <3> DEFINE u == o[p - 1]
               v == q[p - 1]
    <3>0. u \in Nat /\ v \in Nat /\ o[p] = u + 1 /\ q[p] = v + 1 /\ x # u + 1 /\ x \in Int
      <4>1. x \in Int
        <5> HIDE DEF N
        <5> QED
          OBVIOUS
      <4> QED
        BY <1>2, <1>3, <2>2, <4>1
    <3> HIDE DEF u, v
    <3>02. x - u + v = x - (u + 1) + (v + 1) /\ (x <= u <=> x <= u + 1)
      <4> HIDE DEF N, left, right
      <4>1. u \in Nat /\ v \in Nat /\ x \in Int /\ x # u + 1
        BY <3>0
      <4>2. x - u + v = x - (u + 1) + (v + 1)
        BY <4>1
      <4>3. x <= u <=> x <= u + 1
        BY <4>1
      <4> QED
        BY <4>2, <4>3
    <3>01. x - u + v = x - o[p] + q[p] /\ (x <= u <=> x <= o[p])
      BY <3>0, <3>02, Zenon
    <3>1. x - o[p - 1] + q[p - 1] = x - o[p] + q[p] /\ (x <= o[p - 1] <=> x <= o[p])
      BY <3>01 DEF u, v
    <3> QED
      BY <3>1
  <2> QED
    BY <2>1, <2>2
<1>6. Mix(o, q, a, b, p) = [x \in 1 .. N |-> left(x)] /\ Mix(o, q, a, b, p - 1) = [x \in 1 .. N |-> right(x)]
  BY <1>4 DEF Mix
<1> HIDE DEF left, right, N
<1> QED
  BY <1>5, <1>6

LEMMA MixStretch ==
    ASSUME NEW a \in Seq(Line), NEW b \in Seq(Line), NEW e \in Seq(EditType), NEW o, NEW q, Placed(e, o, q, a, b),
           NEW from \in 0 .. Len(e), NEW to \in from .. Len(e), \A k \in from + 1 .. to : e[k].op = "="
    PROVE  Mix(o, q, a, b, from) = Mix(o, q, a, b, to)
<1> DEFINE T == {k \in from .. to : Mix(o, q, a, b, k) # Mix(o, q, a, b, from)}
<1>1. from \in Nat /\ to \in Nat /\ Len(e) \in Nat /\ from <= to /\ to <= Len(e)
  OBVIOUS
<1>2. ASSUME T # {}
      PROVE  FALSE
  <2>1. T \in SUBSET Nat
    BY <1>1
  <2>2. PICK k \in T : \A m \in T : k <= m
    <3> HIDE DEF T
    <3> QED
      BY <1>2, <2>1, LeastNumber
  <2>3. k # from
    OBVIOUS
  <2>4. k \in 1 .. Len(e) /\ k \in from + 1 .. to /\ k - 1 \in from .. to /\ k - 1 < k /\ k - 1 \in Nat
    BY <1>1, <2>3
  <2>5. Mix(o, q, a, b, k - 1) = Mix(o, q, a, b, from)
    <3>1. k - 1 \notin T
      <4> HIDE DEF T
      <4> QED
        BY <2>1, <2>2, <2>4
    <3> QED
      BY <2>4, <3>1
  <2>6. Mix(o, q, a, b, k) = Mix(o, q, a, b, k - 1)
    BY <2>4, MixStays
  <2> QED
    BY <2>5, <2>6
<1> QED
  BY <1>1, <1>2

\* A hunk with lines of the old text is found where it says, and makes what it
\* covers new.
LEMMA HunkApplies ==
    ASSUME NEW a \in Seq(Line), NEW b \in Seq(Line), NEW e \in Seq(EditType), NEW o, NEW q, Placed(e, o, q, a, b),
           NEW from \in 1 .. Len(e), NEW to \in from .. Len(e), NEW h, HunkOf(h, e, o, q, a, b, from, to),
           h.oldCount > 0
    PROVE  /\ Diff!Applies(Mix(o, q, a, b, to), h)
           /\ Diff!Apply(Mix(o, q, a, b, to), h) = Mix(o, q, a, b, from - 1)
<1> DEFINE A == o[from - 1]
           B == o[to]
           C == q[from - 1]
           D == q[to]
           N == Len(b)
           text == Mix(o, q, a, b, to)
           done == Mix(o, q, a, b, from - 1)
<1>1. /\ from - 1 \in 0 .. Len(e) /\ to \in 0 .. Len(e) /\ from - 1 <= to /\ Len(e) \in Nat
  OBVIOUS
<1>2. A <= B /\ C <= D
  BY <1>1 DEF Placed
<1>3. /\ A \in 0 .. Len(a) /\ C \in 0 .. N /\ done \in Seq(Line) /\ Len(done) = A + N - C
      /\ \A x \in 1 .. A + N - C : done[x] = IF x <= A THEN a[x] ELSE b[x - A + C]
  BY <1>1, MixIs
<1>4. /\ B \in 0 .. Len(a) /\ D \in 0 .. N /\ text \in Seq(Line) /\ Len(text) = B + N - D
      /\ \A x \in 1 .. B + N - D : text[x] = IF x <= B THEN a[x] ELSE b[x - B + D]
  BY <1>1, MixIs
<1>5. /\ h.oldStart = A + 1 /\ h.oldCount = B - A
      /\ Diff!Side(h.lines, "+") = [k \in 1 .. B - A |-> a[A + k]]
      /\ Diff!Side(h.lines, "-") = [k \in 1 .. D - C |-> b[C + k]]
  BY DEF HunkOf
<1>6. Len(a) \in Nat /\ N \in Nat /\ A \in Nat /\ B \in Nat /\ C \in Nat /\ D \in Nat
  <2>1. A \in Nat /\ C \in Nat
    BY <1>3
  <2>2. B \in Nat /\ D \in Nat
    BY <1>4
  <2> QED
    BY <2>1, <2>2
<1> HIDE DEF A, B, C, D, N, text, done
<1>7. /\ h.oldStart + h.oldCount - 1 = B /\ h.oldStart - 1 = A /\ h.oldStart + h.oldCount = B + 1
  <2>1. A + 1 + (B - A) - 1 = B /\ A + 1 - 1 = A /\ A + 1 + (B - A) = B + 1
    BY <1>6
  <2>2. h.oldStart = A + 1 /\ h.oldCount = B - A
    BY <1>5
  <2> QED
    BY <1>6, <2>1, <2>2
<1>8. Diff!Applies(text, h)
  <2> DEFINE s == SubSeq(text, A + 1, B)
             t == [k \in 1 .. B - A |-> a[A + k]]
             n == B - A
  <2>1. n \in Nat /\ B \in A .. Len(text)
    BY <1>2, <1>4, <1>6
  <2>2. s \in Seq(Line) /\ Len(s) = n /\ \A k \in 1 .. n : s[k] = text[A + k]
    BY <1>4, <1>6, <2>1, Part
  <2>3. \A k \in 1 .. n : A + k \in 1 .. B + N - D /\ A + k <= B /\ A + k \in 1 .. Len(a)
    BY <1>2, <1>4, <1>6
  <2>4. t \in Seq(Line) /\ Len(t) = n
    <3>1. t \in [1 .. n -> Line]
      BY <2>3
    <3> HIDE DEF t, n
    <3> QED
      BY <2>1, <3>1, OfAFunction
  <2>5. \A k \in 1 .. n : s[k] = t[k]
    BY <1>4, <2>2, <2>3
  <2> HIDE DEF s, t, n
  <2>6. s = t
    BY <2>1, <2>2, <2>4, <2>5, ByItsLines
  <2> QED
    BY <1>5, <1>7, <2>6 DEF Diff!Applies, s, t
<1>9. Diff!Apply(text, h) = done
  <2> DEFINE X == SubSeq(text, 1, A)
             Y == [k \in 1 .. D - C |-> b[C + k]]
             Z == SubSeq(text, B + 1, Len(text))
             l == A
             m == D - C
             n == N - D
  <2>0. l \in Nat /\ m \in Nat /\ n \in Nat
    BY <1>2, <1>4, <1>6
  <2>1. X \in Seq(Line) /\ Len(X) = l /\ \A k \in 1 .. l : X[k] = a[k]
    <3>1. A \in 0 .. Len(text)
      BY <1>2, <1>4, <1>6
    <3>2. SubSeq(text, 0 + 1, A) \in Seq(Line) /\ Len(SubSeq(text, 0 + 1, A)) = A - 0
          /\ \A k \in 1 .. A - 0 : SubSeq(text, 0 + 1, A)[k] = text[0 + k]
      BY <1>4, <3>1, Part
    <3>3. X \in Seq(Line) /\ Len(X) = A /\ \A k \in 1 .. A : X[k] = text[k]
      BY <1>6, <3>2
    <3>4. \A k \in 1 .. A : text[k] = a[k]
      BY <1>2, <1>4, <1>6
    <3> QED
      BY <3>3, <3>4
  <2>2. Y \in Seq(Line) /\ Len(Y) = m /\ \A k \in 1 .. m : Y[k] = b[C + k]
    <3>1. \A k \in 1 .. m : C + k \in 1 .. Len(b)
      BY <1>4, <1>6 DEF N
    <3>2. Y \in [1 .. m -> Line]
      BY <3>1
    <3>3. \A k \in 1 .. m : Y[k] = b[C + k]
      OBVIOUS
    <3> HIDE DEF m, Y
    <3> QED
      BY <2>0, <3>2, <3>3, OfAFunction
  <2>3. Z \in Seq(Line) /\ Len(Z) = n /\ \A k \in 1 .. n : Z[k] = b[D + k]
    <3>1. B \in Nat /\ Len(text) \in B .. Len(text) /\ Len(text) - B = N - D
      <4>1. Len(text) = B + N - D /\ D <= N /\ D \in Nat /\ N \in Nat /\ B \in Nat
        <5>1. D <= N
          BY <1>4, <1>6
        <5> QED
          BY <1>4, <1>6, <5>1
      <4> QED
        BY <4>1
    <3>2. Z \in Seq(Line) /\ Len(Z) = N - D /\ \A k \in 1 .. N - D : Z[k] = text[B + k]
      <4> DEFINE z == Len(text)
      <4>1. z \in B .. Len(text) /\ z - B = N - D
        BY <3>1
      <4> HIDE DEF z
      <4>2. SubSeq(text, B + 1, z) \in Seq(Line) /\ Len(SubSeq(text, B + 1, z)) = z - B
            /\ \A k \in 1 .. z - B : SubSeq(text, B + 1, z)[k] = text[B + k]
        BY <1>4, <3>1, <4>1, Part
      <4>3. Z = SubSeq(text, B + 1, z)
        BY DEF z
      <4> HIDE DEF Z
      <4> QED
        BY <4>1, <4>2, <4>3
    <3>3. \A k \in 1 .. N - D : text[B + k] = b[D + k]
      <4> TAKE k \in 1 .. N - D
      <4> DEFINE x == B + k
      <4>1. x \in 1 .. B + N - D /\ ~(x <= B) /\ x - B + D = D + k
        BY <1>4, <1>6
      <4> HIDE DEF x
      <4>2. text[x] = b[x - B + D]
        BY <1>4, <4>1
      <4> QED
        BY <4>1, <4>2 DEF x
    <3> QED
      BY <3>2, <3>3
  <2>4. Diff!Apply(text, h) = X \o Y \o Z
    BY <1>5, <1>7 DEF Diff!Apply
  <2>5. A + N - C = l + m + n
    BY <1>6
  <2>6. /\ \A k \in 1 .. l : k \in 1 .. A + N - C /\ done[k] = a[k]
        /\ \A k \in 1 .. m : l + k \in 1 .. A + N - C /\ done[l + k] = b[C + k]
        /\ \A k \in 1 .. n : l + m + k \in 1 .. A + N - C /\ done[l + m + k] = b[D + k]
    <3>1. \A k \in 1 .. l : k \in 1 .. A + N - C /\ k <= A
      BY <1>2, <1>4, <1>6
    <3>2. \A k \in 1 .. m : l + k \in 1 .. A + N - C /\ ~(l + k <= A) /\ l + k - A + C = C + k
      BY <1>2, <1>4, <1>6
    <3>3. \A k \in 1 .. n : l + m + k \in 1 .. A + N - C /\ ~(l + m + k <= A) /\ l + m + k - A + C = D + k
      BY <1>2, <1>4, <1>6
    <3> HIDE DEF l, m, n
    <3>4. \A k \in 1 .. l : done[k] = a[k]
      BY <1>3, <3>1, Zenon
    <3>5. \A k \in 1 .. m : done[l + k] = b[C + k]
      <4> TAKE k \in 1 .. m
      <4>1. l + k \in 1 .. A + N - C /\ ~(l + k <= A) /\ l + k - A + C = C + k
        BY <3>2
      <4>2. done[l + k] = b[l + k - A + C]
        <5>1. \A z \in 1 .. A + N - C : ~(z <= A) => done[z] = b[z - A + C]
          BY <1>3
        <5> QED
          BY <1>6, <2>0, <4>1, <5>1
      <4> QED
        BY <4>1, <4>2, Zenon
    <3>6. \A k \in 1 .. n : done[l + m + k] = b[D + k]
      <4> TAKE k \in 1 .. n
      <4>1. l + m + k \in 1 .. A + N - C /\ ~(l + m + k <= A) /\ l + m + k - A + C = D + k
        BY <3>3
      <4>2. done[l + m + k] = b[l + m + k - A + C]
        <5>1. \A z \in 1 .. A + N - C : ~(z <= A) => done[z] = b[z - A + C]
          BY <1>3
        <5> QED
          BY <1>6, <2>0, <4>1, <5>1
      <4> QED
        BY <4>1, <4>2, Zenon
    <3> QED
      BY <3>1, <3>2, <3>3, <3>4, <3>5, <3>6, Zenon
  <2> HIDE DEF X, Y, Z, l, m, n
  <2> DEFINE W == X \o Y
             R == W \o Z
  <2>7. W \in Seq(Line) /\ Len(W) = l + m /\ (\A k \in 1 .. l : W[k] = X[k]) /\ \A k \in 1 .. m : W[l + k] = Y[k]
    <3>1. W \in Seq(Line) /\ Join(W, X, Y)
      BY <2>1, <2>2, Joining
    <3> HIDE DEF W
    <3> QED
      BY <2>1, <2>2, <3>1 DEF Join
  <2> HIDE DEF W
  <2>8. /\ R \in Seq(Line) /\ Len(R) = l + m + n /\ (\A k \in 1 .. l + m : R[k] = W[k])
        /\ \A k \in 1 .. n : R[l + m + k] = Z[k]
    <3>1. R \in Seq(Line) /\ Join(R, W, Z)
      BY <2>3, <2>7, Joining
    <3> HIDE DEF R
    <3> QED
      BY <2>3, <2>7, <3>1 DEF Join
  <2> HIDE DEF R
  <2>9. ASSUME NEW k \in 1 .. l + m + n
        PROVE  R[k] = done[k]
    <3>1. CASE k <= l
      <4>1. k \in 1 .. l /\ k \in 1 .. l + m
        BY <2>0, <3>1
      <4>2. R[k] = W[k] /\ W[k] = X[k] /\ X[k] = a[k] /\ done[k] = a[k]
        BY <2>1, <2>6, <2>7, <2>8, <4>1
      <4> QED
        BY <4>2
    <3>2. CASE k > l /\ k <= l + m
      <4>1. k - l \in 1 .. m /\ k \in 1 .. l + m /\ k = l + (k - l)
        BY <2>0, <3>2
      <4> DEFINE i == k - l
      <4>2. R[l + i] = W[l + i] /\ W[l + i] = Y[i] /\ Y[i] = b[C + i] /\ done[l + i] = b[C + i]
        <5>1. R[k] = W[k]
          BY <2>8, <4>1
        <5>2. W[l + i] = Y[i] /\ Y[i] = b[C + i] /\ done[l + i] = b[C + i]
          BY <2>2, <2>6, <2>7, <4>1
        <5> QED
          BY <4>1, <5>1, <5>2
      <4> QED
        BY <4>1, <4>2
    <3>3. CASE k > l + m
      <4>1. k - (l + m) \in 1 .. n /\ k = l + m + (k - (l + m))
        BY <2>0, <3>3
      <4> DEFINE i == k - (l + m)
      <4>2. R[l + m + i] = Z[i] /\ Z[i] = b[D + i] /\ done[l + m + i] = b[D + i]
        BY <2>3, <2>6, <2>8, <4>1
      <4> QED
        BY <4>1, <4>2
    <3> QED
      BY <2>0, <3>1, <3>2, <3>3
  <2>10. l + m + n \in Nat
    BY <2>0
  <2>11. Len(done) = l + m + n
    BY <1>3, <2>5
  <2> DEFINE L == l + m + n
  <2>12. R = done
    <3>1. /\ L \in Nat /\ R \in Seq(Line) /\ done \in Seq(Line) /\ Len(R) = L /\ Len(done) = L
          /\ \A k \in 1 .. L : R[k] = done[k]
      BY <1>3, <2>8, <2>9, <2>10, <2>11
    <3> HIDE DEF L
    <3> QED
      BY <3>1, ByItsLines
  <2> QED
    BY <2>4, <2>12 DEF R, W
<1> QED
  BY <1>8, <1>9 DEF text, done

-----------------------------------------------------------------------------
(* The changes of the hunks. *)

\* What there is of the groups after each of the edits.
Group(e, c, k, g) == [i \in 0 .. k |-> IF i = 0 THEN <<>> ELSE Diff!Joined(g[i - 1], e, c, i)]

LEMMA GroupsExist ==
    ASSUME NEW e, NEW c, NEW k \in Nat
    PROVE  \E g : g = Group(e, c, k, g)
<1> DEFINE T == {n \in Nat : ~\E g : g = Group(e, c, n, g)}
<1>1. ASSUME T # {}
      PROVE  FALSE
  <2>1. PICK n \in T : \A m \in T : n <= m
    BY <1>1, LeastNumber
  <2>2. n # 0
    <3>1. Group(e, c, 0, [i \in 0 .. 0 |-> <<>>]) = [i \in 0 .. 0 |-> <<>>]
      BY DEF Group
    <3> QED
      BY <3>1
  <2>3. n - 1 \in Nat /\ n - 1 \notin T
    BY <2>1, <2>2
  <2>4. PICK g : g = Group(e, c, n - 1, g)
    BY <2>3
  <2> DEFINE final == Diff!Joined(g[n - 1], e, c, n)
             h == [i \in 0 .. n |-> IF i = n THEN final ELSE g[i]]
  <2>5. \A i \in 0 .. n - 1 : g[i] = IF i = 0 THEN <<>> ELSE Diff!Joined(g[i - 1], e, c, i)
    BY <2>3, <2>4 DEF Group
  <2>6. ASSUME NEW i \in 0 .. n
        PROVE  h[i] = IF i = 0 THEN <<>> ELSE Diff!Joined(h[i - 1], e, c, i)
    <3>1. CASE i = n
      <4>1. h[i] = final /\ h[i - 1] = g[n - 1]
        BY <2>2, <3>1
      <4> HIDE DEF h
      <4> QED
        BY <2>2, <3>1, <4>1
    <3>2. CASE i # n
      <4>1. h[i] = g[i] /\ (i # 0 => h[i - 1] = g[i - 1]) /\ i \in 0 .. n - 1
        BY <3>2
      <4> HIDE DEF h
      <4> QED
        BY <2>5, <4>1
    <3> QED
      BY <3>1, <3>2
  <2>7. h = Group(e, c, n, h)
    BY <2>6 DEF Group
  <2> QED
    BY <2>7
<1> QED
  BY <1>1

Span == [first : Nat, last : Nat]

\* Up to edit n every change is in a group, the ends of a group are changes,
\* and what is between two is more than the context of both.
GroupedUpTo(g, n, e, c) ==
    /\ g \in Seq(Span)
    /\ \A x \in 1 .. Len(g) :
          /\ 1 <= g[x].first /\ g[x].first <= g[x].last /\ g[x].last <= n
          /\ e[g[x].first].op # "=" /\ e[g[x].last].op # "="
    /\ \A x, y \in 1 .. Len(g) : x < y => g[y].first > g[x].last + 2 * c + 1
    /\ \A k \in 1 .. n : e[k].op # "=" => \E x \in 1 .. Len(g) : g[x].first <= k /\ k <= g[x].last

LEMMA Replaced ==
    ASSUME NEW S, NEW s \in Seq(S), NEW i \in 1 .. Len(s), NEW t \in S
    PROVE  /\ [s EXCEPT ![i] = t] \in Seq(S) /\ Len([s EXCEPT ![i] = t]) = Len(s)
           /\ \A x \in 1 .. Len(s) : [s EXCEPT ![i] = t][x] = IF x = i THEN t ELSE s[x]
  OBVIOUS

LEMMA JoinedKeeps ==
    ASSUME NEW e, NEW c \in Nat, NEW n \in Nat \ {0}, NEW s, GroupedUpTo(s, n - 1, e, c)
    PROVE  GroupedUpTo(Diff!Joined(s, e, c, n), n, e, c)
<1> DEFINE r == Diff!Joined(s, e, c, n)
           m == Len(s)
<1>1. /\ s \in Seq(Span) /\ m \in Nat /\ (\A x \in 1 .. m : s[x] \in Span /\ s[x].first \in Nat /\ s[x].last \in Nat)
      /\ \A x \in 1 .. m :
            /\ 1 <= s[x].first /\ s[x].first <= s[x].last /\ s[x].last <= n - 1
            /\ e[s[x].first].op # "=" /\ e[s[x].last].op # "="
      /\ \A x, y \in 1 .. m : x < y => s[y].first > s[x].last + 2 * c + 1
      /\ \A k \in 1 .. n - 1 : e[k].op # "=" => \E x \in 1 .. m : s[x].first <= k /\ k <= s[x].last
  <2>1. s \in Seq(Span) /\ m \in Nat
    BY DEF GroupedUpTo
  <2>2. \A x \in 1 .. m : s[x] \in Span /\ s[x].first \in Nat /\ s[x].last \in Nat
    <3>1. \A x \in 1 .. m : s[x] \in Span
      BY <2>1
    <3>2. \A z \in Span : z.first \in Nat /\ z.last \in Nat
      BY DEF Span
    <3> QED
      BY <3>1, <3>2
  <2> QED
    BY <2>1, <2>2 DEF GroupedUpTo
<1>2. \A x \in 1 .. m : s[x].last <= n
  BY <1>1
<1>3. CASE e[n].op = "="
  <2>1. r = s
    BY <1>3 DEF Diff!Joined
  <2>2. \A k \in 1 .. n : e[k].op # "=" => k \in 1 .. n - 1
    BY <1>3
  <2>3. GroupedUpTo(s, n, e, c)
    BY <1>1, <1>2, <2>2 DEF GroupedUpTo
  <2> QED
    BY <2>1, <2>3
<1>4. CASE e[n].op # "=" /\ (s = <<>> \/ Diff!Closes(n - s[m].last - 1, c))
  <2>1. r = Append(s, [first |-> n, last |-> n])
    BY <1>4 DEF Diff!Joined
  <2>2. [first |-> n, last |-> n] \in Span
    BY DEF Span
  <2>3. /\ r \in Seq(Span) /\ Len(r) = m + 1 /\ (\A x \in 1 .. m : r[x] = s[x])
        /\ r[m + 1].first = n /\ r[m + 1].last = n
    BY <1>1, <2>1, <2>2
  <2> HIDE DEF r
  <2>4. \A x \in 1 .. m : n > s[x].last + 2 * c + 1
    <3> TAKE x \in 1 .. m
    <3>1. m \in 1 .. m /\ s # <<>> /\ x <= m
      BY <1>1
    <3>2. n - s[m].last - 1 > 2 * c
      BY <1>4, <3>1 DEF Diff!Closes
    <3>3. s[x].last <= s[m].last
      <4>1. CASE x = m
        BY <1>1, <3>1, <4>1
      <4>2. CASE x # m
        <5>1. x < m
          BY <1>1, <3>1, <4>2
        <5>2. s[m].first > s[x].last + 2 * c + 1
          BY <1>1, <3>1, <5>1
        <5>3. s[m].first <= s[m].last /\ s[m].first \in Nat /\ s[m].last \in Nat /\ s[x].last \in Nat
          BY <1>1, <3>1
        <5> QED
          BY <5>2, <5>3
      <4> QED
        BY <4>1, <4>2
    <3>4. s[m].last \in Nat /\ s[x].last \in Nat
      BY <1>1, <3>1
    <3> QED
      BY <3>2, <3>3, <3>4
  <2>5. ASSUME NEW x \in 1 .. Len(r)
        PROVE  /\ 1 <= r[x].first /\ r[x].first <= r[x].last /\ r[x].last <= n
               /\ e[r[x].first].op # "=" /\ e[r[x].last].op # "="
    <3>1. CASE x \in 1 .. m
      BY <1>1, <1>2, <2>3, <3>1
    <3>2. CASE x = m + 1
      BY <1>4, <2>3, <3>2
    <3> QED
      BY <1>1, <2>3, <3>1, <3>2
  <2>6. ASSUME NEW x \in 1 .. Len(r), NEW y \in 1 .. Len(r), x < y
        PROVE  r[y].first > r[x].last + 2 * c + 1
    <3>1. x \in 1 .. m
      BY <1>1, <2>3, <2>6
    <3>2. CASE y \in 1 .. m
      BY <1>1, <2>3, <2>6, <3>1, <3>2
    <3>3. CASE y = m + 1
      BY <2>3, <2>4, <3>1, <3>3
    <3> QED
      BY <1>1, <2>3, <3>2, <3>3
  <2>7. ASSUME NEW k \in 1 .. n, e[k].op # "="
        PROVE  \E x \in 1 .. Len(r) : r[x].first <= k /\ k <= r[x].last
    <3>1. CASE k = n
      <4>1. m + 1 \in 1 .. Len(r)
        BY <1>1, <2>3
      <4> QED
        BY <2>3, <3>1, <4>1
    <3>2. CASE k # n
      <4>1. PICK x \in 1 .. m : s[x].first <= k /\ k <= s[x].last
        BY <1>1, <2>7, <3>2
      <4>2. x \in 1 .. Len(r) /\ r[x] = s[x]
        BY <1>1, <2>3
      <4> QED
        BY <4>1, <4>2
    <3> QED
      BY <3>1, <3>2
  <2>8. GroupedUpTo(r, n, e, c)
    BY <2>3, <2>5, <2>6, <2>7 DEF GroupedUpTo
  <2> QED
    BY <2>8 DEF r
<1>5. CASE e[n].op # "=" /\ ~(s = <<>> \/ Diff!Closes(n - s[m].last - 1, c))
  <2>1. r = [s EXCEPT ![m].last = n]
    BY <1>5 DEF Diff!Joined
  <2>2. m \in 1 .. m
    BY <1>1, <1>5
  <2>3. /\ r \in Seq(Span) /\ Len(r) = m /\ (\A x \in 1 .. m : x # m => r[x] = s[x])
        /\ r[m].first = s[m].first /\ r[m].last = n
    <3>1. r = [s EXCEPT ![m] = [s[m] EXCEPT !.last = n]]
      BY <2>1
    <3> DEFINE t == [s[m] EXCEPT !.last = n]
    <3>2. t \in Span /\ t.first = s[m].first /\ t.last = n
      BY <1>1, <2>2 DEF Span
    <3>3. r = [s EXCEPT ![m] = t]
      BY <3>1
    <3> HIDE DEF t
    <3>4. /\ [s EXCEPT ![m] = t] \in Seq(Span) /\ Len([s EXCEPT ![m] = t]) = m
          /\ \A x \in 1 .. m : [s EXCEPT ![m] = t][x] = IF x = m THEN t ELSE s[x]
      BY <1>1, <2>2, <3>2, Replaced
    <3> HIDE DEF r
    <3> QED
      BY <2>2, <3>2, <3>3, <3>4
  <2> HIDE DEF r
  <2>4. ASSUME NEW x \in 1 .. m
        PROVE  /\ 1 <= r[x].first /\ r[x].first <= r[x].last /\ r[x].last <= n
               /\ e[r[x].first].op # "=" /\ e[r[x].last].op # "="
    <3>1. CASE x # m
      BY <1>1, <1>2, <2>3, <3>1
    <3>2. CASE x = m
      <4>1. s[m].first \in Nat /\ 1 <= s[m].first /\ s[m].first <= s[m].last /\ s[m].last <= n /\ s[m].last \in Nat
            /\ e[s[m].first].op # "="
        BY <1>1, <1>2, <2>2
      <4>2. s[m].first <= n
        BY <4>1
      <4> QED
        BY <1>5, <2>3, <3>2, <4>1, <4>2
    <3> QED
      BY <3>1, <3>2
  <2>5. ASSUME NEW x \in 1 .. m, NEW y \in 1 .. m, x < y
        PROVE  r[y].first > r[x].last + 2 * c + 1
    <3>1. x # m /\ r[x] = s[x] /\ r[y].first = s[y].first
      BY <1>1, <2>3, <2>5
    <3> QED
      BY <1>1, <2>5, <3>1
  <2>6. ASSUME NEW k \in 1 .. n, e[k].op # "="
        PROVE  \E x \in 1 .. m : r[x].first <= k /\ k <= r[x].last
    <3>1. CASE k = n
      <4>1. s[m].first \in Nat /\ s[m].last \in Nat /\ s[m].first <= s[m].last /\ s[m].last <= n
        BY <1>1, <1>2, <2>2
      <4>2. r[m].first <= k /\ k <= r[m].last
        BY <2>3, <3>1, <4>1
      <4> QED
        BY <2>2, <4>2
    <3>2. CASE k # n
      <4>1. PICK x \in 1 .. m : s[x].first <= k /\ k <= s[x].last
        BY <1>1, <2>6, <3>2
      <4>2. r[x].first <= k /\ k <= r[x].last
        BY <2>3, <4>1
      <4> QED
        BY <4>2
    <3> QED
      BY <3>1, <3>2
  <2>7. GroupedUpTo(r, n, e, c)
    BY <2>3, <2>4, <2>5, <2>6 DEF GroupedUpTo
  <2> QED
    BY <2>7 DEF r
<1> QED
  BY <1>3, <1>4, <1>5

LEMMA GroupsAre ==
    ASSUME NEW e, NEW c \in Nat, Len(e) \in Nat
    PROVE  GroupedUpTo(Diff!Groups(e, c), Len(e), e, c)
<1> DEFINE N == Len(e)
           g == CHOOSE g : g = Group(e, c, N, g)
<1>1. N \in Nat
  OBVIOUS
<1>2. g = Group(e, c, N, g)
  BY <1>1, GroupsExist
<1>3. Diff!Groups(e, c) = g[N]
  BY DEF Diff!Groups, Group
<1> HIDE DEF g
<1>4. \A n \in 0 .. N : g[n] = IF n = 0 THEN <<>> ELSE Diff!Joined(g[n - 1], e, c, n)
  BY <1>2 DEF Group
<1> HIDE DEF N
<1> DEFINE T == {n \in 0 .. N : ~GroupedUpTo(g[n], n, e, c)}
<1>5. ASSUME T # {}
      PROVE  FALSE
  <2>1. PICK n \in T : \A m \in T : n <= m
    <3>1. T \in SUBSET Nat
      OBVIOUS
    <3> HIDE DEF T
    <3> QED
      BY <1>5, <3>1, LeastNumber
  <2>2. n # 0
    <3>1. g[0] = <<>>
      <4>1. 0 \in 0 .. N
        BY <1>1
      <4>2. g[0] = IF 0 = 0 THEN <<>> ELSE Diff!Joined(g[0 - 1], e, c, 0)
        BY <1>4, <4>1
      <4> QED
        BY <4>2
    <3>2. GroupedUpTo(<<>>, 0, e, c)
      BY DEF GroupedUpTo
    <3> QED
      BY <3>1, <3>2
  <2>3. n \in Nat \ {0} /\ GroupedUpTo(g[n - 1], n - 1, e, c) /\ g[n] = Diff!Joined(g[n - 1], e, c, n)
    BY <1>1, <1>4, <2>1, <2>2
  <2>4. GroupedUpTo(g[n], n, e, c)
    BY <2>3, JoinedKeeps
  <2> QED
    BY <2>4
<1>6. N \in 0 .. N
  BY <1>1
<1>7. GroupedUpTo(g[N], N, e, c)
  BY <1>5, <1>6
<1> QED
  BY <1>3, <1>7 DEF N

-----------------------------------------------------------------------------
(* The hunks. *)

\* The first and the last edit of a hunk.
HunkFrom(e, c, x) == Diff!From(Diff!Groups(e, c)[x], c)
HunkTo(e, c, x) == Diff!To(e, Diff!Groups(e, c)[x], c)

Changes(e, from, to) == \E k \in from .. to : e[k].op # "="

\* Every change is in a hunk and every hunk has one, a hunk begins and ends
\* with lines that stay or where the script does, and between two hunks there
\* are lines.
LEMMA HunksEnd ==
    ASSUME NEW e, NEW n \in Nat, Len(e) = n, NEW c \in Nat \ {0}
    PROVE  /\ Len(Diff!Groups(e, c)) \in Nat
           /\ \A x \in 1 .. Len(Diff!Groups(e, c)) :
                 /\ HunkFrom(e, c, x) \in 1 .. n /\ HunkTo(e, c, x) \in HunkFrom(e, c, x) .. n
                 /\ HunkFrom(e, c, x) = 1 \/ e[HunkFrom(e, c, x)].op = "="
                 /\ HunkTo(e, c, x) = n \/ e[HunkTo(e, c, x)].op = "="
                 /\ Changes(e, HunkFrom(e, c, x), HunkTo(e, c, x))
           /\ \A x, y \in 1 .. Len(Diff!Groups(e, c)) : x < y => HunkTo(e, c, x) + 1 < HunkFrom(e, c, y)
           /\ \A k \in 1 .. n : e[k].op # "=" =>
                 \E x \in 1 .. Len(Diff!Groups(e, c)) : HunkFrom(e, c, x) <= k /\ k <= HunkTo(e, c, x)
<1> DEFINE g == Diff!Groups(e, c)
           m == Len(g)
           f(x) == HunkFrom(e, c, x)
           l(x) == HunkTo(e, c, x)
           u(x) == g[x].first
           v(x) == g[x].last
<1>1. GroupedUpTo(g, n, e, c)
  BY GroupsAre
<1> HIDE DEF g
<1>2. /\ m \in Nat /\ (\A x \in 1 .. m : u(x) \in Nat /\ v(x) \in Nat)
      /\ \A x \in 1 .. m :
            /\ 1 <= u(x) /\ u(x) <= v(x) /\ v(x) <= n
            /\ e[u(x)].op # "=" /\ e[v(x)].op # "="
      /\ \A x, y \in 1 .. m : x < y => u(y) > v(x) + 2 * c + 1
      /\ \A k \in 1 .. n : e[k].op # "=" => \E x \in 1 .. m : u(x) <= k /\ k <= v(x)
  <2>1. g \in Seq(Span) /\ m \in Nat
    BY <1>1 DEF GroupedUpTo
  <2>2. \A x \in 1 .. m : u(x) \in Nat /\ v(x) \in Nat
    <3>1. \A x \in 1 .. m : g[x] \in Span
      BY <2>1
    <3>2. \A z \in Span : z.first \in Nat /\ z.last \in Nat
      BY DEF Span
    <3> QED
      BY <3>1, <3>2
  <2> QED
    BY <1>1, <2>1, <2>2 DEF GroupedUpTo
<1>3. \A x \in 1 .. m : /\ f(x) = (IF u(x) > c THEN u(x) - c ELSE 1)
                        /\ l(x) = (IF v(x) + c < n THEN v(x) + c ELSE n)
  BY DEF HunkFrom, HunkTo, Diff!From, Diff!To, g
<1> HIDE DEF m, f, l, u, v
<1>4. \A x \in 1 .. m : /\ f(x) \in Nat /\ l(x) \in Nat /\ 1 <= f(x) /\ f(x) <= u(x) /\ v(x) <= l(x) /\ l(x) <= n
                        /\ f(x) # 1 => f(x) < u(x) /\ f(x) = u(x) - c
                        /\ l(x) # n => l(x) > v(x)
                        /\ l(x) <= v(x) + c
                        /\ f(x) >= u(x) - c
  <2> TAKE x \in 1 .. m
  <2>1. u(x) \in Nat /\ v(x) \in Nat /\ 1 <= u(x) /\ v(x) <= n
    BY <1>2
  <2>2. f(x) = (IF u(x) > c THEN u(x) - c ELSE 1) /\ l(x) = (IF v(x) + c < n THEN v(x) + c ELSE n)
    BY <1>3
  <2> DEFINE uu == u(x)
             vv == v(x)
  <2> HIDE DEF uu, vv
  <2>3. uu \in Nat /\ vv \in Nat /\ 1 <= uu /\ vv <= n /\ f(x) = (IF uu > c THEN uu - c ELSE 1) /\ l(x) = (IF vv + c < n THEN vv + c ELSE n)
    BY <2>1, <2>2 DEF uu, vv
  <2>4. /\ f(x) \in Nat /\ l(x) \in Nat /\ 1 <= f(x) /\ f(x) <= uu /\ vv <= l(x) /\ l(x) <= n
        /\ f(x) # 1 => f(x) < uu /\ f(x) = uu - c
        /\ l(x) # n => l(x) > vv
        /\ l(x) <= vv + c
        /\ f(x) >= uu - c
    BY <2>3
  <2> QED
    BY <2>4 DEF uu, vv
<1>5. \A x, y \in 1 .. m : x < y => l(x) + 1 < f(y)
  <2> TAKE x, y \in 1 .. m
  <2> HAVE x < y
  <2>1. u(y) > v(x) + 2 * c + 1
    BY <1>2
  <2>2. u(y) \in Nat /\ v(x) \in Nat /\ l(x) \in Nat /\ f(y) \in Nat /\ l(x) <= v(x) + c /\ f(y) >= u(y) - c
    BY <1>2, <1>4
  <2> QED
    BY <2>1, <2>2
<1>6. ASSUME NEW x \in 1 .. m, NEW k \in 1 .. n, k < u(x), k >= u(x) - c
      PROVE  e[k].op = "="
  <2>1. ASSUME e[k].op # "="
        PROVE  FALSE
    <3>1. PICK y \in 1 .. m : u(y) <= k /\ k <= v(y)
      BY <1>2, <2>1
    <3>2. u(x) \in Nat /\ u(y) \in Nat /\ v(x) \in Nat /\ v(y) \in Nat /\ u(x) <= v(x) /\ u(y) <= v(y) /\ x \in Nat /\ y \in Nat
      BY <1>2
    <3>3. CASE x < y
      <4>1. u(y) > v(x) + 2 * c + 1
        BY <1>2, <3>3
      <4> QED
        BY <1>6, <3>1, <3>2, <4>1
    <3>4. CASE y < x
      <4>1. u(x) > v(y) + 2 * c + 1
        BY <1>2, <3>4
      <4> QED
        BY <1>6, <3>1, <3>2, <4>1
    <3>5. CASE x = y
      BY <1>6, <3>1, <3>2, <3>5
    <3> QED
      BY <3>2, <3>3, <3>4, <3>5
  <2> QED
    BY <2>1
<1>7. ASSUME NEW x \in 1 .. m, NEW k \in 1 .. n, k > v(x), k <= v(x) + c
      PROVE  e[k].op = "="
  <2>1. ASSUME e[k].op # "="
        PROVE  FALSE
    <3>1. PICK y \in 1 .. m : u(y) <= k /\ k <= v(y)
      BY <1>2, <2>1
    <3>2. u(x) \in Nat /\ u(y) \in Nat /\ v(x) \in Nat /\ v(y) \in Nat /\ u(x) <= v(x) /\ u(y) <= v(y) /\ x \in Nat /\ y \in Nat
      BY <1>2
    <3>3. CASE x < y
      <4>1. u(y) > v(x) + 2 * c + 1
        BY <1>2, <3>3
      <4> QED
        BY <1>7, <3>1, <3>2, <4>1
    <3>4. CASE y < x
      <4>1. u(x) > v(y) + 2 * c + 1
        BY <1>2, <3>4
      <4> QED
        BY <1>7, <3>1, <3>2, <4>1
    <3>5. CASE x = y
      BY <1>7, <3>1, <3>2, <3>5
    <3> QED
      BY <3>2, <3>3, <3>4, <3>5
  <2> QED
    BY <2>1
<1>8. ASSUME NEW x \in 1 .. m
      PROVE  /\ f(x) \in 1 .. n /\ l(x) \in f(x) .. n
             /\ f(x) = 1 \/ e[f(x)].op = "="
             /\ l(x) = n \/ e[l(x)].op = "="
             /\ Changes(e, f(x), l(x))
  <2>1. u(x) \in Nat /\ v(x) \in Nat /\ 1 <= u(x) /\ u(x) <= v(x) /\ v(x) <= n /\ e[u(x)].op # "="
    BY <1>2
  <2>2. /\ f(x) \in Nat /\ l(x) \in Nat /\ 1 <= f(x) /\ f(x) <= u(x) /\ v(x) <= l(x) /\ l(x) <= n
        /\ f(x) # 1 => f(x) < u(x) /\ f(x) = u(x) - c
        /\ l(x) # n => l(x) > v(x)
        /\ l(x) <= v(x) + c
    BY <1>4
  <2>3. f(x) \in 1 .. n /\ l(x) \in f(x) .. n /\ l(x) \in 1 .. n /\ u(x) \in f(x) .. l(x)
    BY <2>1, <2>2
  <2>4. f(x) = 1 \/ e[f(x)].op = "="
    <3>1. ASSUME f(x) # 1
          PROVE  e[f(x)].op = "="
      <4>1. f(x) < u(x) /\ f(x) >= u(x) - c
        BY <2>1, <2>2, <3>1
      <4> QED
        BY <1>6, <2>3, <4>1
    <3> QED
      BY <3>1
  <2>5. l(x) = n \/ e[l(x)].op = "="
    BY <1>7, <2>2, <2>3
  <2>6. Changes(e, f(x), l(x))
    BY <2>1, <2>3 DEF Changes
  <2> QED
    BY <2>3, <2>4, <2>5, <2>6
<1>9. ASSUME NEW k \in 1 .. n, e[k].op # "="
      PROVE  \E x \in 1 .. m : f(x) <= k /\ k <= l(x)
  <2>1. PICK x \in 1 .. m : u(x) <= k /\ k <= v(x)
    BY <1>2, <1>9
  <2>2. u(x) \in Nat /\ v(x) \in Nat /\ f(x) \in Nat /\ l(x) \in Nat /\ f(x) <= u(x) /\ v(x) <= l(x)
    BY <1>2, <1>4
  <2>3. f(x) <= k /\ k <= l(x)
    BY <2>1, <2>2
  <2> QED
    BY <2>3
<1>10. /\ m \in Nat
       /\ \A x \in 1 .. m :
             /\ f(x) \in 1 .. n /\ l(x) \in f(x) .. n
             /\ f(x) = 1 \/ e[f(x)].op = "="
             /\ l(x) = n \/ e[l(x)].op = "="
             /\ Changes(e, f(x), l(x))
       /\ \A x, y \in 1 .. m : x < y => l(x) + 1 < f(y)
       /\ \A k \in 1 .. n : e[k].op # "=" => \E x \in 1 .. m : f(x) <= k /\ k <= l(x)
  BY <1>2, <1>5, <1>8, <1>9
<1> QED
  BY <1>10 DEF m, f, l, g

\* A hunk has lines of a text that has any.
LEMMA HunkHasLines ==
    ASSUME NEW e, NEW o, NEW n \in Nat \ {0}, NEW from \in 1 .. n, NEW to \in from .. n,
           o \in [0 .. n -> Nat],
           \A k, l \in 0 .. n : k <= l => o[k] <= o[l],
           \A k \in 1 .. n : e[k].op = "=" => o[k] = o[k - 1] + 1,
           o[n] > o[0],
           from = 1 \/ e[from].op = "=", to = n \/ e[to].op = "="
    PROVE  o[to] > o[from - 1]
<1> DEFINE w(k) == o[k]
<1>1. /\ from - 1 \in 0 .. n /\ from \in 0 .. n /\ to \in 0 .. n /\ to - 1 \in 0 .. n /\ 0 \in 0 .. n /\ n \in 0 .. n
      /\ from <= to /\ from - 1 <= to - 1 /\ from \in 1 .. n /\ to \in 1 .. n
  OBVIOUS
<1>2. w(from - 1) \in Nat /\ w(from) \in Nat /\ w(to) \in Nat /\ w(to - 1) \in Nat
  BY <1>1
<1>3. w(from) <= w(to) /\ w(from - 1) <= w(to - 1)
  BY <1>1
<1>4. CASE e[from].op = "="
  <2>1. w(from) = w(from - 1) + 1
    BY <1>1, <1>4
  <2> HIDE DEF w
  <2>2. w(to) > w(from - 1)
    BY <1>2, <1>3, <2>1
  <2> QED
    BY <2>2 DEF w
<1>5. CASE e[to].op = "="
  <2>1. w(to) = w(to - 1) + 1
    BY <1>1, <1>5
  <2> HIDE DEF w
  <2>2. w(to) > w(from - 1)
    BY <1>2, <1>3, <2>1
  <2> QED
    BY <2>2 DEF w
<1>6. CASE from = 1 /\ to = n
  BY <1>6
<1> QED
  BY <1>4, <1>5, <1>6

\* What a program makes of a text and the hunks, after each of them.
Patch(text, hunks, k, g) == [i \in 0 .. k |-> IF i = 0 THEN text ELSE IF Diff!Applies(g[i - 1], hunks[Len(hunks) - i + 1]) THEN Diff!Apply(g[i - 1], hunks[Len(hunks) - i + 1]) ELSE <<"refused">>]

LEMMA PatchExists ==
    ASSUME NEW text, NEW hunks, NEW k \in Nat
    PROVE  \E g : g = Patch(text, hunks, k, g)
<1> DEFINE T == {n \in Nat : ~\E g : g = Patch(text, hunks, n, g)}
<1>1. ASSUME T # {}
      PROVE  FALSE
  <2>1. PICK n \in T : \A m \in T : n <= m
    BY <1>1, LeastNumber
  <2>2. n # 0
    <3>1. Patch(text, hunks, 0, [i \in 0 .. 0 |-> text]) = [i \in 0 .. 0 |-> text]
      BY DEF Patch
    <3> QED
      BY <3>1
  <2>3. n - 1 \in Nat /\ n - 1 \notin T
    BY <2>1, <2>2
  <2>4. PICK g : g = Patch(text, hunks, n - 1, g)
    BY <2>3
  <2> DEFINE final == IF Diff!Applies(g[n - 1], hunks[Len(hunks) - n + 1]) THEN Diff!Apply(g[n - 1], hunks[Len(hunks) - n + 1]) ELSE <<"refused">>
             h == [i \in 0 .. n |-> IF i = n THEN final ELSE g[i]]
  <2>5. \A i \in 0 .. n - 1 : g[i] = IF i = 0 THEN text ELSE IF Diff!Applies(g[i - 1], hunks[Len(hunks) - i + 1]) THEN Diff!Apply(g[i - 1], hunks[Len(hunks) - i + 1]) ELSE <<"refused">>
    BY <2>3, <2>4 DEF Patch
  <2>6. ASSUME NEW i \in 0 .. n
        PROVE  h[i] = IF i = 0 THEN text ELSE IF Diff!Applies(h[i - 1], hunks[Len(hunks) - i + 1]) THEN Diff!Apply(h[i - 1], hunks[Len(hunks) - i + 1]) ELSE <<"refused">>
    <3>1. CASE i = n
      <4>1. h[i] = final /\ h[i - 1] = g[n - 1]
        BY <2>2, <3>1
      <4> HIDE DEF h
      <4> QED
        BY <2>2, <3>1, <4>1
    <3>2. CASE i # n
      <4>1. h[i] = g[i] /\ (i # 0 => h[i - 1] = g[i - 1]) /\ i \in 0 .. n - 1
        BY <3>2
      <4> HIDE DEF h
      <4> QED
        BY <2>5, <4>1
    <3> QED
      BY <3>1, <3>2
  <2>7. h = Patch(text, hunks, n, h)
    BY <2>6 DEF Patch
  <2> QED
    BY <2>7
<1> QED
  BY <1>1

HunksPlaced(e, c, o, q, a, b) ==
    \A x \in 1 .. Len(Diff!Groups(e, c)) :
       HunkOf(Diff!Hunks(e, c)[x], e, o, q, a, b, HunkFrom(e, c, x), HunkTo(e, c, x))

LEMMA HunksArePlaced ==
    ASSUME NEW a \in Seq(Line), NEW b \in Seq(Line), NEW e \in Seq(EditType), NEW o, NEW q, Placed(e, o, q, a, b),
           NEW c \in Nat \ {0}
    PROVE  /\ Len(Diff!Hunks(e, c)) = Len(Diff!Groups(e, c))
           /\ HunksPlaced(e, c, o, q, a, b)
<1> DEFINE g == Diff!Groups(e, c)
           m == Len(g)
<1>1. Len(e) \in Nat
  OBVIOUS
<1>2. m \in Nat /\ \A x \in 1 .. m : HunkFrom(e, c, x) \in 1 .. Len(e) /\ HunkTo(e, c, x) \in HunkFrom(e, c, x) .. Len(e)
  BY <1>1, HunksEnd
<1>3. Diff!Hunks(e, c) = [x \in 1 .. m |-> Diff!Hunk(SubSeq(e, HunkFrom(e, c, x), HunkTo(e, c, x)))]
  BY DEF Diff!Hunks, Diff!HunksOf, HunkFrom, HunkTo
<1> HIDE DEF m
<1>4. Len(Diff!Hunks(e, c)) = m
  BY <1>2, <1>3
<1>5. ASSUME NEW x \in 1 .. m
      PROVE  HunkOf(Diff!Hunks(e, c)[x], e, o, q, a, b, HunkFrom(e, c, x), HunkTo(e, c, x))
  <2>1. HunkOf(Diff!Hunk(SubSeq(e, HunkFrom(e, c, x), HunkTo(e, c, x))), e, o, q, a, b, HunkFrom(e, c, x), HunkTo(e, c, x))
    BY <1>2, HunkIs
  <2> QED
    BY <1>3, <2>1
<1> QED
  BY <1>4, <1>5 DEF HunksPlaced, m

\* The lines of the texts that a hunk has, if the texts have any.
LEMMA HunksCount ==
    ASSUME NEW a \in Seq(Line), NEW b \in Seq(Line), NEW e \in Seq(EditType), NEW o, NEW q, Placed(e, o, q, a, b),
           o[0] = 0, q[0] = 0, NEW c \in Nat \ {0}, NEW x \in 1 .. Len(Diff!Groups(e, c))
    PROVE  /\ a # <<>> => Diff!Hunks(e, c)[x].oldCount > 0
           /\ b # <<>> => Diff!Hunks(e, c)[x].newCount > 0
<1> DEFINE n == Len(e)
           from == HunkFrom(e, c, x)
           to == HunkTo(e, c, x)
           h == Diff!Hunks(e, c)[x]
<1>1. n \in Nat
  OBVIOUS
<1>2. /\ from \in 1 .. n /\ to \in from .. n
      /\ from = 1 \/ e[from].op = "="
      /\ to = n \/ e[to].op = "="
  BY <1>1, HunksEnd
<1>3. HunkOf(h, e, o, q, a, b, from, to)
  BY HunksArePlaced DEF HunksPlaced
<1> HIDE DEF from, to, h
<1>4. h.oldCount = o[to] - o[from - 1] /\ h.newCount = q[to] - q[from - 1]
  BY <1>3 DEF HunkOf
<1>5. /\ o \in [0 .. n -> Nat] /\ q \in [0 .. n -> Nat]
      /\ o[n] = Len(a) /\ q[n] = Len(b)
      /\ \A k, l \in 0 .. n : k <= l => o[k] <= o[l]
      /\ \A k, l \in 0 .. n : k <= l => q[k] <= q[l]
      /\ \A k \in 1 .. n : e[k].op = "=" => o[k] = o[k - 1] + 1
      /\ \A k \in 1 .. n : e[k].op = "=" => q[k] = q[k - 1] + 1
  BY DEF Placed
<1>6. n \in Nat \ {0} /\ from - 1 \in 0 .. n /\ to \in 0 .. n
  BY <1>1, <1>2
<1> HIDE DEF n
<1>7. o[from - 1] \in Nat /\ o[to] \in Nat /\ q[from - 1] \in Nat /\ q[to] \in Nat
  BY <1>5, <1>6
<1>8. ASSUME a # <<>>
      PROVE  h.oldCount > 0
  <2>1. o[n] > o[0]
    <3>1. Len(a) > 0
      BY <1>8
    <3> QED
      BY <1>5, <3>1
  <2>2. o[to] > o[from - 1]
    BY <1>2, <1>5, <1>6, <2>1, HunkHasLines
  <2> QED
    BY <1>4, <1>7, <2>2
<1>9. ASSUME b # <<>>
      PROVE  h.newCount > 0
  <2>1. q[n] > q[0]
    <3>1. Len(b) > 0
      BY <1>9
    <3> QED
      BY <1>5, <3>1
  <2>2. q[to] > q[from - 1]
    BY <1>2, <1>5, <1>6, <2>1, HunkHasLines
  <2> QED
    BY <1>4, <1>7, <2>2
<1> QED
  BY <1>8, <1>9 DEF h

\* From the last hunk to the first, what is behind the place of one is new.
LEMMA PatchedIsNew ==
    ASSUME NEW a \in Seq(Line), NEW b \in Seq(Line), NEW e \in Seq(EditType), NEW o, NEW q, Placed(e, o, q, a, b),
           o[0] = 0, q[0] = 0, NEW c \in Nat \ {0}, a # <<>>
    PROVE  Diff!Patched(a, Diff!Hunks(e, c)) = b
<1> DEFINE hs == Diff!Hunks(e, c)
           n == Len(e)
           m == Len(Diff!Groups(e, c))
           f(x) == HunkFrom(e, c, x)
           l(x) == HunkTo(e, c, x)
           g == CHOOSE g : g = Patch(a, hs, m, g)
           stop(j) == IF j = 0 THEN n ELSE f(m - j + 1) - 1
           mix(p) == Mix(o, q, a, b, p)
<1>1. n \in Nat
  OBVIOUS
<1>2. /\ m \in Nat
      /\ \A x \in 1 .. m : f(x) \in 1 .. n /\ l(x) \in f(x) .. n
      /\ \A x, y \in 1 .. m : x < y => l(x) + 1 < f(y)
      /\ \A k \in 1 .. n : e[k].op # "=" => \E x \in 1 .. m : f(x) <= k /\ k <= l(x)
  BY <1>1, HunksEnd
<1>3. /\ Len(hs) = m
      /\ \A x \in 1 .. m : HunkOf(hs[x], e, o, q, a, b, f(x), l(x)) /\ hs[x].oldCount > 0
  BY HunksArePlaced, HunksCount DEF HunksPlaced
<1> HIDE DEF m, f, l, hs
<1>4. g = Patch(a, hs, m, g)
  BY <1>2, PatchExists
<1>5. Diff!Patched(a, hs) = g[m]
  BY <1>3 DEF Diff!Patched, Patch
<1> HIDE DEF g
<1>6. \A j \in 0 .. m : g[j] = IF j = 0 THEN a
                               ELSE IF Diff!Applies(g[j - 1], hs[m - j + 1])
                                    THEN Diff!Apply(g[j - 1], hs[m - j + 1])
                                    ELSE <<"refused">>
  BY <1>3, <1>4 DEF Patch
<1>7. mix(0) = b /\ mix(n) = a
  BY MixAtTheEnds
\* From the end of a hunk on all is the same up to the next one.
<1>8. ASSUME NEW from \in 0 .. n, NEW to \in from .. n,
             \A x \in 1 .. m : l(x) <= from \/ f(x) > to
      PROVE  mix(from) = mix(to)
  <2>1. ASSUME NEW k \in from + 1 .. to, e[k].op # "="
        PROVE  FALSE
    <3>1. k \in 1 .. n /\ k > from /\ k <= to
      BY <1>1
    <3>2. PICK x \in 1 .. m : f(x) <= k /\ k <= l(x)
      BY <1>2, <2>1, <3>1
    <3>3. f(x) \in Nat /\ l(x) \in Nat
      BY <1>1, <1>2
    <3> QED
      BY <1>1, <1>8, <3>1, <3>2, <3>3
  <2> HIDE DEF n
  <2>2. \A k \in from + 1 .. to : e[k].op = "="
    BY <2>1
  <2> QED
    BY <2>2, MixStretch DEF n
<1> DEFINE T == {j \in 0 .. m : g[j] # mix(stop(j))}
<1>9. ASSUME T # {}
      PROVE  FALSE
  <2>1. PICK j \in T : \A i \in T : j <= i
    <3>1. T \in SUBSET Nat
      BY <1>2
    <3> HIDE DEF T
    <3> QED
      BY <1>9, <3>1, LeastNumber
  <2>2. j # 0
    BY <1>2, <1>6, <1>7
  <2>3. j \in 1 .. m /\ j - 1 \in 0 .. m /\ m - j + 1 \in 1 .. m
    BY <1>2, <2>1, <2>2
  <2>4. g[j - 1] = mix(stop(j - 1))
    BY <1>2, <2>1, <2>3
  <2> DEFINE x == m - j + 1
  <2>5. f(x) \in 1 .. n /\ l(x) \in f(x) .. n /\ stop(j) = f(x) - 1
    BY <1>2, <2>2, <2>3
  <2>6. stop(j - 1) \in l(x) .. n /\ \A y \in 1 .. m : l(y) <= l(x) \/ f(y) > stop(j - 1)
    <3>1. CASE j = 1
      <4>1. stop(j - 1) = n /\ x = m
        BY <1>2, <3>1
      <4>2. ASSUME NEW y \in 1 .. m
            PROVE  l(y) <= l(x)
        <5>1. CASE y = m
          BY <1>1, <2>5, <4>1, <5>1
        <5>2. CASE y # m
          <6>1. l(y) + 1 < f(m)
            BY <1>2, <5>2
          <6>2. f(m) \in Nat /\ l(m) \in Nat /\ f(m) <= l(m) /\ l(y) \in Nat
            BY <1>1, <1>2, <2>5, <4>1
          <6> QED
            BY <4>1, <6>1, <6>2
        <5> QED
          BY <5>1, <5>2
      <4>3. n \in l(x) .. n
        BY <1>1, <2>5
      <4> QED
        BY <4>1, <4>2, <4>3
    <3>2. CASE j # 1
      <4>1. m - (j - 1) + 1 = x + 1 /\ x + 1 \in 1 .. m /\ stop(j - 1) = f(x + 1) - 1 /\ x \in 1 .. m
        BY <1>2, <2>3, <3>2
      <4>2. l(x) + 1 < f(x + 1) /\ f(x + 1) \in 1 .. n
        BY <1>2, <4>1
      <4>3. l(x) \in Nat /\ f(x) \in Nat /\ f(x + 1) \in Nat /\ f(x) <= l(x)
        BY <1>1, <2>5, <4>2
      <4>4. stop(j - 1) \in l(x) .. n
        BY <1>1, <4>1, <4>2, <4>3
      <4>5. ASSUME NEW y \in 1 .. m
            PROVE  l(y) <= l(x) \/ f(y) > stop(j - 1)
        <5>1. f(y) \in Nat /\ l(y) \in Nat /\ f(y) <= l(y)
          BY <1>1, <1>2
        <5>2. CASE y < x
          <6>1. l(y) + 1 < f(x)
            BY <1>2, <4>1, <5>2
          <6> QED
            BY <4>3, <5>1, <6>1
        <5>3. CASE y = x
          BY <5>1, <5>3
        <5>4. CASE y = x + 1
          BY <4>1, <4>3, <5>4
        <5>5. CASE y > x + 1
          <6>1. l(x + 1) + 1 < f(y)
            BY <1>2, <4>1, <5>5
          <6>2. l(x + 1) \in Nat /\ f(x + 1) <= l(x + 1)
            BY <1>1, <1>2, <4>1
          <6> QED
            BY <4>1, <4>3, <5>1, <6>1, <6>2
        <5>6. y \in Int /\ x \in Int
          BY <1>2, <4>1
        <5> QED
          BY <5>2, <5>3, <5>4, <5>5, <5>6
      <4> QED
        BY <4>4, <4>5
    <3> QED
      BY <3>1, <3>2
  <2>7. mix(l(x)) = mix(stop(j - 1))
    <3> HIDE DEF stop, x
    <3>1. l(x) \in 0 .. n
      BY <1>1, <2>5
    <3> HIDE DEF mix, n
    <3> QED
      BY <1>8, <2>6, <3>1
  <2>8. Diff!Applies(mix(l(x)), hs[x]) /\ Diff!Apply(mix(l(x)), hs[x]) = mix(f(x) - 1)
    <3>1. HunkOf(hs[x], e, o, q, a, b, f(x), l(x)) /\ hs[x].oldCount > 0
      BY <1>3, <2>3
    <3> HIDE DEF x
    <3> QED
      BY <2>5, <3>1, HunkApplies
  <2>9. g[j] = IF Diff!Applies(g[j - 1], hs[x]) THEN Diff!Apply(g[j - 1], hs[x]) ELSE <<"refused">>
    BY <1>6, <2>2, <2>3
  <2> HIDE DEF mix, stop, x
  <2>10. g[j] = mix(stop(j))
    BY <2>4, <2>5, <2>7, <2>8, <2>9
  <2> QED
    BY <2>1, <2>10
<1>10. g[m] = mix(stop(m))
  <2>1. m \in 0 .. m
    BY <1>2
  <2> QED
    BY <1>9, <2>1
<1>11. mix(stop(m)) = mix(0)
  <2>1. CASE m = 0
    <3>1. stop(m) = n /\ n \in 0 .. n /\ 0 \in 0 .. n
      BY <1>1, <2>1
    <3> HIDE DEF mix, stop, n
    <3>2. mix(0) = mix(n)
      BY <1>8, <2>1, <3>1
    <3> QED
      BY <3>1, <3>2
  <2>2. CASE m # 0
    <3>1. stop(m) = f(1) - 1 /\ 1 \in 1 .. m
      BY <1>2, <2>2
    <3>2. f(1) \in 1 .. n /\ f(1) - 1 \in 0 .. n /\ 0 \in 0 .. n /\ l(1) \in Nat /\ f(1) <= l(1)
      BY <1>1, <1>2, <3>1
    <3>3. \A y \in 1 .. m : f(y) > f(1) - 1
      <4> TAKE y \in 1 .. m
      <4>1. CASE y = 1
        BY <3>2, <4>1
      <4>2. CASE y # 1
        <5>1. l(1) + 1 < f(y) /\ f(y) \in Nat
          BY <1>1, <1>2, <3>1, <4>2
        <5> QED
          BY <3>2, <5>1
      <4> QED
        BY <4>1, <4>2
    <3> HIDE DEF mix, stop, n
    <3>4. mix(0) = mix(f(1) - 1)
      BY <1>8, <3>2, <3>3
    <3> QED
      BY <3>1, <3>4
  <2> QED
    BY <2>1, <2>2
<1>12. Diff!Patched(a, hs) = b
  <2> HIDE DEF mix, stop
  <2> QED
    BY <1>5, <1>7, <1>10, <1>11
<1> QED
  BY <1>12 DEF hs

\* The diff of any two texts is right.
LEMMA DiffIsRight ==
    ASSUME NEW a \in Seq(Line), NEW b \in Seq(Line), NEW c \in Nat \ {0}
    PROVE  Diff!DiffRight(a, b, Diff!Hunks(Diff!Edits(a, b), c))
<1> DEFINE e == Diff!Edits(a, b)
           hs == Diff!Hunks(e, c)
           n == Len(e)
           m == Len(Diff!Groups(e, c))
           f(x) == HunkFrom(e, c, x)
           l(x) == HunkTo(e, c, x)
<1>1. e \in Seq(EditType)
  BY EditsPlaced
<1>2. PICK o : \E q : Placed(e, o, q, a, b) /\ o[0] = 0 /\ q[0] = 0
  BY EditsPlaced
<1>3. PICK q : Placed(e, o, q, a, b) /\ o[0] = 0 /\ q[0] = 0
  BY <1>2
<1> HIDE DEF e
<1>4. n \in Nat
  BY <1>1
<1>5. /\ m \in Nat
      /\ \A x \in 1 .. m : f(x) \in 1 .. n /\ l(x) \in f(x) .. n /\ \E k \in f(x) .. l(x) : e[k].op # "="
      /\ \A x, y \in 1 .. m : x < y => l(x) + 1 < f(y)
      /\ \A k \in 1 .. n : e[k].op # "=" => \E x \in 1 .. m : f(x) <= k /\ k <= l(x)
  <2>1. m \in Nat /\ \A x \in 1 .. m : f(x) \in 1 .. n /\ l(x) \in f(x) .. n
    BY <1>4, HunksEnd
  <2>2. \A x \in 1 .. m : Changes(e, f(x), l(x))
    BY <1>4, HunksEnd
  <2>3. \A x, y \in 1 .. m : x < y => l(x) + 1 < f(y)
    BY <1>4, HunksEnd
  <2>4. \A k \in 1 .. n : e[k].op # "=" => \E x \in 1 .. m : f(x) <= k /\ k <= l(x)
    BY <1>4, HunksEnd
  <2> HIDE DEF m, n, f, l
  <2> QED
    BY <2>1, <2>2, <2>3, <2>4 DEF Changes
<1>6. /\ Len(hs) = m
      /\ \A x \in 1 .. m : HunkOf(hs[x], e, o, q, a, b, f(x), l(x))
      /\ \A x \in 1 .. m : a # <<>> => hs[x].oldCount > 0
      /\ \A x \in 1 .. m : b # <<>> => hs[x].newCount > 0
  <2>1. Len(hs) = m
    BY <1>1, <1>3, HunksArePlaced
  <2>2. \A x \in 1 .. m : HunkOf(hs[x], e, o, q, a, b, f(x), l(x))
    BY <1>1, <1>3, HunksArePlaced DEF HunksPlaced
  <2>3. \A x \in 1 .. m : (a # <<>> => hs[x].oldCount > 0) /\ (b # <<>> => hs[x].newCount > 0)
    BY <1>1, <1>3, HunksCount
  <2> QED
    BY <2>1, <2>2, <2>3
<1>7. a # <<>> => Diff!Patched(a, hs) = b
  BY <1>1, <1>3, PatchedIsNew
<1> HIDE DEF m, f, l, hs
<1>8. /\ o \in [0 .. n -> Nat] /\ q \in [0 .. n -> Nat] /\ o[n] = Len(a) /\ q[n] = Len(b)
      /\ \A k, k2 \in 0 .. n : k <= k2 => o[k] <= o[k2] /\ q[k] <= q[k2]
      /\ \A k \in 1 .. n : e[k].op = "=" => o[k] = o[k - 1] + 1
  BY <1>3 DEF Placed
<1>9. ASSUME NEW x \in 1 .. m, b # <<>>
      PROVE  Diff!Side(hs[x].lines, "-") = SubSeq(b, hs[x].newStart, hs[x].newStart + hs[x].newCount - 1)
  <2> DEFINE C == q[f(x) - 1]
             D == q[l(x)]
             k == D - C
             s == SubSeq(b, C + 1, D)
             t == [i \in 1 .. k |-> b[C + i]]
  <2>1. f(x) - 1 \in 0 .. n /\ l(x) \in 0 .. n /\ n \in 0 .. n /\ l(x) <= n /\ f(x) - 1 <= l(x)
    <3>1. f(x) \in 1 .. n /\ l(x) \in f(x) .. n
      BY <1>5
    <3> DEFINE from == f(x)
               to == l(x)
    <3> HIDE DEF n, from, to
    <3>2. from \in 1 .. n /\ to \in from .. n
      BY <3>1 DEF from, to
    <3>3. from - 1 \in 0 .. n /\ to \in 0 .. n /\ n \in 0 .. n /\ to <= n /\ from - 1 <= to
      BY <1>4, <3>2
    <3> QED
      BY <3>3 DEF from, to
  <2>2. C \in Nat /\ D \in Nat /\ C <= D /\ D <= Len(b) /\ Len(b) \in Nat
    BY <1>8, <2>1
  <2>3. /\ hs[x].newCount = D - C /\ hs[x].newCount > 0 /\ hs[x].newStart = C + 1
        /\ Diff!Side(hs[x].lines, "-") = t
    BY <1>6, <1>9 DEF HunkOf
  <2> HIDE DEF C, D
  <2>4. hs[x].newStart + hs[x].newCount - 1 = D
    BY <2>2, <2>3
  <2>5. k \in Nat /\ D \in C .. Len(b) /\ \A i \in 1 .. k : C + i \in 1 .. Len(b)
    BY <2>2
  <2>6. s \in Seq(Line) /\ Len(s) = k /\ \A i \in 1 .. k : s[i] = b[C + i]
    BY <2>2, <2>5, Part
  <2>7. t \in Seq(Line) /\ Len(t) = k
    <3>1. t \in [1 .. k -> Line]
      BY <2>5
    <3> HIDE DEF t, k
    <3> QED
      BY <2>5, <3>1, OfAFunction
  <2>8. \A i \in 1 .. k : s[i] = t[i]
    BY <2>6
  <2> HIDE DEF s, t, k
  <2>9. s = t
    BY <2>5, <2>6, <2>7, <2>8, ByItsLines
  <2> QED
    BY <2>3, <2>4, <2>9 DEF s
<1>10. ASSUME NEW x \in 1 .. m
       PROVE  \E i \in 1 .. Len(hs[x].lines) : hs[x].lines[i].op # "="
  <2>1. hs[x].lines = SubSeq(e, f(x), l(x))
    BY <1>6 DEF HunkOf
  <2>2. PICK k \in f(x) .. l(x) : e[k].op # "="
    BY <1>5
  <2>3. f(x) \in 1 .. n /\ l(x) \in f(x) .. n
    BY <1>5
  <2> DEFINE p == f(x) - 1
             s == SubSeq(e, p + 1, l(x))
  <2>4. p \in Nat /\ l(x) \in p .. Len(e) /\ p + 1 = f(x) /\ k - p \in 1 .. l(x) - p /\ k = p + (k - p)
    <3> DEFINE from == f(x)
               to == l(x)
    <3> HIDE DEF n, from, to
    <3>2. from \in 1 .. n /\ to \in from .. n /\ k \in from .. to
      BY <2>3 DEF from, to
    <3>3. /\ from - 1 \in Nat /\ to \in from - 1 .. n /\ from - 1 + 1 = from /\ k - (from - 1) \in 1 .. to - (from - 1)
          /\ k = from - 1 + (k - (from - 1))
      BY <1>4, <3>2
    <3> QED
      BY <3>3 DEF from, to, n
  <2>5. Len(s) = l(x) - p /\ \A i \in 1 .. l(x) - p : s[i] = e[p + i]
    <3> DEFINE to == l(x)
    <3> HIDE DEF p, to
    <3>1. p \in Nat /\ to \in p .. Len(e)
      BY <2>4 DEF to
    <3>2. Len(SubSeq(e, p + 1, to)) = to - p /\ \A i \in 1 .. to - p : SubSeq(e, p + 1, to)[i] = e[p + i]
      BY <1>1, <3>1, Part
    <3> QED
      BY <3>2 DEF to
  <2>6. hs[x].lines = s
    BY <2>1, <2>4
  <2> HIDE DEF p, s
  <2>7. s[k - p] = e[k] /\ k - p \in 1 .. Len(s)
    BY <2>4, <2>5
  <2> QED
    BY <2>2, <2>6, <2>7
<1>11. ASSUME NEW x \in 1 .. m, x > 1
       PROVE  hs[x - 1].oldStart + hs[x - 1].oldCount <= hs[x].oldStart
  <2> DEFINE y == x - 1
  <2>1. y \in 1 .. m /\ y < x
    BY <1>5, <1>11
  <2>2. /\ f(x) \in 1 .. n /\ l(x) \in f(x) .. n /\ f(y) \in 1 .. n /\ l(y) \in f(y) .. n
        /\ l(y) + 1 < f(x)
    BY <1>5, <2>1
  <2>3. /\ l(y) \in 0 .. n /\ f(x) - 1 \in 0 .. n /\ l(x) \in 0 .. n /\ l(y) <= f(x) - 1 /\ f(y) - 1 \in 0 .. n
        /\ l(y) + 1 \in 1 .. n /\ l(y) + 1 - 1 = l(y) /\ l(y) + 1 <= n /\ n \in 0 .. n /\ l(y) + 1 \in 0 .. n
    BY <1>4, <2>2
  <2>4. e[l(y) + 1].op = "="
    <3>1. ASSUME NEW z \in 1 .. m
          PROVE  l(z) < l(y) + 1 \/ f(z) > l(y) + 1
      <4>1. f(z) \in Nat /\ l(z) \in Nat /\ f(z) <= l(z) /\ f(y) \in Nat /\ l(y) \in Nat /\ f(y) <= l(y)
            /\ f(x) \in Nat /\ l(x) \in Nat /\ f(x) <= l(x) /\ z \in Int /\ y \in Int
        BY <1>4, <1>5, <2>1, <2>2
      <4>2. CASE z < y
        <5>1. l(z) + 1 < f(y)
          BY <1>5, <2>1, <4>2
        <5> QED
          BY <4>1, <5>1
      <4>3. CASE z = y
        BY <4>1, <4>3
      <4>4. CASE z = x
        BY <2>2, <4>1, <4>4
      <4>5. CASE z > x
        <5>1. l(x) + 1 < f(z)
          BY <1>5, <4>5
        <5> QED
          BY <2>2, <4>1, <5>1
      <4>6. z < y \/ z = y \/ z = x \/ z > x
        BY <4>1
      <4> QED
        BY <4>2, <4>3, <4>4, <4>5, <4>6
    <3>2. ASSUME e[l(y) + 1].op # "="
          PROVE  FALSE
      <4>1. PICK z \in 1 .. m : f(z) <= l(y) + 1 /\ l(y) + 1 <= l(z)
        BY <1>5, <2>3, <3>2
      <4>2. f(z) \in Nat /\ l(z) \in Nat /\ l(y) \in Nat
        BY <1>4, <1>5, <2>2
      <4> QED
        BY <3>1, <4>1, <4>2
    <3> QED
      BY <3>2
  <2> DEFINE u == o[l(y)]
             v == o[f(x) - 1]
  <2>5. u \in Nat /\ v \in Nat /\ u <= v
    BY <1>8, <2>3
  <2>6. a # <<>>
    <3>1. o[l(y) + 1] = u + 1 /\ o[l(y) + 1] <= Len(a)
      <4> DEFINE w == l(y) + 1
      <4>1. w \in 1 .. n /\ e[w].op = "=" /\ w - 1 = l(y) /\ w \in 0 .. n /\ n \in 0 .. n /\ w <= n
        BY <2>3, <2>4
      <4> HIDE DEF w, n
      <4>2. o[w] = o[w - 1] + 1 /\ o[w] <= o[n]
        BY <1>8, <4>1
      <4> QED
        BY <1>8, <4>1, <4>2 DEF w
    <3> HIDE DEF u
    <3>2. Len(a) # 0
      BY <2>5, <3>1
    <3> QED
      BY <3>2
  <2>7. hs[x].oldStart = v + 1
    BY <1>6, <2>6 DEF HunkOf
  <2>8. hs[y].oldStart = o[f(y) - 1] + 1 /\ hs[y].oldCount = u - o[f(y) - 1]
    BY <1>6, <2>1, <2>6 DEF HunkOf
  <2>9. o[f(y) - 1] \in Nat
    BY <1>8, <2>3
  <2> HIDE DEF u, v
  <2>10. hs[y].oldStart + hs[y].oldCount = u + 1
    BY <2>5, <2>8, <2>9
  <2> QED
    BY <2>5, <2>7, <2>10
<1>12. Diff!DiffRight(a, b, hs)
  BY <1>6, <1>7, <1>9, <1>10, <1>11 DEF Diff!DiffRight
<1> QED
  BY <1>12 DEF hs, e

-----------------------------------------------------------------------------
(* The conversion of numbers. *)

\* The powers of two.
Powers(k, g) == [i \in 0 .. k |-> IF i = 0 THEN 1 ELSE 2 * g[i - 1]]

LEMMA PowersExist ==
    ASSUME NEW k \in Nat
    PROVE  \E g : g = Powers(k, g)
<1> DEFINE T == {n \in Nat : ~\E g : g = Powers(n, g)}
<1>1. ASSUME T # {}
      PROVE  FALSE
  <2>1. PICK n \in T : \A m \in T : n <= m
    BY <1>1, LeastNumber
  <2>2. n # 0
    <3>1. Powers(0, [i \in 0 .. 0 |-> 1]) = [i \in 0 .. 0 |-> 1]
      BY DEF Powers
    <3> QED
      BY <3>1
  <2>3. n - 1 \in Nat /\ n - 1 \notin T
    BY <2>1, <2>2
  <2>4. PICK g : g = Powers(n - 1, g)
    BY <2>3
  <2> DEFINE final == 2 * g[n - 1]
             h == [i \in 0 .. n |-> IF i = n THEN final ELSE g[i]]
  <2>5. \A i \in 0 .. n - 1 : g[i] = IF i = 0 THEN 1 ELSE 2 * g[i - 1]
    BY <2>3, <2>4 DEF Powers
  <2>6. ASSUME NEW i \in 0 .. n
        PROVE  h[i] = IF i = 0 THEN 1 ELSE 2 * h[i - 1]
    <3>1. CASE i = n
      <4>1. h[i] = final /\ h[i - 1] = g[n - 1]
        BY <2>2, <3>1
      <4> HIDE DEF h
      <4> QED
        BY <2>2, <3>1, <4>1
    <3>2. CASE i # n
      <4>1. h[i] = g[i] /\ (i # 0 => h[i - 1] = g[i - 1]) /\ i \in 0 .. n - 1
        BY <3>2
      <4> HIDE DEF h
      <4> QED
        BY <2>5, <4>1
    <3> QED
      BY <3>1, <3>2
  <2>7. h = Powers(n, h)
    BY <2>6 DEF Powers
  <2> QED
    BY <2>7
<1> QED
  BY <1>1

LEMMA PowerIs ==
    ASSUME Width \in Nat
    PROVE  \A k \in 0 .. Width : Numeric!Power[k] = IF k = 0 THEN 1 ELSE 2 * Numeric!Power[k - 1]
<1>1. \E g : g = Powers(Width, g)
  BY PowersExist
<1>2. Numeric!Power = Powers(Width, Numeric!Power)
  BY <1>1 DEF Numeric!Power, Powers
<1> QED
  BY <1>2 DEF Powers

LEMMA PowersArePositive ==
    ASSUME Width \in Nat
    PROVE  \A k \in 0 .. Width : Numeric!Power[k] \in Nat \ {0}
<1> DEFINE T == {k \in 0 .. Width : Numeric!Power[k] \notin Nat \ {0}}
<1>1. ASSUME T # {}
      PROVE  FALSE
  <2>1. PICK k \in T : \A m \in T : k <= m
    <3>1. T \in SUBSET Nat
      OBVIOUS
    <3> HIDE DEF T
    <3> QED
      BY <1>1, <3>1, LeastNumber
  <2>2. k \in 0 .. Width /\ Numeric!Power[k] = IF k = 0 THEN 1 ELSE 2 * Numeric!Power[k - 1]
    BY PowerIs
  <2>3. k # 0
    BY <2>2
  <2>4. k - 1 \in 0 .. Width /\ k - 1 \notin T
    BY <2>1, <2>2, <2>3
  <2> QED
    BY <2>1, <2>2, <2>3, <2>4
<1> QED
  BY <1>1

\* Each is at least twice the ones before.
LEMMA PowersGrow ==
    ASSUME Width \in Nat, NEW j \in 0 .. Width, NEW k \in 0 .. Width, j < k
    PROVE  2 * Numeric!Power[j] <= Numeric!Power[k]
<1> DEFINE P(i) == Numeric!Power[i]
           T == {i \in j + 1 .. Width : ~(2 * P(j) <= P(i))}
<1>1. \A i \in 0 .. Width : P(i) \in Nat \ {0} /\ P(i) = IF i = 0 THEN 1 ELSE 2 * P(i - 1)
  BY PowerIs, PowersArePositive
<1> HIDE DEF P
<1>2. ASSUME T # {}
      PROVE  FALSE
  <2>1. PICK i \in T : \A m \in T : i <= m
    <3>1. T \in SUBSET Nat
      OBVIOUS
    <3> HIDE DEF T
    <3> QED
      BY <1>2, <3>1, LeastNumber
  <2>2. i \in 0 .. Width /\ i # 0 /\ i - 1 \in 0 .. Width
    OBVIOUS
  <2>3. P(i) = 2 * P(i - 1) /\ P(i) \in Nat /\ P(i - 1) \in Nat /\ P(j) \in Nat
    BY <1>1, <2>2
  <2>4. CASE i = j + 1
    <3>1. P(i) = 2 * P(j)
      BY <2>3, <2>4
    <3>2. 2 * P(j) <= P(i)
      BY <2>3, <3>1
    <3> QED
      BY <2>1, <3>2
  <2>5. CASE i # j + 1
    <3>1. i - 1 \in j + 1 .. Width /\ i - 1 < i
      BY <2>2, <2>5
    <3>2. 2 * P(j) <= P(i - 1)
      BY <2>1, <3>1
    <3>3. 2 * P(j) <= P(i)
      BY <2>3, <3>2
    <3> QED
      BY <2>1, <3>3
  <2> QED
    BY <2>4, <2>5
<1>3. k \in j + 1 .. Width
  OBVIOUS
<1> QED
  BY <1>2, <1>3 DEF P

LEMMA PowersMultiply ==
    ASSUME Width \in Nat, NEW j \in 0 .. Width, NEW k \in 0 .. Width, j + k <= Width
    PROVE  Numeric!Power[j] * Numeric!Power[k] = Numeric!Power[j + k]
<1> DEFINE P(i) == Numeric!Power[i]
           T == {i \in 0 .. Width - j : P(j) * P(i) # P(j + i)}
<1>1. \A i \in 0 .. Width : P(i) \in Nat \ {0} /\ P(i) = IF i = 0 THEN 1 ELSE 2 * P(i - 1)
  BY PowerIs, PowersArePositive
<1> HIDE DEF P
<1>2. ASSUME T # {}
      PROVE  FALSE
  <2>1. PICK i \in T : \A m \in T : i <= m
    <3>1. T \in SUBSET Nat
      OBVIOUS
    <3> HIDE DEF T
    <3> QED
      BY <1>2, <3>1, LeastNumber
  <2>2. CASE i = 0
    <3>1. P(0) = 1 /\ P(j) \in Nat /\ j + i = j
      BY <1>1, <2>2
    <3> QED
      BY <2>1, <2>2, <3>1
  <2>3. CASE i # 0
    <3>1. i \in 0 .. Width /\ i - 1 \in 0 .. Width /\ i - 1 \in 0 .. Width - j /\ i - 1 < i
          /\ j + i \in 0 .. Width /\ j + i # 0 /\ j + i - 1 = j + (i - 1) /\ j + (i - 1) \in 0 .. Width
      BY <2>3
    <3>2. P(j) * P(i - 1) = P(j + (i - 1))
      BY <2>1, <3>1
    <3>3. P(i) = 2 * P(i - 1) /\ P(j + i) = 2 * P(j + (i - 1))
      BY <1>1, <2>3, <3>1
    <3>4. P(i - 1) \in Nat /\ P(j) \in Nat
      BY <1>1, <3>1
    <3>5. \A u, v \in Nat : u * (2 * v) = 2 * (u * v)
      OBVIOUS
    <3>6. P(j) * P(i) = P(j + i)
      BY <3>2, <3>3, <3>4, <3>5
    <3> QED
      BY <2>1, <3>6
  <2> QED
    BY <2>2, <2>3
<1>3. k \in 0 .. Width - j
  OBVIOUS
<1> QED
  BY <1>2, <1>3 DEF P

\* A number below the divisor is the remainder.
LEMMA Divided ==
    ASSUME NEW g \in Nat \ {0}, NEW p \in Nat, NEW r \in 0 .. g - 1
    PROVE  (p * g + r) \div g = p /\ (p * g + r) % g = r
<1> DEFINE n == p * g + r
           d == n \div g
           m == n % g
<1>1. p * g \in Nat
  OBVIOUS
<1>2. n \in Nat
  BY <1>1
<1> HIDE DEF n
<1>3. d \in Int /\ m \in 0 .. g - 1 /\ n = g * d + m
  BY <1>2
<1> HIDE DEF d, m
<1>4. g * d + m = p * g + r
  BY <1>3 DEF n
<1>5. ASSUME d >= p + 1
      PROVE  FALSE
  <2>1. g * d >= g * (p + 1)
    BY <1>3, <1>5
  <2>2. g * (p + 1) = p * g + g
    OBVIOUS
  <2> QED
    BY <1>1, <1>3, <1>4, <2>1, <2>2
<1>6. ASSUME d + 1 <= p
      PROVE  FALSE
  <2>1. g * (d + 1) <= g * p
    BY <1>3, <1>6
  <2>2. g * (d + 1) = g * d + g /\ g * p = p * g
    BY <1>3
  <2>3. g * d \in Int
    BY <1>3
  <2> QED
    BY <1>1, <1>3, <1>4, <2>1, <2>2, <2>3
<1>7. d = p
  BY <1>3, <1>5, <1>6
<1>8. m = r
  <2>1. g * d = p * g
    BY <1>7
  <2> QED
    BY <1>1, <1>3, <1>4, <2>1
<1> QED
  BY <1>7, <1>8 DEF d, m, n

\* How far apart the float64s are near a number.
IsGap(g, n) ==
    /\ g \in {Numeric!Power[k] : k \in 0 .. Width}
    /\ Numeric!Abs(n) <= Numeric!MaxExact * g
    /\ g > 1 => Numeric!Abs(n) > Numeric!MaxExact * (g \div 2)

Gap(n) == CHOOSE g \in {Numeric!Power[k] : k \in 0 .. Width} :
             /\ Numeric!Abs(n) <= Numeric!MaxExact * g
             /\ g > 1 => Numeric!Abs(n) > Numeric!MaxExact * (g \div 2)

LEMMA GapIs ==
    ASSUME NEW n, NEW g, IsGap(g, n)
    PROVE  IsGap(Gap(n), n)
  BY DEF IsGap, Gap

LEMMA RoundedIs ==
    ASSUME NEW n
    PROVE  Numeric!Rounded(n) = IF \/ 2 * (n % Gap(n)) < Gap(n)
                                   \/ 2 * (n % Gap(n)) = Gap(n) /\ (n \div Gap(n)) % 2 = 0
                                THEN (n \div Gap(n)) * Gap(n) ELSE (n \div Gap(n) + 1) * Gap(n)
  BY DEF Numeric!Rounded, Gap

\* Up to the mantissa every number is a float64.
LEMMA SmallIsExact ==
    ASSUME NEW n \in Int, Numeric!Abs(n) <= Numeric!MaxExact
    PROVE  Numeric!Rounded(n) = n
<1> DEFINE E == Numeric!MaxExact
           A == Numeric!Abs(n)
           P(k) == Numeric!Power[k]
<1>1. Width \in Nat /\ Mantissa \in 0 .. Width /\ 0 \in 0 .. Width
  BY AlgorithmsAssumption
<1>2. \A k \in 0 .. Width : P(k) \in Nat \ {0} /\ P(k) = IF k = 0 THEN 1 ELSE 2 * P(k - 1)
  BY <1>1, PowerIs, PowersArePositive
<1>3. E \in Nat \ {0} /\ A \in Nat /\ A <= E
  <2>1. E \in Nat \ {0}
    BY <1>1, <1>2 DEF Numeric!MaxExact
  <2>2. A \in Nat
    BY DEF Numeric!Abs
  <2> QED
    BY <2>1, <2>2
<1>4. IsGap(1, n)
  <2>1. P(0) = 1
    BY <1>1, <1>2
  <2>2. A <= E * 1
    BY <1>3
  <2> HIDE DEF E, A
  <2> QED
    BY <1>1, <2>1, <2>2 DEF IsGap, E, A, P
<1> DEFINE g == Gap(n)
<1>5. IsGap(g, n)
  BY <1>4, GapIs
<1> HIDE DEF g, P
<1>6. g = 1
  <2>1. PICK k \in 0 .. Width : g = P(k)
    BY <1>5 DEF IsGap, P
  <2>2. g \in Nat \ {0} /\ (g > 1 => A > E * (g \div 2))
    BY <1>2, <1>5, <2>1 DEF IsGap
  <2> HIDE DEF E, A
  <2>3. ASSUME g > 1
        PROVE  FALSE
    <3>1. g \div 2 \in Nat /\ g \div 2 >= 1
      BY <2>2, <2>3
    <3>2. \A u, v \in Nat : v >= 1 => u * v >= u
      <4> TAKE u, v \in Nat
      <4> HAVE v >= 1
      <4>1. u * v = u * (v - 1) + u /\ v - 1 \in Nat
        OBVIOUS
      <4>2. u * (v - 1) \in Nat
        BY <4>1
      <4> QED
        BY <4>1, <4>2
    <3>3. E * (g \div 2) >= E
      BY <1>3, <3>1, <3>2
    <3>4. E * (g \div 2) \in Int
      BY <1>3, <3>1
    <3> QED
      BY <1>3, <2>2, <2>3, <3>3, <3>4
  <2> QED
    BY <2>2, <2>3
<1>7. n % 1 = 0 /\ n \div 1 = n /\ n * 1 = n
  OBVIOUS
<1>8. 2 * (n % g) < g /\ (n \div g) * g = n
  BY <1>6, <1>7
<1> QED
  BY <1>8, RoundedIs DEF g

\* The number before a power of two that is no float64 is rounded to it.
LEMMA RoundedUp ==
    ASSUME NEW j \in Mantissa + 1 .. Width
    PROVE  Numeric!Rounded(Numeric!Power[j] - 1) = Numeric!Power[j]
<1> DEFINE P(k) == Numeric!Power[k]
           E == P(Mantissa)
           n == P(j) - 1
           d == j - Mantissa
           g == Gap(n)
<1>1. /\ Width \in Nat /\ Mantissa \in 1 .. Width /\ j \in 1 .. Width /\ d \in 1 .. Width /\ Mantissa + d = j
      /\ Mantissa + d <= Width /\ Mantissa < j /\ d - 1 \in 0 .. Width /\ Mantissa + (d - 1) = j - 1
      /\ Mantissa + (d - 1) <= Width /\ j - 1 \in 0 .. Width /\ Mantissa - 1 \in 0 .. Width
  BY AlgorithmsAssumption
<1>2. \A k \in 0 .. Width : P(k) \in Nat \ {0} /\ P(k) = IF k = 0 THEN 1 ELSE 2 * P(k - 1)
  BY <1>1, PowerIs, PowersArePositive
<1>3. /\ E * P(d) = P(j) /\ E * P(d - 1) = P(j - 1)
      /\ P(d) = 2 * P(d - 1) /\ P(j) = 2 * P(j - 1) /\ E = 2 * P(Mantissa - 1)
      /\ P(d) \in Nat \ {0} /\ P(d - 1) \in Nat \ {0} /\ P(j) \in Nat \ {0} /\ P(j - 1) \in Nat \ {0}
      /\ P(Mantissa - 1) \in Nat \ {0} /\ E \in Nat \ {0}
  <2>1. E * P(d) = P(j) /\ E * P(d - 1) = P(j - 1)
    BY <1>1, PowersMultiply
  <2>2. P(d) = 2 * P(d - 1) /\ P(j) = 2 * P(j - 1) /\ E = 2 * P(Mantissa - 1)
    BY <1>1, <1>2
  <2> HIDE DEF P
  <2>3. /\ P(d) \in Nat \ {0} /\ P(d - 1) \in Nat \ {0} /\ P(j) \in Nat \ {0} /\ P(j - 1) \in Nat \ {0}
        /\ P(Mantissa - 1) \in Nat \ {0} /\ E \in Nat \ {0}
    BY <1>1, <1>2
  <2> QED
    BY <2>1, <2>2, <2>3
<1>4. 2 * E <= P(j) /\ E >= 2
  <2>1. 2 * E <= P(j)
    BY <1>1, PowersGrow
  <2> HIDE DEF P, E
  <2>2. E >= 2
    BY <1>3
  <2> QED
    BY <2>1, <2>2
<1>5. n \in Nat /\ Numeric!Abs(n) = n
  <2>1. n \in Nat
    <3> HIDE DEF P, E
    <3> QED
      BY <1>3
  <2> QED
    BY <2>1 DEF Numeric!Abs
<1>6. n > P(j - 1) /\ n <= P(j)
  <2> HIDE DEF P, E
  <2> QED
    BY <1>3, <1>4
<1>7. P(d) \div 2 = P(d - 1)
  <2> HIDE DEF P, E
  <2> QED
    BY <1>3
<1>8. IsGap(P(d), n)
  <2>1. Numeric!MaxExact = E
    BY DEF Numeric!MaxExact
  <2>2. P(d) \in {Numeric!Power[k] : k \in 0 .. Width}
    BY <1>1
  <2> HIDE DEF P, E, n
  <2> QED
    BY <1>3, <1>5, <1>6, <1>7, <2>1, <2>2 DEF IsGap
<1>9. IsGap(g, n)
  BY <1>8, GapIs
<1> HIDE DEF g
<1>10. g = P(d)
  <2>1. PICK k \in 0 .. Width : g = P(k)
    BY <1>9 DEF IsGap
  <2>2. n <= E * g /\ (g > 1 => n > E * (g \div 2))
    BY <1>5, <1>9 DEF IsGap, Numeric!MaxExact
  <2>3. P(k) \in Nat \ {0} /\ P(k) = IF k = 0 THEN 1 ELSE 2 * P(k - 1)
    BY <1>2
  <2>4. CASE k < d
    <3>1. 2 * P(k) <= P(d)
      BY <1>1, <2>4, PowersGrow
    <3>2. P(k) <= P(d - 1)
      <4> HIDE DEF P
      <4> QED
        BY <1>3, <2>3, <3>1
    <3> HIDE DEF P, E
    <3>3. E * P(k) <= E * P(d - 1)
      BY <1>3, <2>3, <3>2
    <3>4. E * P(k) \in Int /\ n \in Nat
      BY <1>3, <1>5, <2>3
    <3> HIDE DEF n
    <3> QED
      BY <1>3, <1>6, <2>1, <2>2, <3>3, <3>4
  <2>5. CASE k > d
    <3>1. 2 * P(d) <= P(k)
      BY <1>1, <2>5, PowersGrow
    <3> HIDE DEF P, E
    <3>2. g > 1 /\ g \div 2 \in Nat /\ g \div 2 >= P(d)
      BY <1>3, <2>1, <2>3, <3>1
    <3>3. E * (g \div 2) >= E * P(d)
      BY <1>3, <3>2
    <3>4. E * (g \div 2) \in Int /\ n \in Nat
      BY <1>3, <1>5, <3>2
    <3> HIDE DEF n
    <3> QED
      BY <1>3, <1>6, <2>2, <3>2, <3>3, <3>4
  <2> QED
    BY <1>1, <2>1, <2>4, <2>5
<1>11. n = (E - 1) * P(d) + (P(d) - 1) /\ E - 1 \in Nat /\ P(d) - 1 \in 0 .. P(d) - 1 /\ E * P(d) = P(j)
  <2> HIDE DEF P, E
  <2>1. (E - 1) * P(d) = E * P(d) - P(d)
    BY <1>3
  <2> QED
    BY <1>3, <1>4, <2>1 DEF n
<1> HIDE DEF P, E, n
<1>12. n \div g = E - 1 /\ n % g = P(d) - 1
  BY <1>3, <1>10, <1>11, Divided
<1>13. (E - 1) % 2 = 1 /\ E - 1 + 1 = E
  BY <1>3
<1>14. P(d) >= 2 /\ ~(2 * (P(d) - 1) < P(d))
  BY <1>3
<1>15. Numeric!Rounded(n) = (E - 1 + 1) * P(d)
  <2>1. ~(2 * (n % g) < g) /\ (n \div g) % 2 # 0
    BY <1>10, <1>12, <1>13, <1>14
  <2>2. Numeric!Rounded(n) = (n \div g + 1) * g
    BY <2>1, RoundedIs DEF g
  <2> QED
    BY <1>10, <1>12, <2>2
<1> QED
  BY <1>11, <1>13, <1>15 DEF n, P

LEMMA Remains ==
    ASSUME NEW w \in Nat \ {0}, NEW n \in 0 .. w - 1
    PROVE  n % w = n
<1>1. 0 * w + n = n
  OBVIOUS
<1>2. (0 * w + n) % w = n
  BY Divided
<1> QED
  BY <1>1, <1>2

\* The numbers of the types.
LEMMA NumbersAre ==
    \E h, x \in Nat :
       /\ x >= 2 /\ 2 * x <= h
       /\ Numeric!Power[Width - 1] = h /\ Numeric!Power[Width] = 2 * h /\ Numeric!MaxExact = x
       /\ Numeric!MinInt = -h /\ Numeric!MaxInt = h - 1 /\ Numeric!MaxUint = 2 * h - 1
       /\ Numeric!Rounded(Numeric!MaxInt) = h /\ Numeric!Rounded(Numeric!MaxUint) = 2 * h
<1> DEFINE h == Numeric!Power[Width - 1]
           x == Numeric!Power[Mantissa]
<1>1. /\ Width \in Nat /\ Width - 1 \in 0 .. Width /\ Width \in 0 .. Width /\ Width # 0 /\ Mantissa \in 0 .. Width /\ Mantissa # 0
      /\ Mantissa < Width - 1 /\ Width - 1 \in Mantissa + 1 .. Width /\ Width \in Mantissa + 1 .. Width
      /\ 0 \in 0 .. Width /\ 0 < Mantissa
  BY AlgorithmsAssumption
<1>2. h \in Nat /\ x \in Nat /\ Numeric!Power[Width] = 2 * h /\ Numeric!Power[0] = 1
  <2>1. h \in Nat /\ x \in Nat
    BY <1>1, PowersArePositive
  <2>2. Numeric!Power[Width] = 2 * h /\ Numeric!Power[0] = 1
    BY <1>1, PowerIs
  <2> QED
    BY <2>1, <2>2
<1>3. 2 * x <= h /\ x >= 2
  <2>1. 2 * x <= h
    BY <1>1, PowersGrow
  <2>2. 2 * Numeric!Power[0] <= x
    BY <1>1, PowersGrow
  <2> QED
    BY <1>2, <2>1, <2>2
<1>4. Numeric!Rounded(Numeric!Power[Width - 1] - 1) = h /\ Numeric!Rounded(Numeric!Power[Width] - 1) = Numeric!Power[Width]
  BY <1>1, RoundedUp
<1>5. /\ Numeric!MinInt = -h /\ Numeric!MaxInt = h - 1 /\ Numeric!MaxUint = Numeric!Power[Width] - 1
      /\ Numeric!MaxExact = x
  BY DEF Numeric!MinInt, Numeric!MaxInt, Numeric!MaxUint, Numeric!MaxExact
<1>6. Numeric!MaxUint = 2 * h - 1 /\ Numeric!Rounded(Numeric!MaxInt) = h /\ Numeric!Rounded(Numeric!MaxUint) = 2 * h
  BY <1>2, <1>4, <1>5
<1> HIDE DEF h, x
<1>7. /\ x >= 2 /\ 2 * x <= h
      /\ Numeric!Power[Width - 1] = h /\ Numeric!Power[Width] = 2 * h /\ Numeric!MaxExact = x
      /\ Numeric!MinInt = -h /\ Numeric!MaxInt = h - 1 /\ Numeric!MaxUint = 2 * h - 1
      /\ Numeric!Rounded(Numeric!MaxInt) = h /\ Numeric!Rounded(Numeric!MaxUint) = 2 * h
  BY <1>2, <1>3, <1>5, <1>6 DEF h
<1> QED
  BY <1>2, <1>7

\* A conversion of a value that loses nothing yields it, one of a value that
\* both types have exactly always does.
LEMMA ConversionIsRight ==
    ASSUME NEW v \in Numeric!Value, NEW kind \in Numeric!Kind
    PROVE  Numeric!LosslessBut(v, kind)
<1> DEFINE B == Numeric!Bounds
           N == v.n
<1>1. PICK h, x \in Nat :
         /\ x >= 2 /\ 2 * x <= h
         /\ Numeric!Power[Width - 1] = h /\ Numeric!Power[Width] = 2 * h /\ Numeric!MaxExact = x
         /\ Numeric!MinInt = -h /\ Numeric!MaxInt = h - 1 /\ Numeric!MaxUint = 2 * h - 1
         /\ Numeric!Rounded(Numeric!MaxInt) = h /\ Numeric!Rounded(Numeric!MaxUint) = 2 * h
  BY NumbersAre
<1>2. /\ B["int"] = -h .. h - 1 /\ B["int64"] = -h .. h - 1 /\ B["uint"] = 0 .. 2 * h - 1
      /\ B["float64"] = {n \in 2 * (-h) .. 2 * (2 * h - 1) : Numeric!Rounded(n) = n}
  BY <1>1 DEF Numeric!Bounds
<1>3. Numeric!Kind = {"int", "int64", "uint", "float64"}
  BY DEF Numeric!Kind, Numeric!Bounds
<1> HIDE DEF B
<1>4. /\ v.kind \in {"int", "int64", "uint", "float64"} /\ kind \in {"int", "int64", "uint", "float64"}
      /\ v.whole \in BOOLEAN /\ N \in Int /\ N \in B[v.kind]
      /\ ~v.whole => v.kind = "float64" /\ N = 0
  <2>1. v \in [kind : Numeric!Kind, whole : BOOLEAN, n : 2 * Numeric!MinInt .. 2 * Numeric!MaxUint]
    BY DEF Numeric!Value
  <2>2. v.kind \in Numeric!Kind /\ v.whole \in BOOLEAN /\ N \in 2 * (-h) .. 2 * (2 * h - 1)
    BY <1>1, <2>1
  <2>3. N \in Int
    BY <1>1, <2>2
  <2> QED
    BY <1>3, <2>2, <2>3 DEF Numeric!Value, B
<1>5. /\ v.kind = "int" => N \in -h .. h - 1
      /\ v.kind = "int64" => N \in -h .. h - 1
      /\ v.kind = "uint" => N \in 0 .. 2 * h - 1
  BY <1>2, <1>4
<1>6. Numeric!Abs(N) \in Nat /\ Numeric!Abs(N) = IF N < 0 THEN -N ELSE N
  BY <1>4 DEF Numeric!Abs
<1>7. Numeric!Abs(N) <= x => -x <= N /\ N <= x /\ Numeric!Rounded(N) = N
  <2>1. Numeric!Abs(N) <= x => -x <= N /\ N <= x
    BY <1>1, <1>4, <1>6
  <2>2. Numeric!Abs(N) <= x => Numeric!Rounded(N) = N
    BY <1>1, <1>4, SmallIsExact
  <2> QED
    BY <2>1, <2>2
<1>8. ASSUME NEW m \in Int, NEW to \in {"int", "int64", "uint", "float64"}, m \in B[to]
      PROVE  Numeric!Truncated(m, to) = {m}
  BY <1>8 DEF Numeric!Truncated, B
<1> DEFINE lost == Numeric!Loses(v, kind)
           got == Numeric!TryConvert(v, kind)
<1>9. /\ ~lost /\ v.kind = "uint" /\ kind = "int64" => N <= h - 1
      /\ ~lost /\ v.kind = "float64" /\ kind = "int" => N # h
      /\ ~lost /\ v.kind = "float64" /\ kind = "uint" => N # 2 * h
      /\ ~lost /\ kind = "float64" /\ v.whole => Numeric!Rounded(N) = N
  <2>1. h - 1 + 1 = h /\ 2 * h - 1 + 1 = 2 * h
    BY <1>1
  <2>2. /\ v.kind = "uint" /\ kind = "int64" /\ N > h - 1 => lost
        /\ kind = "float64" /\ v.whole /\ Numeric!Rounded(N) # N => lost
        /\ v.kind = "float64" /\ kind = "int" /\ N = h => lost
        /\ v.kind = "float64" /\ kind = "uint" /\ N = 2 * h => lost
    BY <1>1, <2>1 DEF Numeric!Loses
  <2> HIDE DEF lost
  <2> QED
    BY <1>1, <1>4, <2>2
<1> DEFINE right == (~lost => \A m \in got : m = N)
                    /\ (v.whole /\ Numeric!Abs(N) <= x => got = IF N \in B[kind] THEN {N} ELSE {})
<1>10. ASSUME kind = "int"
       PROVE  right
  <2>1. got = Numeric!ToInt(v)
    BY <1>10 DEF Numeric!TryConvert
  <2>2. N \in -h .. h - 1 => Numeric!Truncated(N, "int") = {N}
    BY <1>2, <1>4, <1>8
  <2>3. /\ v.kind = "uint" /\ N > h - 1 => got = {}
        /\ ~(v.kind = "uint" /\ N > h - 1) /\ v.kind # "float64" => got = {N}
        /\ v.kind = "float64" /\ (~v.whole \/ N < -h \/ N > h) => got = {}
        /\ v.kind = "float64" /\ ~(~v.whole \/ N < -h \/ N > h) => got = Numeric!Truncated(N, "int")
    BY <1>1, <2>1 DEF Numeric!ToInt
  <2> HIDE DEF lost, got
  <2>4. ~lost => got = {} \/ got = {N}
    BY <1>1, <1>4, <1>9, <1>10, <2>2, <2>3
  <2>5. Numeric!Abs(N) <= x => N \in B[kind] /\ N \in -h .. h - 1
    BY <1>1, <1>2, <1>4, <1>7, <1>10
  <2>6. v.whole /\ Numeric!Abs(N) <= x => got = {N}
    BY <1>1, <1>4, <2>2, <2>3, <2>5
  <2> QED
    BY <2>4, <2>5, <2>6
<1>11. ASSUME kind = "int64"
       PROVE  right
  <2>1. got = Numeric!ToInt64(v)
    BY <1>11 DEF Numeric!TryConvert
  <2>2. N \in -h .. h - 1 => Numeric!Truncated(N, "int64") = {N}
    BY <1>2, <1>4, <1>8
  <2>3. N \in -h .. h - 1 => Numeric!Wrapped(N, "int64") = N
    <3>1. ASSUME N \in -h .. h - 1
          PROVE  N + h \in 0 .. 2 * h - 1 /\ 2 * h \in Nat \ {0} /\ N + h - h = N
      BY <1>1, <1>4, <3>1
    <3>2. N \in -h .. h - 1 => (N + h) % (2 * h) = N + h
      BY <3>1, Remains
    <3>3. Numeric!Wrapped(N, "int64") = ((N + h) % (2 * h)) - h
      BY <1>1 DEF Numeric!Wrapped
    <3> QED
      BY <3>1, <3>2, <3>3
  <2>4. /\ v.kind # "float64" => got = {Numeric!Wrapped(N, "int64")}
        /\ v.kind = "float64" /\ (~v.whole \/ Numeric!Abs(N) > x) => got = {}
        /\ v.kind = "float64" /\ ~(~v.whole \/ Numeric!Abs(N) > x) => got = Numeric!Truncated(N, "int64")
    BY <1>1, <2>1 DEF Numeric!ToInt64
  <2> HIDE DEF lost, got
  <2>5. Numeric!Abs(N) <= x => N \in B[kind] /\ N \in -h .. h - 1
    BY <1>1, <1>2, <1>4, <1>7, <1>11
  <2>6. ~lost /\ v.kind # "float64" => N \in -h .. h - 1
    BY <1>1, <1>4, <1>5, <1>9, <1>11
  <2>7. ~(Numeric!Abs(N) > x) => Numeric!Abs(N) <= x
    BY <1>1, <1>6
  <2>8. ~lost => got = {} \/ got = {N}
    BY <2>2, <2>3, <2>4, <2>5, <2>6, <2>7
  <2>9. v.whole /\ Numeric!Abs(N) <= x => got = {N}
    BY <1>1, <1>6, <2>2, <2>3, <2>4, <2>5
  <2> QED
    BY <2>5, <2>8, <2>9
<1>12. ASSUME kind = "float64"
       PROVE  right
  <2>1. got = IF v.whole THEN {Numeric!Rounded(N)} ELSE {N}
    BY <1>12 DEF Numeric!TryConvert, Numeric!ToFloat64
  <2> HIDE DEF lost, got
  <2>2. ~lost => got = {N}
    BY <1>4, <1>9, <1>12, <2>1
  <2>3. Numeric!Abs(N) <= x => N \in B[kind]
    <3>1. Numeric!Abs(N) <= x => N \in 2 * (-h) .. 2 * (2 * h - 1)
      BY <1>1, <1>4, <1>7
    <3> QED
      BY <1>2, <1>7, <1>12, <3>1
  <2>4. v.whole /\ Numeric!Abs(N) <= x => got = {N}
    BY <1>7, <2>1
  <2> QED
    BY <2>2, <2>3, <2>4
<1>13. ASSUME kind = "uint"
       PROVE  right
  <2>1. got = Numeric!ToUint(v)
    BY <1>13 DEF Numeric!TryConvert
  <2>2. N \in 0 .. 2 * h - 1 => Numeric!Truncated(N, "uint") = {N}
    BY <1>2, <1>4, <1>8
  <2>3. N \in 0 .. 2 * h - 1 => Numeric!Wrapped(N, "uint") = N
    <3>1. 2 * h \in Nat \ {0}
      BY <1>1
    <3>2. N \in 0 .. 2 * h - 1 => N % (2 * h) = N
      BY <3>1, Remains
    <3>3. Numeric!Wrapped(N, "uint") = N % (2 * h)
      BY <1>1 DEF Numeric!Wrapped
    <3> QED
      BY <3>2, <3>3
  <2>4. /\ v.kind = "uint" => got = {N}
        /\ v.kind # "uint" /\ N < 0 => got = {}
        /\ v.kind \notin {"uint", "float64"} /\ ~(N < 0) => got = {Numeric!Wrapped(N, "uint")}
        /\ v.kind = "float64" /\ ~(N < 0) /\ (~v.whole \/ N > 2 * h) => got = {}
        /\ v.kind = "float64" /\ ~(N < 0) /\ ~(~v.whole \/ N > 2 * h) => got = Numeric!Truncated(N, "uint")
    BY <1>1, <2>1 DEF Numeric!ToUint
  <2> HIDE DEF lost, got
  <2>5. v.kind \notin {"uint", "float64"} /\ ~(N < 0) => N \in 0 .. 2 * h - 1
    BY <1>1, <1>4, <1>5
  <2>6. ~lost /\ v.kind = "float64" /\ ~(N < 0) /\ ~(N > 2 * h) => N \in 0 .. 2 * h - 1
    BY <1>1, <1>4, <1>9, <1>13
  <2>7. ~lost => got = {} \/ got = {N}
    BY <2>2, <2>3, <2>4, <2>5, <2>6
  <2>8. N \in B[kind] <=> N \in 0 .. 2 * h - 1
    BY <1>2, <1>13
  <2>9. Numeric!Abs(N) <= x => (N \in 0 .. 2 * h - 1 <=> ~(N < 0)) /\ ~(N > 2 * h)
    BY <1>1, <1>4, <1>7
  <2>10. v.kind = "uint" => ~(N < 0)
    BY <1>1, <1>4, <1>5
  <2>11. v.whole /\ Numeric!Abs(N) <= x => got = IF N \in B[kind] THEN {N} ELSE {}
    BY <2>2, <2>3, <2>4, <2>8, <2>9, <2>10
  <2> QED
    BY <2>7, <2>11
<1>14. right
  BY <1>4, <1>10, <1>11, <1>12, <1>13
<1>15. ASSUME v.kind = "int"
       PROVE  Numeric!Loaded([v EXCEPT !.kind = "float64"], [v EXCEPT !.n = 0]) = {N}
  <2> DEFINE s == [v EXCEPT !.kind = "float64"]
             t == [v EXCEPT !.n = 0]
  <2>1. v \in [kind : Numeric!Kind, whole : BOOLEAN, n : 2 * Numeric!MinInt .. 2 * Numeric!MaxUint]
    BY DEF Numeric!Value
  <2>2. s.kind = "float64" /\ s.n = N /\ s.whole = v.whole /\ t.kind = "int" /\ v.whole
    BY <1>4, <1>15, <2>1
  <2> HIDE DEF s, t
  <2>3. N \in -h .. h - 1
    BY <1>5, <1>15
  <2>4. Numeric!Truncated(N, "int") = {N}
    BY <1>2, <1>4, <1>8, <2>3
  <2>5. ~(N < -h) /\ ~(N > h)
    BY <1>1, <1>4, <2>3
  <2>6. Numeric!ToInt(s) = {N}
    BY <1>1, <2>2, <2>4, <2>5 DEF Numeric!ToInt
  <2>7. Numeric!TryConvert(s, t.kind) = {N}
    BY <2>2, <2>6 DEF Numeric!TryConvert
  <2>8. Numeric!Loaded(s, t) = {N}
    BY <2>2, <2>7 DEF Numeric!Loaded
  <2> QED
    BY <2>8 DEF s, t
<1>16. Numeric!Exactly(v, kind) = IF N \in B[kind] THEN {N} ELSE {}
  BY DEF Numeric!Exactly, B
<1> QED
  BY <1>1, <1>14, <1>15, <1>16 DEF Numeric!LosslessBut

-----------------------------------------------------------------------------
(* What is asked of the two algorithms. *)

InputsTyped ==
    /\ system = "diff" => old \in Seq(Line) /\ new \in Seq(Line)
    /\ system = "numbers" => number \in Numeric!Value /\ target \in Numeric!Kind

\* "Diff is the unified diff output" (core/diff.go) and "a lossless conversion"
\* (core/numeric.go): for texts of any lines and length and any context there
\* is, patching the old text with its diff yields the new one, the hunks say
\* where they are, do not overlap and change something; for any width of the
\* integers and any mantissa that is shorter, a conversion but those that are
\* known to lose something yields the number, and none that both types have
\* exactly is refused.
THEOREM AlgorithmsAreRight == OutputsSpec => []AlgorithmsRight
<1>1. OutputsInit => InputsTyped
  <2> SUFFICES ASSUME OutputsInit PROVE InputsTyped
    OBVIOUS
  <2>1. \A text \in Lines : text \in Seq(Line)
    <3> SUFFICES ASSUME NEW n \in 0 .. MaxLines, NEW text \in [1 .. n -> Line]
                 PROVE  text \in Seq(Line)
      BY DEF Lines
    <3>1. n \in Nat
      BY AlgorithmsAssumption
    <3> QED
      BY <3>1, OfAFunction
  <2>2. system = "diff" => old \in Seq(Line) /\ new \in Seq(Line)
    BY <2>1 DEF OutputsInit
  <2>3. system = "numbers" => number \in Numeric!Value /\ target \in Numeric!Kind
    BY DEF OutputsInit
  <2> QED
    BY <2>2, <2>3 DEF InputsTyped
<1>2. InputsTyped /\ [OutputsNext]_<<system, inputs, driftVars, vars>> => InputsTyped'
  <2> SUFFICES ASSUME InputsTyped, [OutputsNext]_<<system, inputs, driftVars, vars>>
               PROVE  InputsTyped'
    OBVIOUS
  <2>1. UNCHANGED <<system, inputs>>
    BY DEF OutputsNext, Ended
  <2> QED
    BY <2>1 DEF InputsTyped, inputs
<1>3. InputsTyped => AlgorithmsRight
  <2> SUFFICES ASSUME InputsTyped PROVE AlgorithmsRight
    OBVIOUS
  <2>1. ASSUME system = "diff"
        PROVE  Diff!DiffRight(old, new, Diff!Hunks(Diff!Edits(old, new), Context))
    <3>1. old \in Seq(Line) /\ new \in Seq(Line) /\ Context \in Nat \ {0}
      BY <2>1, AlgorithmsAssumption DEF InputsTyped
    <3> QED
      BY <3>1, DiffIsRight
  <2>2. ASSUME system = "numbers"
        PROVE  Numeric!LosslessBut(number, target)
    <3>1. number \in Numeric!Value /\ target \in Numeric!Kind
      BY <2>2 DEF InputsTyped
    <3> QED
      BY <3>1, ConversionIsRight
  <2> QED
    BY <2>1, <2>2 DEF AlgorithmsRight
<1> QED BY <1>1, <1>2, <1>3, PTL DEF OutputsSpec
=============================================================================

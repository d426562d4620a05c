------------------------------- MODULE Drift -------------------------------
(* `zhi drift`: what the templates of a workspace would render now, compared *)
(* with the files that are there, once or in a watch with a hook, while the  *)
(* tree, the templates and the files are changed by others.                  *)
(*                                                                           *)
(* A template renders one file, or one per child of a prefix, or only prints.*)
(* What a file contains is one text per output; its lines are in Diffs.      *)
(*                                                                           *)
(* Source: internal/cli/drift.go, internal/core/drift.go, export.go          *)
EXTENDS Integers, SequencesExt

CONSTANTS
    Templates,     \* the sequence of export.templates
    Children,      \* template -> sequence of its outputs' children, sorted
    Iterates,      \* those with `iterate`
    Prints,        \* those without an output path, or with "-"
    Text,
    Missing, Unreadable,
    MaxChanges     \* bound: what the others do

Template == Range(Templates)
Output == UNION {{<<t, c>> : c \in Range(Children[t])} : t \in Template \ Prints}

Running == -1    \* no exit code yet

\* The child of a template that renders one file.
Only(t) == Head(Children[t])

VARIABLES
    tree,       \* the outputs there would be, and what would be in them
    loads,      \* whether the tree can be loaded
    broken,     \* templates that cannot be rendered
    disk,       \* what is in the files
    mode,       \* "once" or "watch"
    stage,      \* where the command is
    data,       \* the tree of the check
    todo,       \* templates it has not come to yet
    rendered,   \* outputs that are rendered and not compared yet
    drifted, inSync, errors,    \* its result
    known,      \* prevState
    exit,       \* the exit code
    still,      \* history: nothing has changed since the check began
    changes     \* what the others have done so far

world == <<tree, loads, broken, disk>>
result == <<drifted, inSync, errors>>
vars == <<world, mode, stage, data, todo, rendered, result, known, exit, still, changes>>

Trees == {f \in UNION {[S -> Text] : S \in SUBSET Output} :
              \A t \in Template \ (Iterates \cup Prints) : <<t, Only(t)>> \in DOMAIN f}

NoData == [o \in {} |-> Missing]

TypeOK ==
    /\ tree \in Trees /\ data \in Trees \cup {NoData} /\ loads \in BOOLEAN /\ broken \subseteq Template
    /\ disk \in [Output -> Text \cup {Missing, Unreadable}]
    /\ mode \in {"once", "watch"} /\ stage \in {"waiting", "checking", "hook", "ended"}
    /\ todo \in Seq(Template) /\ rendered \subseteq DOMAIN data
    /\ drifted \subseteq Output /\ inSync \subseteq Output /\ errors \subseteq Output \cup {<<t, "">> : t \in Template}
    /\ known \in {"unknown", "clean", "drifted"} /\ exit \in {Running, 0, 1, 2}

Init ==
    /\ tree \in Trees /\ loads \in BOOLEAN /\ broken = {}
    /\ disk \in [Output -> {Missing} \cup Text]
    /\ mode \in {"once", "watch"} /\ stage = "waiting"
    /\ data = NoData /\ todo = <<>> /\ rendered = {}
    /\ drifted = {} /\ inSync = {} /\ errors = {}
    /\ known = "unknown" /\ exit = Running /\ still = TRUE /\ changes = 0

----------------------------------------------------------------------------
(* CheckDrift.                                                              *)

\* PrepareTreeData: a tree that cannot be loaded ends one check of a watch
\* and leaves what it knew, and ends the command with main's exit code for
\* any error.
NoTree ==
    /\ stage = "waiting" /\ ~loads
    /\ mode = "once" /\ stage' = "ended" /\ exit' = 1
    /\ UNCHANGED <<world, mode, data, todo, rendered, result, known, still, changes>>

\* Mutant of Begin: what has drifted need not be looked at again.
BeginUnlessDrifted ==
    /\ stage = "waiting" /\ loads /\ known # "drifted"
    /\ stage' = "checking" /\ data' = tree /\ todo' = Templates /\ rendered' = {}
    /\ drifted' = {} /\ inSync' = {} /\ errors' = {} /\ still' = TRUE
    /\ UNCHANGED <<world, mode, known, exit, changes>>

Begin ==
    /\ stage = "waiting" /\ loads
    /\ stage' = "checking" /\ data' = tree /\ todo' = Templates /\ rendered' = {}
    /\ drifted' = {} /\ inSync' = {} /\ errors' = {} /\ still' = TRUE
    /\ UNCHANGED <<world, mode, known, exit, changes>>

\* directChildren, iterateOutputPaths: the outputs the tree has.
Outputs(t) == {o \in DOMAIN data : o[1] = t}

\* A template without an output path is a warning.
Skip(t) == t \in Prints /\ rendered' = {} /\ UNCHANGED errors

\* Export, dry run: what cannot be rendered is an error of the template.
RenderOne(t) ==
    /\ t \notin Iterates \cup Prints
    /\ IF t \in broken THEN errors' = errors \cup {<<t, "">>} /\ rendered' = {}
       ELSE rendered' = Outputs(t) /\ UNCHANGED errors

\* ExportIterate, dry run: without children nothing is rendered; one child
\* that fails fails the template.
RenderEach(t) ==
    /\ t \in Iterates
    /\ IF t \in broken /\ Outputs(t) # {} THEN errors' = errors \cup {<<t, "">>} /\ rendered' = {}
       ELSE rendered' = Outputs(t) /\ UNCHANGED errors

Render ==
    /\ stage = "checking" /\ rendered = {} /\ todo # <<>>
    /\ todo' = Tail(todo)
    /\ Skip(Head(todo)) \/ RenderOne(Head(todo)) \/ RenderEach(Head(todo))
    /\ UNCHANGED <<world, mode, stage, data, drifted, inSync, known, exit, still, changes>>

\* Mutant of Differs: a file that is not there has not drifted.
DiffersIfThere(o) == disk[o] # Missing /\ disk[o] # data[o]

\* DiffExport: a file that is not there has changes.
Differs(o) == disk[o] # data[o]

\* The children of a template come in their order.
Place(o) == CHOOSE i \in 1..Len(Children[o[1]]) : Children[o[1]][i] = o[2]
IsNext(o) == \A other \in rendered : Place(o) <= Place(other)

\* checkSingleDrift, checkIterateDrift: each file is read at its own time.
CompareOne(o) ==
    /\ IF disk[o] = Unreadable THEN errors' = errors \cup {o} /\ UNCHANGED <<drifted, inSync>>
       ELSE IF Differs(o) THEN drifted' = drifted \cup {o} /\ UNCHANGED <<errors, inSync>>
       ELSE inSync' = inSync \cup {o} /\ UNCHANGED <<errors, drifted>>
    /\ rendered' = rendered \ {o}

Compare ==
    /\ stage = "checking"
    /\ \E o \in rendered : IsNext(o) /\ CompareOne(o)
    /\ UNCHANGED <<world, mode, stage, data, todo, known, exit, still, changes>>

----------------------------------------------------------------------------
(* runDriftOnce, runDriftWatch.                                             *)

\* The result and the tree are the check's own.
Forgotten == data' = NoData /\ drifted' = {} /\ inSync' = {} /\ errors' = {}

Checked == stage = "checking" /\ todo = <<>> /\ rendered = {}

\* printDriftHuman, printDriftJSON: a drift counts before an error.
Report ==
    /\ Checked /\ mode = "once"
    /\ stage' = "ended"
    /\ exit' = IF drifted # {} THEN 1 ELSE IF errors # {} THEN 2 ELSE 0
    /\ Forgotten
    /\ UNCHANGED <<world, mode, todo, rendered, known, still, changes>>

\* Errors alone count as clean.
Verdict == IF drifted # {} THEN "drifted" ELSE "clean"

\* Only a change is printed, and only one to "drifted" runs the hook, which
\* the watch waits for.
Note ==
    /\ Checked /\ mode = "watch"
    /\ known' = Verdict
    /\ stage' \in IF Verdict = "drifted" /\ known # "drifted" THEN {"hook", "waiting"} ELSE {"waiting"}
    /\ Forgotten
    /\ UNCHANGED <<world, mode, todo, rendered, exit, still, changes>>

\* It succeeds or not, or is killed with the context.
HookEnds ==
    /\ stage = "hook" /\ stage' = "waiting"
    /\ UNCHANGED <<world, mode, data, todo, rendered, result, known, exit, still, changes>>

\* The loop sees the end of the context between two checks; a watch ends well.
Cancel ==
    /\ stage = "waiting" /\ mode = "watch"
    /\ stage' = "ended" /\ exit' = 0
    /\ UNCHANGED <<world, mode, data, todo, rendered, result, known, still, changes>>

----------------------------------------------------------------------------
(* The others: commands that set and export, an editor, somebody.           *)

Changed ==
    /\ changes < MaxChanges /\ changes' = changes + 1 /\ still' = FALSE
    /\ UNCHANGED <<mode, stage, data, todo, rendered, result, known, exit>>

SetTree == tree' \in Trees \ {tree} /\ Changed /\ UNCHANGED <<loads, broken, disk>>
StoreFails == loads' = ~loads /\ Changed /\ UNCHANGED <<tree, broken, disk>>

EditTemplate ==
    /\ \E t \in Template \ Prints : broken' = (broken \ {t}) \cup ({t} \ broken)
    /\ Changed /\ UNCHANGED <<tree, loads, disk>>

EditFile ==
    /\ \E o \in Output, x \in Text \cup {Missing, Unreadable} :
          x # disk[o] /\ disk' = [disk EXCEPT ![o] = x]
    /\ Changed /\ UNCHANGED <<tree, loads, broken>>

Renderable == {o \in DOMAIN tree : o[1] \notin broken}

Export ==
    /\ disk' = [o \in Output |-> IF o \in Renderable THEN tree[o] ELSE disk[o]]
    /\ disk' # disk /\ loads
    /\ Changed /\ UNCHANGED <<tree, loads, broken>>

Check == Begin \/ Render \/ Compare \/ Note
Next ==
    \/ Check \/ NoTree \/ Report \/ HookEnds \/ Cancel
    \/ SetTree \/ StoreFails \/ EditTemplate \/ EditFile \/ Export

Spec == Init /\ [][Next]_vars

\* The ticker ticks, and the hook, which the watch waits for, ends.
Fairness == WF_vars(Check) /\ WF_vars(HookEnds) /\ WF_vars(NoTree) /\ WF_vars(Report)
FairSpec == Spec /\ Fairness

----------------------------------------------------------------------------

Drift == {o \in Renderable : disk[o] # Unreadable /\ disk[o] # tree[o]}
Watching == mode = "watch" /\ stage # "ended" /\ loads
Failing == {o \in DOMAIN tree : o[1] \in broken \/ disk[o] = Unreadable}

\* When nothing changed during a check, what it ends with is what the exit
\* codes say (cli/drift.go): 1 if a file that could be compared differs, 2 if
\* none does and something could not be compared, 0 if all are in sync; and a
\* watch knows a drift exactly if there is one.
VerdictTrue ==
    /\ stage = "ended" /\ mode = "once" /\ still /\ loads =>
          exit = (IF Drift # {} THEN 1 ELSE IF Failing # {} THEN 2 ELSE 0)
    /\ stage \in {"waiting", "hook"} /\ mode = "watch" /\ still /\ known # "unknown" =>
          (known = "drifted") = (Drift # {})

\* "Run continuously, checking at --interval": a drift that stays is noticed,
\* and so is its end, whatever else cannot be compared meanwhile.
DriftIsNoticed ==
    /\ \A o \in Output : <>[](Watching /\ o \in Drift) => <>[](known = "drifted")
    /\ <>[](Watching /\ Drift = {}) /\ <>[][FALSE]_world => <>[](known = "clean")

\* "2  Error during drift check" (cli/drift.go).
ErrorsExitWithTwo == stage = "ended" /\ mode = "once" /\ still /\ ~loads => exit = 2
=============================================================================

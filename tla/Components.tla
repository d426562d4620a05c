------------------------------ MODULE Components ------------------------------
(***************************************************************************)
(* The component manager of a workspace and the state file it is kept in.  *)
(*                                                                         *)
(* Every run of the zhi binary is a process.  It reads the component       *)
(* definitions from zhi.yaml, builds a ComponentManager from them, and     *)
(* overlays the on/off switches it finds in .zhi/components.json.  A       *)
(* command (`zhi component enable|disable`) changes the switches once and  *)
(* rewrites the file; an editing session (TUI, web UI, MCP) changes them   *)
(* in memory for as long as it lives.  Nothing locks the file, a process   *)
(* may die between any two steps, and zhi.yaml may be edited in between.   *)
(*                                                                         *)
(* Source: internal/core/component.go, internal/cli/component.go,          *)
(*         internal/cli/helpers.go, internal/cli/root.go,                  *)
(*         internal/ui/driver.go                                           *)
(***************************************************************************)
EXTENDS Naturals, FiniteSets

CONSTANTS
    Component,    \* every component name any version of zhi.yaml defines
    Workspaces,   \* the versions of zhi.yaml: [names, mandatory, deps]
    Procs,        \* runs of the zhi binary
    Absent,       \* components.json does not exist
    Empty,        \* components.json was truncated and not written yet
    Garbage,      \* components.json holds bytes that are not JSON
    Panic         \* the report of a command that panics while printing it

WorkspaceType ==
    [names     : SUBSET Component,
     mandatory : SUBSET Component,
     deps      : [Component -> SUBSET Component]]

\* What NewComponentManager accepts: dependencies are known names and there
\* is no set of components each of which waits for another one of the set
\* (what Kahn's algorithm is left with when it finds a cycle).
WellFormed(w) ==
    /\ w.mandatory \subseteq w.names
    /\ \A c \in w.names : w.deps[c] \subseteq w.names
    /\ \A S \in SUBSET w.names \ {{}} : \E c \in S : w.deps[c] \cap S = {}

ASSUME WorkspacesAssumption ==
    /\ \A w \in Workspaces : w \in WorkspaceType /\ WellFormed(w)
    /\ Workspaces # {}

Contents == [known : SUBSET Component, on : SUBSET Component]

ASSUME FileAssumption ==
    /\ Absent \notin Contents /\ Empty \notin Contents /\ Garbage \notin Contents
    /\ Panic \notin Component
    /\ Cardinality({Absent, Empty, Garbage}) = 3

-----------------------------------------------------------------------------
(* The manager's operations, as functions of the definitions w and the set *)
(* E of enabled components.                                                *)

\* What enableTransitive(c) switches on: c and, through components that are
\* still off, everything they depend on.  A component already on ends the
\* walk, so what lies beneath it is not looked at.
Pulled(w, E, c) ==
    IF c \in E THEN {}
    ELSE {d \in w.names :
            \A S \in SUBSET w.names :
               c \in S /\ (\A x \in S : w.deps[x] \ E \subseteq S) => d \in S}

Enabled(w, E, c) == E \cup Pulled(w, E, c)

\* NewComponentManager: everything off, then each mandatory component is
\* enabled with what it needs.
Default(w) ==
    {d \in w.names :
        \A S \in SUBSET w.names :
           w.mandatory \subseteq S /\ (\A x \in S : w.deps[x] \subseteq S) => d \in S}

\* The components that name c among their dependencies.
Dependents(w, c) == {d \in w.names : c \in w.deps[d]}

\* Mutant of MayDisable: nobody asks who needs the component.
MayDisableNeeded(w, E, c) == c \in w.names \ w.mandatory

\* Disable refuses a mandatory component and one an enabled component needs.
MayDisable(w, E, c) ==
    /\ c \in w.names \ w.mandatory
    /\ Dependents(w, c) \cap E = {}

TransitiveDependents(w, c) ==
    {d \in w.names :
        \A S \in SUBSET w.names :
           (\A x \in S \cup {c} : Dependents(w, x) \subseteq S) => d \in S}

\* Mutant of MayCascade: only the component itself must not be mandatory.
MayCascadeUnderMandatory(w, c) == c \in w.names \ w.mandatory

\* DisableCascade refuses when any dependent, however far, is mandatory.
MayCascade(w, c) ==
    /\ c \in w.names \ w.mandatory
    /\ TransitiveDependents(w, c) \cap w.mandatory = {}

\* What disableCascadeRecursive(c) switches off: c and, through components
\* that are on and not mandatory, everything that depends on them.
Fallen(w, E, c) ==
    IF c \notin E THEN {}
    ELSE {d \in E :
            \A S \in SUBSET E :
               c \in S /\ (\A x \in S : (Dependents(w, x) \cap E) \ w.mandatory \subseteq S)
                 => d \in S}

\* Mutants of LoadState: the file may switch mandatory components off; the
\* file may name components the definitions do not have.
LoadStateUnforced(w, E, f) ==
    {c \in w.names : IF c \in f.known THEN c \in f.on ELSE c \in E}

\* LoadState over the switches NewComponentManager set.
LoadState(w, E, f) ==
    {c \in w.names :
        IF c \in f.known THEN c \in w.mandatory \/ c \in f.on ELSE c \in E}

\* withEngine: a missing file and one that does not parse leave the defaults.
Loaded(w, f) ==
    IF f \in Contents THEN LoadState(w, Default(w), f) ELSE Default(w)

\* The dependencies ValidateDependencies reports as broken.
Broken(w, E) == {e \in E \X w.names : e[2] \in w.deps[e[1]] \ E}

-----------------------------------------------------------------------------
VARIABLES
    yaml,   \* the version of zhi.yaml on disk
    file,   \* components.json
    pc,     \* pc[p]: where the process is
    ws,     \* ws[p]: the definitions its manager was built from
    on,     \* on[p]: its manager's enabled components
    also    \* also[p]: the components its report calls "also" changed, or {Panic}

vars == <<yaml, file, pc, ws, on, also>>

\* idle        not running
\* configured  zhi.yaml read, manager built, components.json not read yet
\* command     a `zhi component` command about to change the switches
\* changed     it changed them and is about to save
\* truncated   os.WriteFile opened the file with O_TRUNC, not written yet
\* session     an editing session with unsaved work
\* saved       an editing session that has just done SaveTree
Locations == {"idle", "configured", "command", "changed", "truncated",
              "session", "saved"}

Running == {p \in Procs : pc[p] \notin {"idle", "configured"}}

Init ==
    /\ yaml \in Workspaces
    /\ file = Absent
    /\ pc = [p \in Procs |-> "idle"]
    /\ ws = [p \in Procs |-> yaml]
    /\ on = [p \in Procs |-> {}]
    /\ also = [p \in Procs |-> {}]

Goto(p, from, to) ==
    /\ pc[p] = from
    /\ pc' = [pc EXCEPT ![p] = to]

\* core.LoadWorkspace and core.NewEngine.
Start(p) ==
    /\ Goto(p, "idle", "configured")
    /\ ws' = [ws EXCEPT ![p] = yaml]
    /\ on' = [on EXCEPT ![p] = Default(yaml)]
    /\ UNCHANGED <<yaml, file, also>>

\* The second half of withEngine; what runs next is a command or a session.
ReadFile(p) ==
    /\ \E next \in {"command", "session"} : Goto(p, "configured", next)
    /\ on' = [on EXCEPT ![p] = Loaded(ws[p], file)]
    /\ UNCHANGED <<yaml, file, ws, also>>

\* `zhi component enable c`.  All but the last entry of the report, c
\* itself, are announced as dependencies enabled too.
CommandEnable(p, c) ==
    /\ Goto(p, "command", "changed")
    /\ c \in ws[p].names
    /\ on' = [on EXCEPT ![p] = Enabled(ws[p], on[p], c)]
    /\ also' = [also EXCEPT ![p] = Pulled(ws[p], on[p], c) \ {c}]
    /\ UNCHANGED <<yaml, file, ws>>

\* `zhi component disable c`.
CommandDisable(p, c) ==
    /\ Goto(p, "command", "changed")
    /\ MayDisable(ws[p], on[p], c)
    /\ on' = [on EXCEPT ![p] = @ \ {c}]
    /\ also' = [also EXCEPT ![p] = {}]
    /\ UNCHANGED <<yaml, file, ws>>

\* disabled[1:], the part of DisableCascade's list that is printed as "also
\* disabled".  The list ends with the component asked for and starts with
\* one nothing else in it depends on; of an empty list there is no [1:].
ForceReport(w, D) ==
    IF D = {} THEN {{Panic}}
    ELSE IF Cardinality(D) = 1 THEN {{}}
    ELSE {D \ {h} : h \in {d \in D : Dependents(w, d) \cap D = {}}}

\* `zhi component disable --force c`.
CommandDisableForce(p, c) ==
    LET gone == Fallen(ws[p], on[p], c) IN
    /\ Goto(p, "command", "changed")
    /\ MayCascade(ws[p], c)
    /\ on' = [on EXCEPT ![p] = @ \ gone]
    /\ \E said \in ForceReport(ws[p], gone) : also' = [also EXCEPT ![p] = said]
    /\ UNCHANGED <<yaml, file, ws>>

\* saveComponentState, first half: os.WriteFile truncates the file ...
Truncate(p) ==
    /\ Goto(p, "changed", "truncated")
    /\ file' = Empty
    /\ UNCHANGED <<yaml, ws, on, also>>

\* What a file holds after new is written over what a concurrent command
\* wrote since this one's truncate.  "true" is shorter than "false": a state
\* with more switches on is the shorter text and leaves the tail of the
\* longer one behind it.  With different names either may be longer.
WrittenOver(old, new) ==
    IF old \in {Absent, Empty} THEN {new}
    ELSE IF old = Garbage THEN {new, Garbage}
    ELSE IF old.known # new.known THEN {new, Garbage}
    ELSE IF Cardinality(old.on) < Cardinality(new.on) THEN {Garbage}
    ELSE {new}

\* ... second half: the JSON is written at offset 0 and the command ends.
Write(p) ==
    /\ Goto(p, "truncated", "idle")
    /\ file' \in WrittenOver(file, [known |-> ws[p].names, on |-> on[p]])
    /\ on' = [on EXCEPT ![p] = {}]
    /\ also' = [also EXCEPT ![p] = {}]
    /\ UNCHANGED <<yaml, ws>>

\* UIController.EnableComponent and DisableComponent: in memory only.
SessionEnable(p, c) ==
    /\ pc[p] \in {"session", "saved"}
    /\ pc' = [pc EXCEPT ![p] = "session"]
    /\ c \in ws[p].names
    /\ on' = [on EXCEPT ![p] = Enabled(ws[p], on[p], c)]
    /\ UNCHANGED <<yaml, file, ws, also>>

SessionDisable(p, c) ==
    /\ pc[p] \in {"session", "saved"}
    /\ pc' = [pc EXCEPT ![p] = "session"]
    /\ MayDisable(ws[p], on[p], c)
    /\ on' = [on EXCEPT ![p] = @ \ {c}]
    /\ UNCHANGED <<yaml, file, ws, also>>

\* UIController.SaveTree: the tree goes to the store, no switch anywhere.
SessionSaveTree(p) ==
    /\ Goto(p, "session", "saved")
    /\ UNCHANGED <<yaml, file, ws, on, also>>

\* The process ends: an error return of a command, the end of a session, a
\* failed write of the file, or a crash at any point.
Stop(p) ==
    /\ pc[p] # "idle"
    /\ pc' = [pc EXCEPT ![p] = "idle"]
    /\ on' = [on EXCEPT ![p] = {}]
    /\ also' = [also EXCEPT ![p] = {}]
    /\ UNCHANGED <<yaml, file, ws>>

\* Somebody edits the components of zhi.yaml.
EditYaml ==
    /\ yaml' \in Workspaces \ {yaml}
    /\ UNCHANGED <<file, pc, ws, on, also>>

Step(p) ==
    \/ Start(p)
    \/ ReadFile(p)
    \/ \E c \in Component : CommandEnable(p, c)
    \/ \E c \in Component : CommandDisable(p, c)
    \/ \E c \in Component : CommandDisableForce(p, c)
    \/ Truncate(p)
    \/ Write(p)
    \/ \E c \in Component : SessionEnable(p, c)
    \/ \E c \in Component : SessionDisable(p, c)
    \/ SessionSaveTree(p)
    \/ Stop(p)

\* While nobody edits zhi.yaml ...
FixedNext == \E p \in Procs : Step(p)
FixedSpec == Init /\ [][FixedNext]_vars

\* ... and in general.
Next == FixedNext \/ EditYaml
Spec == Init /\ [][Next]_vars

-----------------------------------------------------------------------------
(* Properties *)

TypeOK ==
    /\ yaml \in Workspaces
    /\ file \in {Absent, Empty, Garbage} \cup Contents
    /\ pc \in [Procs -> Locations]
    /\ ws \in [Procs -> Workspaces]
    /\ on \in [Procs -> SUBSET Component]
    /\ also \in [Procs -> SUBSET (Component \cup {Panic})]
    /\ \A p \in Procs : on[p] \subseteq ws[p].names

\* A mandatory component is on in every running process, whatever the state
\* file says, whoever wrote it, under which version of zhi.yaml and however
\* often the switches were changed since ("can never be disabled").
MandatoryOn == \A p \in Running : ws[p].mandatory \subseteq on[p]

\* While zhi.yaml stays the same, no interleaving of commands and sessions,
\* no crash in the middle of a save and no mix of two saves ever leaves an
\* enabled component whose dependency is off, in a process or in the file.
DependenciesOn ==
    /\ \A p \in Running : Broken(ws[p], on[p]) = {}
    /\ file \in Contents => Broken(yaml, file.on) = {}

\* Whatever state a manager was loaded with, broken ones included, changing a
\* switch never breaks one more dependency.
BreaksNoMore ==
    \A p \in Running :
       pc'[p] # "idle" => Broken(ws[p], on'[p]) \subseteq Broken(ws[p], on[p])

NeverBreaksMore == [][BreaksNoMore]_vars

\* "Enable enables a component and transitively enables its dependencies"
\* (component.go, Enable; docs/user-guide/components.md, Dependencies).
EnableCompletes ==
    [][\A p \in Procs, c \in Component :
          CommandEnable(p, c) =>
             Pulled(ws[p], {}, c) \subseteq on'[p]]_vars

\* "SaveTree persists the current tree and component state" (driver.go).
SaveTreePersists ==
    \A p \in Procs : pc[p] = "saved" => Loaded(ws[p], file) = on[p]

\* "Disabled '%s' (also disabled: %s)" (internal/cli/component.go): the list
\* names the other components the forced disable switched off.
ForceReportsTheOthers ==
    [][\A p \in Procs, c \in Component :
          CommandDisableForce(p, c) =>
             also'[p] = (on[p] \ on'[p]) \ {c}]_vars
=============================================================================

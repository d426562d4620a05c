--------------------------- MODULE ComponentsProofs ---------------------------
(***************************************************************************)
(* Theorems about Components, for every set of component names, every      *)
(* collection of zhi.yaml versions and every number of processes, the      *)
(* proof that commands which do not overlap implement the ledger of        *)
(* ComponentLedger, and theorems about Launching, for any plugins in any   *)
(* directories, any references and any frontends, about Wire, for any      *)
(* calls and errors of any kinds, and about ConfigPlugins, for any mount   *)
(* points, any number of files and any callers.                            *)
(***************************************************************************)
EXTENDS MCLaunching, FiniteSetTheorems, TLAPS

-----------------------------------------------------------------------------
(* The operations of the manager. *)

\* Enabling a component only adds to what is on, stays within the defined
\* names and breaks no dependency that was not broken before.
LEMMA EnabledSound ==
    ASSUME NEW w \in WorkspaceType, WellFormed(w),
           NEW E \in SUBSET w.names, NEW c \in w.names
    PROVE  /\ Enabled(w, E, c) \in SUBSET w.names
           /\ E \subseteq Enabled(w, E, c)
           /\ Broken(w, Enabled(w, E, c)) \subseteq Broken(w, E)
<1>1. Enabled(w, E, c) \in SUBSET w.names /\ E \subseteq Enabled(w, E, c)
  BY DEF Enabled, Pulled
<1>2. ASSUME NEW x \in Pulled(w, E, c)
      PROVE  w.deps[x] \ E \subseteq Pulled(w, E, c)
  BY <1>2 DEF Pulled, WellFormed
<1>3. Broken(w, Enabled(w, E, c)) \subseteq Broken(w, E)
  BY <1>1, <1>2 DEF Enabled, Broken
<1> QED
  BY <1>1, <1>3

\* The defaults of a new manager hold every mandatory component and leave no
\* dependency off.
LEMMA DefaultSound ==
    ASSUME NEW w \in WorkspaceType, WellFormed(w)
    PROVE  /\ Default(w) \in SUBSET w.names
           /\ w.mandatory \subseteq Default(w)
           /\ Broken(w, Default(w)) = {}
<1>1. Default(w) \in SUBSET w.names /\ w.mandatory \subseteq Default(w)
  BY DEF Default, WellFormed
<1>2. ASSUME NEW x \in Default(w)
      PROVE  w.deps[x] \subseteq Default(w)
  BY <1>2 DEF Default, WellFormed
<1> QED
  BY <1>1, <1>2 DEF Broken

\* A plain disable never touches a mandatory component and breaks nothing.
LEMMA DisableSound ==
    ASSUME NEW w \in WorkspaceType, NEW E \in SUBSET w.names, NEW c \in w.names,
           MayDisable(w, E, c)
    PROVE  /\ w.mandatory \subseteq E => w.mandatory \subseteq E \ {c}
           /\ Broken(w, E \ {c}) \subseteq Broken(w, E)
  BY DEF MayDisable, Dependents, Broken

\* All that a cascade switches off depends on the component it started from.
LEMMA FallenDepends ==
    ASSUME NEW w \in WorkspaceType, NEW E \in SUBSET w.names, NEW c \in w.names
    PROVE  Fallen(w, E, c) \subseteq {c} \cup TransitiveDependents(w, c)
<1> DEFINE D == {c} \cup TransitiveDependents(w, c)
           S == E \cap D
<1>1. ASSUME NEW x \in D
      PROVE  Dependents(w, x) \subseteq D
  <2>1. Dependents(w, x) \subseteq w.names
    BY DEF Dependents
  <2>2. ASSUME NEW T \in SUBSET w.names,
               \A y \in T \cup {c} : Dependents(w, y) \subseteq T
        PROVE  Dependents(w, x) \subseteq T
    BY <1>1, <2>2 DEF TransitiveDependents
  <2> QED
    BY <2>1, <2>2 DEF TransitiveDependents
<1>2. CASE c \in E
  <2>1. S \in SUBSET E /\ c \in S
    BY <1>2
  <2>2. \A x \in S : (Dependents(w, x) \cap E) \ w.mandatory \subseteq S
    BY <1>1
  <2>3. Fallen(w, E, c) \subseteq S
    BY <1>2, <2>1, <2>2 DEF Fallen
  <2> QED
    BY <2>3
<1>3. CASE c \notin E
  BY <1>3 DEF Fallen
<1> QED
  BY <1>2, <1>3

\* A cascading disable never touches a mandatory component and breaks nothing.
LEMMA CascadeSound ==
    ASSUME NEW w \in WorkspaceType, NEW E \in SUBSET w.names, NEW c \in w.names,
           MayCascade(w, c)
    PROVE  /\ w.mandatory \subseteq E => w.mandatory \subseteq E \ Fallen(w, E, c)
           /\ Broken(w, E \ Fallen(w, E, c)) \subseteq Broken(w, E)
<1> DEFINE F == Fallen(w, E, c)
<1>1. c \in w.names \ w.mandatory /\ TransitiveDependents(w, c) \cap w.mandatory = {}
  BY DEF MayCascade
<1>2. F \cap w.mandatory = {}
  BY <1>1, FallenDepends
<1>3. ASSUME NEW x \in F, NEW d \in E \ F, x \in w.deps[d]
      PROVE  FALSE
  <2>1. d \in Dependents(w, x)
    BY <1>3 DEF Dependents
  <2>2. d \in w.mandatory
    BY <1>3, <2>1 DEF Fallen
  <2>3. x \in {c} \cup TransitiveDependents(w, c)
    BY <1>1, FallenDepends
  <2>4. d \in TransitiveDependents(w, c)
    BY <2>1, <2>3 DEF TransitiveDependents, Dependents
  <2> QED
    BY <1>1, <2>2, <2>4
<1>4. Broken(w, E \ F) \subseteq Broken(w, E)
  BY <1>3 DEF Broken
<1> QED
  BY <1>2, <1>4

\* Whatever the state file holds, the manager ends up within the defined
\* names and with every mandatory component on.
LEMMA LoadedSound ==
    ASSUME NEW w \in WorkspaceType, WellFormed(w), NEW f
    PROVE  /\ Loaded(w, f) \in SUBSET w.names
           /\ w.mandatory \subseteq Loaded(w, f)
  BY DefaultSound DEF Loaded, LoadState, WellFormed

\* A save leaves its own switches in the file, or bytes that do not parse.
LEMMA WrittenOverSound ==
    ASSUME NEW f, NEW new
    PROVE  WrittenOver(f, new) \subseteq {new, Garbage}
  BY DEF WrittenOver

-----------------------------------------------------------------------------
(* Type correctness. *)

LEMMA WorkspaceFacts ==
    ASSUME NEW w \in Workspaces
    PROVE  w \in WorkspaceType /\ WellFormed(w) /\ w.names \subseteq Component
  BY WorkspacesAssumption DEF WorkspaceType

LEMMA InitTypeOK == Init => TypeOK
  BY DEF Init, TypeOK, Locations

LEMMA StepTypeOK ==
    ASSUME TypeOK, NEW p \in Procs, Step(p)
    PROVE  TypeOK'
<1> DEFINE w == ws[p]
           E == on[p]
<1>1. /\ w \in Workspaces /\ w \in WorkspaceType /\ WellFormed(w)
      /\ w.names \subseteq Component /\ E \in SUBSET w.names
  BY WorkspaceFacts DEF TypeOK
<1>2. CASE Start(p)
  <2>1. Default(yaml) \in SUBSET yaml.names /\ yaml.names \subseteq Component
    BY DefaultSound, WorkspaceFacts DEF TypeOK
  <2> QED
    BY <1>2, <2>1 DEF Start, Goto, TypeOK, Locations
<1>3. CASE ReadFile(p)
  <2>1. Loaded(w, file) \in SUBSET w.names
    BY <1>1, LoadedSound
  <2> QED
    BY <1>1, <1>3, <2>1 DEF ReadFile, Goto, TypeOK, Locations
<1>4. ASSUME NEW c \in Component, CommandEnable(p, c) \/ SessionEnable(p, c)
      PROVE  TypeOK'
  <2>1. Enabled(w, E, c) \in SUBSET w.names
    BY <1>1, <1>4, EnabledSound DEF CommandEnable, SessionEnable
  <2>2. Pulled(w, E, c) \in SUBSET Component
    BY <1>1 DEF Pulled
  <2> QED
    BY <1>1, <1>4, <2>1, <2>2
       DEF CommandEnable, SessionEnable, Goto, TypeOK, Locations
<1>5. ASSUME NEW c \in Component, CommandDisable(p, c) \/ SessionDisable(p, c)
      PROVE  TypeOK'
  BY <1>1, <1>5 DEF CommandDisable, SessionDisable, Goto, TypeOK, Locations
<1>6. ASSUME NEW c \in Component, CommandDisableForce(p, c)
      PROVE  TypeOK'
  <2> DEFINE gone == Fallen(w, E, c)
  <2>1. gone \in SUBSET Component
    BY <1>1 DEF Fallen
  <2>2. ForceReport(w, gone) \subseteq SUBSET (Component \cup {Panic})
    BY <2>1 DEF ForceReport
  <2> QED
    BY <1>1, <1>6, <2>1, <2>2 DEF CommandDisableForce, Goto, TypeOK, Locations
<1>7. CASE Truncate(p)
  BY <1>7 DEF Truncate, Goto, TypeOK, Locations
<1>8. CASE Write(p)
  <2>1. [known |-> w.names, on |-> E] \in Contents
    BY <1>1 DEF Contents
  <2>2. file' \in Contents \cup {Garbage}
    BY <1>8, <2>1, WrittenOverSound DEF Write
  <2> QED
    BY <1>1, <1>8, <2>2 DEF Write, Goto, TypeOK, Locations
<1>9. CASE SessionSaveTree(p)
  BY <1>9 DEF SessionSaveTree, Goto, TypeOK, Locations
<1>10. CASE Stop(p)
  BY <1>1, <1>10 DEF Stop, TypeOK, Locations
<1> QED
  BY <1>2, <1>3, <1>4, <1>5, <1>6, <1>7, <1>8, <1>9, <1>10 DEF Step

\* Every variable keeps the kind of value the code gives it.
THEOREM TypeCorrect == Spec => []TypeOK
<1>1. TypeOK /\ [Next]_vars => TypeOK'
  <2> SUFFICES ASSUME TypeOK, [Next]_vars PROVE TypeOK'
    OBVIOUS
  <2>1. CASE FixedNext
    BY <2>1, StepTypeOK DEF FixedNext
  <2>2. CASE EditYaml
    BY <2>2 DEF EditYaml, TypeOK
  <2>3. CASE UNCHANGED vars
    BY <2>3 DEF vars, TypeOK
  <2> QED
    BY <2>1, <2>2, <2>3 DEF Next
<1> QED
  BY <1>1, InitTypeOK, PTL DEF Spec

-----------------------------------------------------------------------------
(* What no switch can undo. *)

\* One step of a process, seen from its own manager: it keeps its
\* definitions while it runs, keeps what is mandatory on, and breaks no
\* dependency that was not broken before.
LEMMA OwnStep ==
    ASSUME TypeOK, NEW p \in Procs, Step(p), p \in Running
    PROVE  /\ ws' = ws
           /\ pc'[p] # "idle" =>
                /\ ws[p].mandatory \subseteq on[p] => ws[p].mandatory \subseteq on'[p]
                /\ Broken(ws[p], on'[p]) \subseteq Broken(ws[p], on[p])
<1> DEFINE w == ws[p]
           E == on[p]
<1>1. /\ w \in WorkspaceType /\ WellFormed(w) /\ E \in SUBSET w.names
      /\ on \in [Procs -> SUBSET Component] /\ pc \in [Procs -> Locations]
  BY WorkspaceFacts DEF TypeOK
<1>2. ~Start(p) /\ ~ReadFile(p)
  BY DEF Start, ReadFile, Goto, Running
<1>3. ASSUME NEW c \in Component, CommandEnable(p, c) \/ SessionEnable(p, c)
      PROVE  ws' = ws /\ on'[p] = Enabled(w, E, c) /\ c \in w.names
  BY <1>1, <1>3 DEF CommandEnable, SessionEnable
<1>4. ASSUME NEW c \in Component, CommandDisable(p, c) \/ SessionDisable(p, c)
      PROVE  ws' = ws /\ on'[p] = E \ {c} /\ MayDisable(w, E, c) /\ c \in w.names
  BY <1>1, <1>4 DEF MayDisable, CommandDisable, SessionDisable
<1>5. ASSUME NEW c \in Component, CommandDisableForce(p, c)
      PROVE  ws' = ws /\ on'[p] = E \ Fallen(w, E, c) /\ MayCascade(w, c) /\ c \in w.names
  BY <1>1, <1>5 DEF MayCascade, CommandDisableForce
<1>6. CASE Truncate(p) \/ SessionSaveTree(p)
  BY <1>6 DEF Truncate, SessionSaveTree
<1>7. CASE Write(p) \/ Stop(p)
  BY <1>1, <1>7 DEF Write, Stop, Goto
<1>8. ASSUME NEW c \in Component, CommandEnable(p, c) \/ SessionEnable(p, c)
      PROVE  /\ E \subseteq on'[p]
             /\ Broken(w, on'[p]) \subseteq Broken(w, E)
  BY <1>1, <1>3, <1>8, EnabledSound
<1>9. ASSUME NEW c \in Component, CommandDisable(p, c) \/ SessionDisable(p, c)
      PROVE  /\ w.mandatory \subseteq E => w.mandatory \subseteq on'[p]
             /\ Broken(w, on'[p]) \subseteq Broken(w, E)
  BY <1>1, <1>4, <1>9, DisableSound
<1>10. ASSUME NEW c \in Component, CommandDisableForce(p, c)
       PROVE  /\ w.mandatory \subseteq E => w.mandatory \subseteq on'[p]
              /\ Broken(w, on'[p]) \subseteq Broken(w, E)
  BY <1>1, <1>5, <1>10, CascadeSound
<1> QED
  BY <1>2, <1>3, <1>4, <1>5, <1>6, <1>7, <1>8, <1>9, <1>10 DEF Step

\* A step of one process leaves the manager of every other one alone.
LEMMA OtherStep ==
    ASSUME TypeOK, NEW p \in Procs, Step(p), NEW q \in Procs, q # p
    PROVE  pc'[q] = pc[q] /\ ws'[q] = ws[q] /\ on'[q] = on[q]
  BY DEF TypeOK, Step, Start, ReadFile, CommandEnable, CommandDisable,
         CommandDisableForce, Truncate, Write, SessionEnable, SessionDisable,
         SessionSaveTree, Stop, Goto

\* The only step by which a process comes to run reads the file.
LEMMA FirstStep ==
    ASSUME TypeOK, NEW p \in Procs, Step(p), p \notin Running, p \in Running'
    PROVE  /\ pc[p] = "configured"
           /\ ws' = ws /\ on'[p] = Loaded(ws[p], file)
           /\ file' = file
  BY DEF Step, Running, TypeOK, Locations, Start, ReadFile, CommandEnable,
         CommandDisable, CommandDisableForce, Truncate, Write, SessionEnable,
         SessionDisable, SessionSaveTree, Stop, Goto

LEMMA StepMandatoryOn ==
    ASSUME TypeOK, MandatoryOn, NEW p \in Procs, Step(p)
    PROVE  MandatoryOn'
<1> SUFFICES ASSUME NEW q \in Procs, q \in Running'
             PROVE  ws'[q].mandatory \subseteq on'[q]
  BY DEF MandatoryOn, Running
<1>1. CASE p # q
  BY <1>1, OtherStep DEF MandatoryOn, Running
<1>2. CASE p = q /\ q \in Running
  BY <1>2, OwnStep DEF MandatoryOn, Running
<1>3. CASE p = q /\ q \notin Running
  <2>1. ws'[q] = ws[q] /\ on'[q] = Loaded(ws[q], file) /\ ws[q] \in Workspaces
    BY <1>3, FirstStep DEF TypeOK
  <2> QED
    BY <2>1, LoadedSound, WorkspaceFacts
<1> QED
  BY <1>1, <1>2, <1>3

\* Mandatory components are on in every running process.
THEOREM MandatoryStaysOn == Spec => []MandatoryOn
<1>1. Init => MandatoryOn
  BY DEF Init, MandatoryOn, Running
<1>2. TypeOK /\ MandatoryOn /\ [Next]_vars => MandatoryOn'
  <2>1. ASSUME MandatoryOn, EditYaml \/ UNCHANGED vars
        PROVE  MandatoryOn'
    BY <2>1 DEF EditYaml, vars, MandatoryOn, Running
  <2> QED
    BY <2>1, StepMandatoryOn DEF Next, FixedNext
<1> QED
  BY <1>1, <1>2, TypeCorrect, PTL DEF Spec

\* No step of a running process breaks a dependency of its own or of another
\* process's switches.
THEOREM NoNewBreakage == Spec => NeverBreaksMore
<1>1. TypeOK /\ [Next]_vars => [BreaksNoMore]_vars
  <2> SUFFICES ASSUME TypeOK, Next, NEW q \in Running, pc'[q] # "idle"
               PROVE  Broken(ws[q], on'[q]) \subseteq Broken(ws[q], on[q])
    BY DEF BreaksNoMore
  <2>1. CASE EditYaml
    BY <2>1 DEF EditYaml
  <2>2. ASSUME NEW p \in Procs, Step(p)
        PROVE  Broken(ws[q], on'[q]) \subseteq Broken(ws[q], on[q])
    <3>1. q \in Procs
      BY DEF Running
    <3>2. CASE p = q
      BY <2>2, <3>2, OwnStep
    <3>3. CASE p # q
      BY <2>2, <3>1, <3>3, OtherStep
    <3> QED
      BY <3>2, <3>3
  <2> QED
    BY <2>1, <2>2 DEF Next, FixedNext
<1> QED
  BY <1>1, TypeCorrect, PTL DEF Spec, NeverBreaksMore

-----------------------------------------------------------------------------
(* While zhi.yaml stays the same. *)

\* Besides what DependenciesOn says, the induction needs that every process
\* and the file speak of the one version of zhi.yaml there is, and that the
\* file never records a mandatory component as off: LoadState forces those
\* on without looking at what they need.
FixedInv ==
    /\ TypeOK
    /\ DependenciesOn
    /\ MandatoryOn
    /\ \A p \in Procs : pc[p] # "idle" => ws[p] = yaml
    /\ file \in Contents =>
         /\ file.known = yaml.names
         /\ file.on \subseteq yaml.names
         /\ yaml.mandatory \subseteq file.on

\* What a process loads from such a file, or from none, has every dependency on.
LEMMA LoadedClosed ==
    ASSUME FixedInv
    PROVE  Broken(yaml, Loaded(yaml, file)) = {}
<1>1. yaml \in WorkspaceType /\ WellFormed(yaml)
  BY WorkspaceFacts DEF FixedInv, TypeOK
<1>2. CASE file \in Contents
  <2>1. Loaded(yaml, file) = file.on
    BY <1>2 DEF Loaded, LoadState, FixedInv
  <2> QED
    BY <1>2, <2>1 DEF FixedInv, DependenciesOn
<1>3. CASE file \notin Contents
  BY <1>1, <1>3, DefaultSound DEF Loaded
<1> QED
  BY <1>2, <1>3

LEMMA StepFixedInv ==
    ASSUME FixedInv, NEW p \in Procs, Step(p)
    PROVE  FixedInv'
<1>1. /\ TypeOK /\ TypeOK' /\ MandatoryOn /\ MandatoryOn' /\ yaml' = yaml
  BY StepTypeOK, StepMandatoryOn
     DEF FixedInv, Step, Start, ReadFile, CommandEnable, CommandDisable,
         CommandDisableForce, Truncate, Write, SessionEnable, SessionDisable,
         SessionSaveTree, Stop
<1>2. ASSUME NEW q \in Procs, pc'[q] # "idle"
      PROVE  ws'[q] = yaml
  <2>1. CASE q # p
    BY <1>1, <1>2, <2>1, OtherStep DEF FixedInv
  <2>2. CASE q = p /\ Start(p)
    BY <1>1, <2>2 DEF Start, TypeOK
  <2>3. CASE q = p /\ ~Start(p)
    BY <1>1, <1>2, <2>3
       DEF FixedInv, Step, ReadFile, CommandEnable, CommandDisable,
           CommandDisableForce, Truncate, Write, SessionEnable, SessionDisable,
           SessionSaveTree, Stop, Goto
  <2> QED
    BY <2>1, <2>2, <2>3
<1>3. ASSUME NEW q \in Procs, q \in Running'
      PROVE  Broken(ws'[q], on'[q]) = {}
  <2>1. CASE q # p
    BY <1>1, <1>3, <2>1, OtherStep DEF FixedInv, DependenciesOn, Running
  <2>2. CASE q = p /\ q \in Running
    BY <1>1, <1>3, <2>2, OwnStep DEF FixedInv, DependenciesOn, Running
  <2>3. CASE q = p /\ q \notin Running
    <3>1. ws'[q] = yaml /\ on'[q] = Loaded(yaml, file)
      BY <1>1, <1>3, <2>3, FirstStep DEF FixedInv
    <3> QED
      BY <3>1, LoadedClosed
  <2> QED
    BY <2>1, <2>2, <2>3
<1>4. ASSUME file' \in Contents
      PROVE  /\ Broken(yaml, file'.on) = {}
             /\ file'.known = yaml.names
             /\ file'.on \subseteq yaml.names
             /\ yaml.mandatory \subseteq file'.on
  <2>1. CASE Write(p)
    <3>1. p \in Running /\ ws[p] = yaml
      BY <2>1 DEF Write, Goto, Running, FixedInv
    <3>2. file' = [known |-> yaml.names, on |-> on[p]]
      BY <1>4, <2>1, <3>1, WrittenOverSound, FileAssumption DEF Write
    <3> QED
      BY <1>1, <3>1, <3>2 DEF FixedInv, DependenciesOn, MandatoryOn, TypeOK
  <2>2. CASE Truncate(p)
    BY <1>4, <2>2, FileAssumption DEF Truncate
  <2>3. CASE ~Write(p) /\ ~Truncate(p)
    <3>1. file' = file
      BY <2>3 DEF Step, Start, ReadFile, CommandEnable, CommandDisable,
                  CommandDisableForce, SessionEnable, SessionDisable,
                  SessionSaveTree, Stop
    <3> QED
      BY <1>4, <3>1 DEF FixedInv, DependenciesOn
  <2> QED
    BY <2>1, <2>2, <2>3
<1> QED
  BY <1>1, <1>2, <1>3, <1>4 DEF FixedInv, DependenciesOn, Running

\* As long as zhi.yaml is not edited, commands and sessions in any
\* interleaving, crashes and overlapping saves included, leave no enabled
\* component with a dependency that is off.
THEOREM DependenciesStayOn == FixedSpec => []DependenciesOn
<1>1. Init => FixedInv
  BY InitTypeOK, FileAssumption
     DEF Init, FixedInv, DependenciesOn, MandatoryOn, Running
<1>2. FixedInv /\ [FixedNext]_vars => FixedInv'
  <2>1. ASSUME FixedInv, UNCHANGED vars
        PROVE  FixedInv'
    BY <2>1 DEF vars, FixedInv, TypeOK, DependenciesOn, MandatoryOn, Running
  <2> QED
    BY <2>1, StepFixedInv DEF FixedNext
<1>3. FixedInv => DependenciesOn
  BY DEF FixedInv
<1> QED
  BY <1>1, <1>2, <1>3, PTL DEF FixedSpec

-----------------------------------------------------------------------------
(* The switches as a ledger. *)

\* No dependency of a member of E is off.
Closed(w, E) == \A x \in E : w.deps[x] \subseteq E

LEMMA ClosedUnbroken ==
    ASSUME NEW w \in WorkspaceType, WellFormed(w), NEW E \in SUBSET w.names
    PROVE  Broken(w, E) = {} <=> Closed(w, E)
<1>1. ASSUME Broken(w, E) = {}, NEW x \in E, NEW d \in w.deps[x], d \notin E
      PROVE  FALSE
  <2>1. d \in w.names /\ d \in w.deps[x] \ E
    BY <1>1 DEF WellFormed
  <2>2. <<x, d>> \in Broken(w, E)
    BY <1>1, <2>1 DEF Broken
  <2> QED
    BY <1>1, <2>2
<1>2. ASSUME Closed(w, E), NEW e \in Broken(w, E)
      PROVE  FALSE
  BY <1>2 DEF Broken, Closed
<1> QED
  BY <1>1, <1>2 DEF Closed

\* The ledger's closure of S holds S, stays within the names, is closed
\* itself and lies in every closed set that holds S: once for needing ...
LEMMA NeedsClosure ==
    ASSUME NEW w \in WorkspaceType, WellFormed(w), w = TheWorkspace,
           NEW c \in w.names
    PROVE  LET N == Ledger!Closure({c}, Ledger!Needs) IN
           /\ N \in SUBSET w.names /\ c \in N /\ Closed(w, N)
           /\ \A T \in SUBSET w.names : c \in T /\ Closed(w, T) => N \subseteq T
  BY DEF Ledger!Closure, Ledger!Needs, Ledger!Names, Closed, WellFormed

\* ... and once for being needed.
LEMMA NeededByClosure ==
    ASSUME NEW w \in WorkspaceType, WellFormed(w), w = TheWorkspace,
           NEW c \in w.names
    PROVE  LET N == Ledger!Closure({c}, Ledger!NeededBy) IN
           /\ N \in SUBSET w.names /\ c \in N
           /\ \A x \in N : Dependents(w, x) \subseteq N
           /\ \A T \in SUBSET w.names :
                 c \in T /\ (\A x \in T : Dependents(w, x) \subseteq T) => N \subseteq T
  BY DEF Ledger!Closure, Ledger!NeededBy, Ledger!Needs, Ledger!Names, Dependents

\* A new manager's switches are the ledger's first ones.
LEMMA DefaultIsMandatory ==
    ASSUME NEW w \in WorkspaceType, w = TheWorkspace
    PROVE  Default(w) = Ledger!Mandatory
  BY DEF Default, Ledger!Mandatory, Ledger!Closure, Ledger!Needs, Ledger!Names

\* Enabling walks only what is off, and still brings all that is needed.
LEMMA EnabledIsTurnOn ==
    ASSUME NEW w \in WorkspaceType, WellFormed(w), w = TheWorkspace,
           NEW E \in SUBSET w.names, Closed(w, E), NEW c \in w.names
    PROVE  Enabled(w, E, c) = E \cup Ledger!Closure({c}, Ledger!Needs)
<1> DEFINE N == Ledger!Closure({c}, Ledger!Needs)
<1>0. /\ N \in SUBSET w.names /\ c \in N /\ Closed(w, N)
      /\ \A T \in SUBSET w.names : c \in T /\ Closed(w, T) => N \subseteq T
  BY NeedsClosure
<1> SUFFICES Enabled(w, E, c) = E \cup N
  OBVIOUS
<1> HIDE DEF N
<1>1. CASE c \in E
  BY <1>0, <1>1 DEF Enabled, Pulled
<1>2. CASE c \notin E
  <2>1. Pulled(w, E, c) \subseteq N
    <3>1. \A x \in N : w.deps[x] \ E \subseteq N
      BY <1>0 DEF Closed
    <3> QED
      BY <1>0, <1>2, <3>1 DEF Pulled
  <2>2. Closed(w, Enabled(w, E, c)) /\ c \in Enabled(w, E, c)
    <3>1. \A x \in Pulled(w, E, c) : w.deps[x] \ E \subseteq Pulled(w, E, c)
      BY <1>2 DEF Pulled, WellFormed
    <3>2. c \in Pulled(w, E, c)
      BY <1>2 DEF Pulled
    <3> QED
      BY <3>1, <3>2 DEF Enabled, Closed
  <2>3. Enabled(w, E, c) \in SUBSET w.names
    BY EnabledSound DEF WorkspaceType
  <2>4. N \subseteq Enabled(w, E, c)
    BY <1>0, <2>2, <2>3
  <2> QED
    BY <2>1, <2>4 DEF Enabled
<1> QED
  BY <1>1, <1>2

\* A cascade walks only what is on, and still reaches all that depends on c.
LEMMA FallenIsTurnOffAll ==
    ASSUME NEW w \in WorkspaceType, WellFormed(w), w = TheWorkspace,
           NEW E \in SUBSET w.names, Closed(w, E), NEW c \in E, MayCascade(w, c)
    PROVE  LET N == Ledger!Closure({c}, Ledger!NeededBy) IN
           /\ N \subseteq Ledger!Optional
           /\ E \ Fallen(w, E, c) = E \ N
<1> DEFINE N == Ledger!Closure({c}, Ledger!NeededBy)
           F == Fallen(w, E, c)
           D == {c} \cup TransitiveDependents(w, c)
<1>0. /\ N \in SUBSET w.names /\ c \in N
      /\ \A x \in N : Dependents(w, x) \subseteq N
      /\ \A T \in SUBSET w.names :
            c \in T /\ (\A x \in T : Dependents(w, x) \subseteq T) => N \subseteq T
  BY NeededByClosure
<1> HIDE DEF N
<1>1. D \in SUBSET w.names /\ c \in D /\ \A x \in D : Dependents(w, x) \subseteq D
  <2>1. ASSUME NEW x \in D, NEW y \in Dependents(w, x)
        PROVE  y \in TransitiveDependents(w, c)
    BY <2>1 DEF TransitiveDependents, Dependents
  <2> QED
    BY <2>1 DEF TransitiveDependents
<1>2. N \subseteq D
  BY <1>0, <1>1
<1>3. D \cap w.mandatory = {} /\ N \subseteq Ledger!Optional
  BY <1>0, <1>2 DEF MayCascade, Ledger!Optional, Ledger!Names
<1>4. F \subseteq N
  <2>1. N \cap E \in SUBSET E /\ c \in N \cap E
    BY <1>0
  <2>2. \A x \in N \cap E : (Dependents(w, x) \cap E) \ w.mandatory \subseteq N \cap E
    BY <1>0
  <2> QED
    BY <2>1, <2>2 DEF Fallen
<1>5. N \cap E \subseteq F
  <2> DEFINE T == F \cup (w.names \ E)
  <2>1. F \in SUBSET E /\ c \in F
    BY DEF Fallen
  <2>2. ASSUME NEW x \in T, NEW y \in Dependents(w, x), y \in E
        PROVE  y \in F
    <3>1. x \in E
      BY <2>2 DEF Dependents, Closed
    <3>2. x \in F
      BY <2>2, <3>1
    <3>3. y \in D
      BY <1>1, <1>2, <1>4, <2>2, <3>2
    <3>4. y \in (Dependents(w, x) \cap E) \ w.mandatory
      BY <1>3, <2>2, <3>3
    <3> QED
      BY <3>2, <3>4 DEF Fallen
  <2>3. T \in SUBSET w.names /\ c \in T /\ \A x \in T : Dependents(w, x) \subseteq T
    BY <2>1, <2>2 DEF Dependents
  <2> QED
    BY <1>0, <2>3
<1> QED
  BY <1>3, <1>4, <1>5 DEF N

\* What a command makes of the switches E it loaded.
Move(E, F) ==
    \/ F = E
    \/ \E c \in Ledger!Names : F = E \cup Ledger!Closure({c}, Ledger!Needs)
    \/ \E c \in Ledger!Optional :
          /\ Ledger!NeededBy(c) \cap E = {}
          /\ F = E \ {c}
    \/ \E c \in Ledger!Optional :
          /\ Ledger!Closure({c}, Ledger!NeededBy) \subseteq Ledger!Optional
          /\ F = E \ Ledger!Closure({c}, Ledger!NeededBy)

\* While commands do not overlap, the one there is loaded what the file
\* still holds, has made one move from it, or has emptied it.
SerialInv ==
    /\ FixedInv
    /\ Serial
    /\ yaml = TheWorkspace
    /\ \A p \in Procs :
          /\ pc[p] = "command" => on[p] = Loaded(yaml, file)
          /\ pc[p] = "changed" => Move(Loaded(yaml, file), on[p])
          /\ pc[p] = "truncated" => file = Empty

\* Each command of the manager is a move of the ledger.
LEMMA CommandMoves ==
    ASSUME SerialInv, NEW p \in Procs, NEW c \in Component,
           CommandEnable(p, c) \/ CommandDisable(p, c) \/ CommandDisableForce(p, c)
    PROVE  Move(Loaded(yaml, file), on'[p])
<1> DEFINE w == yaml
           E == on[p]
<1>1. /\ w \in WorkspaceType /\ WellFormed(w) /\ w = TheWorkspace
      /\ ws[p] = w /\ E \in SUBSET w.names /\ on \in [Procs -> SUBSET Component]
      /\ pc[p] = "command" /\ E = Loaded(yaml, file) /\ p \in Running
  BY WorkspaceFacts
     DEF SerialInv, FixedInv, TypeOK, CommandEnable, CommandDisable,
         CommandDisableForce, Goto, Running
<1>2. Closed(w, E)
  BY <1>1, ClosedUnbroken DEF SerialInv, FixedInv, DependenciesOn
<1>3. CASE CommandEnable(p, c)
  <2>1. c \in w.names /\ on'[p] = Enabled(w, E, c)
    BY <1>1, <1>3 DEF CommandEnable
  <2>2. on'[p] = E \cup Ledger!Closure({c}, Ledger!Needs)
    BY <1>1, <1>2, <2>1, EnabledIsTurnOn
  <2> QED
    BY <1>1, <2>1, <2>2 DEF Move, Ledger!Names
<1>4. CASE CommandDisable(p, c)
  <2>1. on'[p] = E \ {c} /\ MayDisable(w, E, c)
    BY <1>1, <1>4 DEF CommandDisable
  <2>2. c \in Ledger!Optional /\ Ledger!NeededBy(c) \cap E = {}
    BY <1>1, <2>1 DEF MayDisable, Dependents, Ledger!Optional, Ledger!NeededBy,
                      Ledger!Names, Ledger!Needs
  <2> QED
    BY <1>1, <2>1, <2>2 DEF Move
<1>5. CASE CommandDisableForce(p, c)
  <2>1. on'[p] = E \ Fallen(w, E, c) /\ MayCascade(w, c)
    BY <1>1, <1>5 DEF CommandDisableForce
  <2>2. CASE c \notin E
    BY <1>1, <2>1, <2>2 DEF Fallen, Move
  <2>3. CASE c \in E
    <3>1. c \in Ledger!Optional
      BY <1>1, <2>1 DEF MayCascade, Ledger!Optional, Ledger!Names
    <3>2. /\ Ledger!Closure({c}, Ledger!NeededBy) \subseteq Ledger!Optional
          /\ on'[p] = E \ Ledger!Closure({c}, Ledger!NeededBy)
      BY <1>1, <1>2, <2>1, <2>3, FallenIsTurnOffAll
    <3> QED
      BY <1>1, <3>1, <3>2 DEF Move
  <2> QED
    BY <2>2, <2>3
<1> QED
  BY <1>3, <1>4, <1>5

\* Which steps touch the file, and from where to where the others lead.
LEMMA QuietStep ==
    ASSUME TypeOK, NEW p \in Procs, Step(p), ~Truncate(p), ~Write(p)
    PROVE  /\ file' = file /\ yaml' = yaml
           /\ pc'[p] # "truncated"
           /\ pc'[p] = "command" => on'[p] = Loaded(ws[p], file) /\ pc[p] = "configured"
           /\ pc'[p] = "changed" =>
                \E c \in Component :
                   CommandEnable(p, c) \/ CommandDisable(p, c) \/ CommandDisableForce(p, c)
           /\ pc[p] = "truncated" => pc'[p] = "idle"
  BY DEF TypeOK, Locations, Step, Start, ReadFile, CommandEnable, CommandDisable,
         CommandDisableForce, SessionEnable, SessionDisable, SessionSaveTree,
         Stop, Goto

\* No other process is in a command while p is.
LEMMA Alone ==
    ASSUME Serial, NEW p \in Procs, NEW q \in Procs, p # q,
           pc[p] \in {"command", "changed", "truncated"}
    PROVE  pc[q] \notin {"command", "changed", "truncated"}
  BY DEF Serial

LEMMA StepSerialInv ==
    ASSUME SerialInv, NEW p \in Procs, Step(p), Serial'
    PROVE  SerialInv'
<1>1. FixedInv /\ FixedInv' /\ TypeOK /\ TypeOK' /\ yaml = TheWorkspace
  BY StepFixedInv DEF SerialInv, FixedInv
<1>2. yaml' = yaml
  BY DEF Step, Start, ReadFile, CommandEnable, CommandDisable,
         CommandDisableForce, Truncate, Write, SessionEnable, SessionDisable,
         SessionSaveTree, Stop
<1>3. CASE Truncate(p)
  <2>1. file' = Empty /\ pc'[p] = "truncated" /\ pc[p] = "changed"
    BY <1>1, <1>3 DEF Truncate, Goto, TypeOK
  <2>2. \A q \in Procs \ {p} : pc'[q] \notin {"command", "changed", "truncated"}
    BY <1>1, <2>1, Alone, OtherStep DEF SerialInv
  <2> QED
    BY <1>1, <1>2, <2>1, <2>2 DEF SerialInv
<1>4. CASE Write(p)
  <2>1. pc'[p] = "idle" /\ pc[p] = "truncated"
    BY <1>1, <1>4 DEF Write, Goto, TypeOK
  <2>2. \A q \in Procs \ {p} : pc'[q] \notin {"command", "changed", "truncated"}
    BY <1>1, <2>1, Alone, OtherStep DEF SerialInv
  <2> QED
    BY <1>1, <1>2, <2>1, <2>2 DEF SerialInv
<1>5. CASE ~Truncate(p) /\ ~Write(p)
  <2>1. /\ file' = file
        /\ pc'[p] # "truncated"
        /\ pc'[p] = "command" => on'[p] = Loaded(ws[p], file) /\ pc[p] = "configured"
        /\ pc'[p] = "changed" =>
             \E c \in Component :
                CommandEnable(p, c) \/ CommandDisable(p, c) \/ CommandDisableForce(p, c)
    BY <1>1, <1>5, QuietStep
  <2>2. pc'[p] = "command" => on'[p] = Loaded(yaml', file')
    BY <1>1, <1>2, <2>1 DEF FixedInv
  <2>3. pc'[p] = "changed" => Move(Loaded(yaml', file'), on'[p])
    BY <1>2, <2>1, CommandMoves
  <2>4. ASSUME NEW q \in Procs \ {p}
        PROVE  /\ pc'[q] = "command" => on'[q] = Loaded(yaml', file')
               /\ pc'[q] = "changed" => Move(Loaded(yaml', file'), on'[q])
               /\ pc'[q] = "truncated" => file' = Empty
    BY <1>1, <1>2, <2>1, OtherStep DEF SerialInv
  <2> QED
    BY <1>1, <1>2, <2>1, <2>2, <2>3, <2>4 DEF SerialInv
<1> QED
  BY <1>3, <1>4, <1>5

\* What the ledger says is in the file or in the hands of the one command
\* that has emptied it.
LEMMA RecordedIs ==
    ASSUME Serial
    PROVE  /\ \A p \in Procs : pc[p] = "truncated" => Recorded = on[p]
           /\ (\A p \in Procs : pc[p] # "truncated") => Recorded = Loaded(TheWorkspace, file)
<1>1. ASSUME NEW p \in Procs, pc[p] = "truncated"
      PROVE  (CHOOSE q \in Procs : pc[q] = "truncated") = p
  BY <1>1 DEF Serial
<1> QED
  BY <1>1 DEF Recorded

LEMMA RecordedMoves ==
    ASSUME SerialInv, NEW p \in Procs, Step(p), SerialInv'
    PROVE  Move(Recorded, Recorded') \/ Recorded' = Ledger!Mandatory
<1>1. /\ TypeOK /\ TypeOK' /\ Serial /\ Serial' /\ FixedInv
      /\ yaml = TheWorkspace /\ ws[p] \in WorkspaceType
  BY WorkspaceFacts DEF SerialInv, FixedInv, TypeOK
<1>2. /\ \A q \in Procs : pc'[q] = "truncated" => Recorded' = on'[q]
      /\ (\A q \in Procs : pc'[q] # "truncated") => Recorded' = Loaded(TheWorkspace, file')
  <2>1. ASSUME NEW q \in Procs, pc'[q] = "truncated"
        PROVE  (CHOOSE r \in Procs : pc'[r] = "truncated") = q
    BY <1>1, <2>1 DEF Serial
  <2> QED
    BY <2>1 DEF Recorded
<1>3. CASE Truncate(p)
  <2>1. pc[p] = "changed" /\ pc'[p] = "truncated" /\ on' = on
    BY <1>1, <1>3 DEF Truncate, Goto, TypeOK
  <2>2. Recorded = Loaded(TheWorkspace, file)
    BY <1>1, <2>1, Alone, RecordedIs
  <2>3. Recorded' = on[p]
    BY <1>2, <2>1
  <2> QED
    BY <1>1, <2>1, <2>2, <2>3 DEF SerialInv
<1>4. CASE Write(p)
  <2>1. pc[p] = "truncated" /\ pc'[p] = "idle" /\ ws[p] = yaml /\ file = Empty /\ p \in Running
    BY <1>1, <1>4 DEF Write, Goto, TypeOK, SerialInv, FixedInv, Running
  <2>2. file' = [known |-> yaml.names, on |-> on[p]]
    BY <1>4, <2>1 DEF Write, WrittenOver
  <2>3. on[p] \subseteq yaml.names /\ yaml.mandatory \subseteq on[p] /\ file' \in Contents
    BY <1>1, <2>1, <2>2, WorkspaceFacts DEF FixedInv, MandatoryOn, TypeOK, Contents
  <2>4. \A q \in Procs : pc'[q] # "truncated"
    BY <1>1, <2>1, Alone, OtherStep
  <2>5. Recorded' = on[p] /\ Recorded = on[p]
    BY <1>1, <1>2, <2>1, <2>2, <2>3, <2>4, RecordedIs DEF Loaded, LoadState
  <2> QED
    BY <2>5 DEF Move
<1>5. CASE ~Truncate(p) /\ ~Write(p)
  <2>1. file' = file /\ pc'[p] # "truncated"
    BY <1>1, <1>5, QuietStep
  <2>2. CASE pc[p] = "truncated"
    <3>1. file = Empty /\ \A q \in Procs : pc'[q] # "truncated"
      BY <1>1, <2>1, <2>2, Alone, OtherStep DEF SerialInv
    <3>2. Recorded' = Default(TheWorkspace)
      BY <1>2, <2>1, <3>1, FileAssumption DEF Loaded
    <3> QED
      BY <1>1, <3>2, DefaultIsMandatory, WorkspaceFacts DEF TypeOK
  <2>3. CASE pc[p] # "truncated"
    <3>1. CASE \E q \in Procs : pc[q] = "truncated"
      <4>1. PICK q \in Procs : pc[q] = "truncated"
        BY <3>1
      <4>2. pc'[q] = "truncated" /\ on'[q] = on[q]
        BY <1>1, <2>3, <4>1, OtherStep
      <4> QED
        BY <1>1, <1>2, <4>1, <4>2, RecordedIs DEF Move
    <3>2. CASE \A q \in Procs : pc[q] # "truncated"
      <4>1. \A q \in Procs : pc'[q] # "truncated"
        BY <1>1, <2>1, <3>2, OtherStep
      <4> QED
        BY <1>1, <1>2, <2>1, <3>2, <4>1, RecordedIs DEF Move
    <3> QED
      BY <3>1, <3>2
  <2> QED
    BY <2>2, <2>3
<1> QED
  BY <1>3, <1>4, <1>5

\* Commands that do not overlap, with any number of sessions beside them and
\* crashes anywhere, are steps of the abstract ledger: each takes effect as a
\* whole, on top of what every earlier one left, or dies and loses it all.
THEOREM CommandsKeepTheLedger ==
    ASSUME Workspaces = {TheWorkspace}
    PROVE  SerialSpec => ImplementsLedger
<1>1. Init => SerialInv /\ Ledger!Init
  <2> SUFFICES ASSUME Init PROVE SerialInv /\ Ledger!Init
    OBVIOUS
  <2>1. FixedInv /\ yaml = TheWorkspace /\ Serial /\ \A p \in Procs : pc[p] = "idle"
    BY InitTypeOK, FileAssumption
       DEF Init, FixedInv, DependenciesOn, MandatoryOn, Running, Serial
  <2>2. Recorded = Default(TheWorkspace)
    BY <2>1, RecordedIs, FileAssumption DEF Loaded, Init
  <2>3. TheWorkspace \in WorkspaceType
    BY <2>1, WorkspaceFacts
  <2> QED
    BY <2>1, <2>2, <2>3, DefaultIsMandatory DEF SerialInv, Ledger!Init
<1>2. SerialInv /\ [FixedNext /\ Serial']_vars => SerialInv' /\ [Ledger!Next]_Recorded
  <2> SUFFICES ASSUME SerialInv, [FixedNext /\ Serial']_vars
               PROVE  SerialInv' /\ [Ledger!Next]_Recorded
    OBVIOUS
  <2>1. CASE FixedNext /\ Serial'
    <3>1. PICK p \in Procs : Step(p)
      BY <2>1 DEF FixedNext
    <3>2. SerialInv'
      BY <2>1, <3>1, StepSerialInv
    <3>3. Move(Recorded, Recorded') \/ Recorded' = Ledger!Mandatory
      BY <3>1, <3>2, RecordedMoves
    <3> QED
      BY <3>2, <3>3 DEF Move, Ledger!Next, Ledger!TurnOn, Ledger!TurnOff,
                        Ledger!TurnOffAll, Ledger!Forget
  <2>2. CASE UNCHANGED vars
    <3>1. FixedInv'
      BY <2>2 DEF vars, SerialInv, FixedInv, TypeOK, DependenciesOn, MandatoryOn, Running
    <3>2. SerialInv' /\ Recorded' = Recorded
      BY <2>2, <3>1 DEF vars, SerialInv, Serial, Recorded
    <3> QED
      BY <3>2
  <2> QED
    BY <2>1, <2>2
<1> QED
  BY <1>1, <1>2, PTL DEF SerialSpec, ImplementsLedger, Ledger!Spec

-----------------------------------------------------------------------------
(* The plugins that a command launches, for any plugin directories, files  *)
(* in them, references and frontends.                                      *)

External(r) == r.name \notin Builtin[r.type]

\* What has been found so far is the first of its type and name among the
\* directories looked through.
Looked(f) == \E i \in 1..looked : Directory[i] = f.dir

FilesTrue ==
    /\ looked \in 0..Len(Directory)
    /\ external = [k \in DOMAIN external |-> external[k]]
    /\ \A f \in files : Looked(f) => Launch!Key(f) \in DOMAIN external
    /\ \A k \in DOMAIN external :
         /\ external[k] \in files /\ Launch!Key(external[k]) = k /\ Looked(external[k])
         /\ \A f \in files : Launch!Key(f) = k => ~Launch!Before(f, external[k])

\* Where a command is: before discovery has ended nothing is launched.
StagesTrue ==
    /\ files \in Listings /\ workspace \in References
    /\ stage \in {"start", "looking", "resolving", "opening", "running", "returned", "exiting", "gone"}
    /\ stage \in {"start", "looking"} => cached = Launch!NoFiles /\ using = {} /\ lock = "free"
    /\ stage \in {"start", "looking", "resolving"} => closer = "none"
    /\ stage \in {"resolving", "opening"} => todo \in Seq(Launch!Ref)

CacheTrue ==
    /\ cached = [k \in DOMAIN cached |-> cached[k]]
    /\ \A k \in DOMAIN cached :
         /\ k \in DOMAIN external
         /\ cached[k] \in Launch!Process /\ cached[k].file = external[k]
    /\ cleanups = {cached[k] : k \in DOMAIN cached}

\* A launch is of what is wanted and not there.
LaunchTrue ==
    /\ lock \in {"free", "launch", "close"} /\ closer \in {"none", "waits", "closing", "done"}
    /\ lock = "close" <=> closer = "closing"
    /\ lock = "launch" =>
         /\ Launch!Resolving /\ External(Launch!Wanted)
         /\ Launch!Key(Launch!Wanted) \in DOMAIN external \ DOMAIN cached
    /\ starting # Absent =>
         /\ lock = "launch" /\ starting \in alive
         /\ starting = [file |-> external[Launch!Key(Launch!Wanted)], options |-> Launch!Wanted.options]
    /\ alive \subseteq cleanups \cup ({starting} \ {Absent})
    /\ closer \in {"none", "waits"} => cleanups \subseteq alive

UsedTrue ==
    \A u \in using :
        IF u.ref.name \in Builtin[u.ref.type] THEN u.plugin = Empty
        ELSE /\ u.plugin \in Launch!Process /\ Launch!Key(u.ref) \in DOMAIN external
             /\ u.plugin.file = external[Launch!Key(u.ref)]
             /\ closer \in {"none", "waits"} =>
                  /\ Launch!Key(u.ref) \in DOMAIN cached
                  /\ cached[Launch!Key(u.ref)] = u.plugin

LaunchInv == FilesTrue /\ StagesTrue /\ CacheTrue /\ LaunchTrue /\ UsedTrue

-----------------------------------------------------------------------------
\* What the parts of the invariant depend on.
LEMMA FilesStay ==
    ASSUME FilesTrue, UNCHANGED <<files, looked, external>>
    PROVE  FilesTrue'
BY DEF FilesTrue, Looked, Launch!Key, Launch!Before

LEMMA CacheStays ==
    ASSUME CacheTrue, UNCHANGED <<workspace, external, cached, cleanups>>
    PROVE  CacheTrue'
BY DEF CacheTrue, Launch!Key, Launch!Process, Launch!File, Launch!Layout, Launch!Type

LEMMA UsedStays ==
    ASSUME UsedTrue, UNCHANGED <<workspace, external, cached, using>>,
           closer' \in {"none", "waits"} => closer \in {"none", "waits"}
    PROVE  UsedTrue'
BY DEF UsedTrue, Launch!Key, Launch!Process, Launch!File, Launch!Layout, Launch!Type

\* What is wanted is a reference.
LEMMA WantedIs ==
    ASSUME StagesTrue, Launch!Resolving
    PROVE  Launch!Wanted \in Launch!Ref /\ Tail(todo) \in Seq(Launch!Ref)
BY DEF StagesTrue, Launch!Resolving, Launch!Wanted

-----------------------------------------------------------------------------
(* Discovery. *)

\* The plugins of one layout of a directory.
LEMMA InIs ==
    ASSUME NEW dir, NEW layout
    PROVE  /\ \A f \in files : f.dir = dir /\ f.layout = layout => Launch!Key(f) \in DOMAIN Launch!In(dir, layout)
           /\ \A k \in DOMAIN Launch!In(dir, layout) :
                /\ Launch!In(dir, layout)[k] \in files
                /\ Launch!In(dir, layout)[k].dir = dir /\ Launch!In(dir, layout)[k].layout = layout
                /\ Launch!Key(Launch!In(dir, layout)[k]) = k
<1> DEFINE here == {f \in files : f.dir = dir /\ f.layout = layout}
           G(k) == CHOOSE f \in here : Launch!Key(f) = k
<1>1. Launch!In(dir, layout) = [k \in {Launch!Key(f) : f \in here} |-> G(k)]
  BY DEF Launch!In
<1>2. ASSUME NEW k \in {Launch!Key(f) : f \in here}
      PROVE  G(k) \in here /\ Launch!Key(G(k)) = k
  <2>1. \E f \in here : Launch!Key(f) = k
    BY <1>2
  <2> QED
    BY <2>1
<1>3. ASSUME NEW k \in DOMAIN Launch!In(dir, layout)
      PROVE  /\ Launch!In(dir, layout)[k] \in here
             /\ Launch!Key(Launch!In(dir, layout)[k]) = k
  <2>1. k \in {Launch!Key(f) : f \in here}
    BY <1>1
  <2>2. Launch!In(dir, layout)[k] = G(k)
    BY <1>1, <2>1
  <2> QED
    BY <1>2, <2>1, <2>2
<1>4. ASSUME NEW f \in here PROVE Launch!Key(f) \in DOMAIN Launch!In(dir, layout)
  BY <1>1
<1> QED
  BY <1>3, <1>4

\* A directory is looked through: the flat names, then the others.
LEMMA LookFinds ==
    ASSUME LaunchInv, Launch!Look
    PROVE  LaunchInv'
<1> DEFINE dir == Directory[looked + 1]
           flat == Launch!In(dir, "flat")
           sub == Launch!In(dir, "sub")
           some == Launch!Add(external, flat)
<1>1. external' = Launch!Add(some, sub) /\ looked' = looked + 1 /\ looked \in 0..Len(Directory)
      /\ looked < Len(Directory) /\ files' = files
  BY DEF Launch!Look, LaunchInv, FilesTrue
<1>2. files \subseteq Launch!File
  BY LaunchAssumption DEF LaunchInv, StagesTrue
<1>3. /\ DOMAIN external' = DOMAIN external \cup DOMAIN flat \cup DOMAIN sub
      /\ external' = [k \in DOMAIN external' |-> external'[k]]
      /\ \A k \in DOMAIN external : external'[k] = external[k]
      /\ \A k \in DOMAIN flat \ DOMAIN external : external'[k] = flat[k]
      /\ \A k \in DOMAIN sub \ (DOMAIN external \cup DOMAIN flat) : external'[k] = sub[k]
  <2>1. DOMAIN some = DOMAIN external \cup DOMAIN flat
        /\ (\A k \in DOMAIN external : some[k] = external[k])
        /\ \A k \in DOMAIN flat \ DOMAIN external : some[k] = flat[k]
    BY DEF Launch!Add
  <2>2. /\ DOMAIN external' = DOMAIN some \cup DOMAIN sub
        /\ external' = [k \in DOMAIN external' |-> external'[k]]
        /\ \A k \in DOMAIN some : external'[k] = some[k]
        /\ \A k \in DOMAIN sub \ DOMAIN some : external'[k] = sub[k]
    <3> HIDE DEF some, sub
    <3> QED
      BY <1>1 DEF Launch!Add
  <2> HIDE DEF flat, sub, some
  <2> QED
    BY <2>1, <2>2
<1>4. /\ \A f \in files : f.dir = dir /\ f.layout = "flat" => Launch!Key(f) \in DOMAIN flat
      /\ \A k \in DOMAIN flat : flat[k] \in files /\ flat[k].dir = dir /\ flat[k].layout = "flat" /\ Launch!Key(flat[k]) = k
  BY InIs
<1>5. /\ \A f \in files : f.dir = dir /\ f.layout = "sub" => Launch!Key(f) \in DOMAIN sub
      /\ \A k \in DOMAIN sub : sub[k] \in files /\ sub[k].dir = dir /\ sub[k].layout = "sub" /\ Launch!Key(sub[k]) = k
  BY InIs
<1> HIDE DEF flat, sub, some
<1> DEFINE Seen(f) == Looked(f) \/ f.dir = dir
<1>6. \A f : (\E i \in 1..looked' : Directory[i] = f.dir) <=> Seen(f)
  <2>1. \A i : i \in 1..looked + 1 <=> i \in 1..looked \/ i = looked + 1
    BY <1>1
  <2> QED
    BY <1>1, <2>1 DEF Looked
<1>7. \A f \in files : Looked(f) => Launch!Key(f) \in DOMAIN external
  BY DEF LaunchInv, FilesTrue
<1>8. \A f \in files : f.layout \in {"flat", "sub"}
  BY <1>2 DEF Launch!File, Launch!Layout
<1>9. \A f \in files : Seen(f) => Launch!Key(f) \in DOMAIN external'
  BY <1>3, <1>4, <1>5, <1>6, <1>7, <1>8
<1> DEFINE First(g) == \A f \in files : Launch!Key(f) = Launch!Key(g) => ~Launch!Before(f, g)
<1>10. ASSUME NEW g \in files, g.dir = dir, Launch!Key(g) \notin DOMAIN external,
              g.layout = "sub" => Launch!Key(g) \notin DOMAIN flat
       PROVE  First(g)
  <2>1. SUFFICES ASSUME NEW f \in files, Launch!Key(f) = Launch!Key(g), Launch!Before(f, g)
                 PROVE  FALSE
    OBVIOUS
  <2>2. ~Looked(f)
    BY <1>7, <1>10, <2>1
  <2>3. ASSUME NEW i \in 1..Len(Directory), Directory[i] = f.dir, \A j \in 1..i : Directory[j] # g.dir
        PROVE  FALSE
    <3>1. ~(i \in 1..looked)
      BY <2>2, <2>3 DEF Looked
    <3>2. looked + 1 \in 1..i
      BY <1>1, <3>1
    <3> QED
      BY <1>10, <2>3, <3>2
  <2>4. ASSUME f.dir = g.dir, f.layout = "flat", g.layout = "sub" PROVE FALSE
    BY <1>4, <1>10, <2>1, <2>4
  <2> QED
    BY <2>1, <2>3, <2>4 DEF Launch!Before
<1>11. \A k \in DOMAIN external :
         external[k] \in files /\ Launch!Key(external[k]) = k /\ Looked(external[k]) /\ First(external[k])
  BY DEF LaunchInv, FilesTrue
<1>12. ASSUME NEW k \in DOMAIN external'
       PROVE  external'[k] \in files /\ Launch!Key(external'[k]) = k /\ Seen(external'[k]) /\ First(external'[k])
  <2>1. CASE k \in DOMAIN external
    <3>1. external'[k] = external[k]
      BY <1>3, <2>1
    <3> QED
      BY <1>6, <1>11, <2>1, <3>1
  <2>2. CASE k \in DOMAIN flat \ DOMAIN external
    <3> DEFINE g == flat[k]
    <3>1. g \in files /\ g.dir = dir /\ g.layout = "flat" /\ Launch!Key(g) = k /\ external'[k] = g
      BY <1>3, <1>4, <2>2
    <3> HIDE DEF g, First, dir
    <3>2. First(g)
      BY <1>10, <2>2, <3>1
    <3> QED
      BY <1>6, <3>1, <3>2
  <2>3. CASE k \in DOMAIN sub \ (DOMAIN external \cup DOMAIN flat)
    <3> DEFINE g == sub[k]
    <3>1. g \in files /\ g.dir = dir /\ g.layout = "sub" /\ Launch!Key(g) = k /\ external'[k] = g
      BY <1>3, <1>5, <2>3
    <3> HIDE DEF g, First, dir
    <3>2. First(g)
      BY <1>10, <2>3, <3>1
    <3> QED
      BY <1>6, <3>1, <3>2
  <2> QED
    BY <1>3, <2>1, <2>2, <2>3
<1>13. FilesTrue'
  <2>1. looked' \in 0..Len(Directory)
    BY <1>1
  <2>2. \A f \in files' : Looked(f)' => Launch!Key(f) \in DOMAIN external'
    BY <1>1, <1>6, <1>9 DEF Looked
  <2>3. \A k \in DOMAIN external' :
          /\ external'[k] \in files' /\ Launch!Key(external'[k]) = k /\ Looked(external[k])'
          /\ \A f \in files' : Launch!Key(f) = k => ~Launch!Before(f, external'[k])
    <3> HIDE DEF Seen
    <3>1. \A k \in DOMAIN external' : Looked(external[k])'
      BY <1>6, <1>12 DEF Looked
    <3> QED
      BY <1>1, <1>12, <3>1
  <2> QED
    BY <1>3, <2>1, <2>2, <2>3 DEF FilesTrue
<1>14. stage = "looking" /\ stage' = stage /\ UNCHANGED <<files, workspace, todo, using, cached, cleanups, starting, alive, lock, closer>>
  BY DEF Launch!Look
<1>15. cached = Launch!NoFiles /\ using = {} /\ lock = "free"
  BY <1>14 DEF LaunchInv, StagesTrue
<1>16. StagesTrue'
  BY <1>14 DEF LaunchInv, StagesTrue
<1>17. DOMAIN cached = {}
  BY <1>15 DEF Launch!NoFiles
<1>18. CacheTrue' /\ UsedTrue'
  BY <1>14, <1>15, <1>17 DEF LaunchInv, CacheTrue, UsedTrue
<1>19. LaunchTrue'
  BY <1>14, <1>15 DEF LaunchInv, LaunchTrue
<1> QED
  BY <1>13, <1>16, <1>18, <1>19 DEF LaunchInv

-----------------------------------------------------------------------------
(* Where the command is. *)

LEMMA LaunchInit ==
    ASSUME Launch!Init
    PROVE  LaunchInv
<1>1. DOMAIN external = {} /\ DOMAIN cached = {}
      /\ external = [k \in DOMAIN external |-> external[k]] /\ cached = [k \in DOMAIN cached |-> cached[k]]
  BY DEF Launch!Init, Launch!NoFiles
<1>2. looked = 0 /\ looked \in 0..Len(Directory) /\ \A f : ~Looked(f)
  <2>1. workspace \in References /\ looked = 0
    BY DEF Launch!Init
  <2> QED
    BY <2>1, LaunchAssumption DEF Looked
<1>3. FilesTrue
  BY <1>1, <1>2 DEF FilesTrue
<1>4. StagesTrue /\ CacheTrue /\ UsedTrue
  BY <1>1 DEF Launch!Init, StagesTrue, CacheTrue, UsedTrue
<1>5. LaunchTrue
  BY DEF Launch!Init, LaunchTrue
<1> QED
  BY <1>3, <1>4, <1>5 DEF LaunchInv

LEMMA LoadKeeps ==
    ASSUME LaunchInv, Launch!Load \/ Launch!NoWorkspace
    PROVE  LaunchInv'
<1>1. /\ stage = "start" /\ stage' \in {"looking", "returned"}
      /\ UNCHANGED <<files, workspace, looked, todo, using, external, cached, cleanups, starting, alive, lock, closer>>
  BY DEF Launch!Load, Launch!NoWorkspace, Launch!registry
<1>2. FilesTrue' /\ CacheTrue' /\ UsedTrue'
  BY <1>1, FilesStay, CacheStays, UsedStays DEF LaunchInv
<1>3. StagesTrue'
  BY <1>1 DEF LaunchInv, StagesTrue
<1>4. lock = "free"
  BY <1>1 DEF LaunchInv, StagesTrue
<1>5. LaunchTrue'
  BY <1>1, <1>4 DEF LaunchInv, LaunchTrue
<1> QED
  BY <1>2, <1>3, <1>5 DEF LaunchInv

LEMMA ResolveKeeps ==
    ASSUME LaunchInv, Launch!Resolve
    PROVE  LaunchInv'
<1>1. /\ stage = "looking" /\ stage' = "resolving" /\ todo' = workspace
      /\ UNCHANGED <<files, workspace, looked, using, external, cached, cleanups, starting, alive, lock, closer>>
  BY DEF Launch!Resolve, Launch!registry
<1>2. FilesTrue' /\ CacheTrue' /\ UsedTrue'
  BY <1>1, FilesStay, CacheStays, UsedStays DEF LaunchInv
<1>3. cached = Launch!NoFiles /\ lock = "free" /\ closer = "none" /\ workspace \in References
  BY <1>1 DEF LaunchInv, StagesTrue
<1>4. workspace \in Seq({r \in Launch!Ref : r.type # "ui"})
  BY <1>3, LaunchAssumption
<1>5. workspace \in Seq(Launch!Ref)
  BY <1>4
<1>8. StagesTrue'
  BY <1>1, <1>3, <1>5 DEF LaunchInv, StagesTrue
<1>9. LaunchTrue'
  BY <1>1, <1>3 DEF LaunchInv, LaunchTrue
<1> QED
  BY <1>2, <1>8, <1>9 DEF LaunchInv

LEMMA ReadyKeeps ==
    ASSUME LaunchInv, Launch!Ready
    PROVE  LaunchInv'
<1>1. /\ stage = "resolving" /\ todo = <<>>
      /\ \/ stage' = "running" /\ closer' = "waits"
         \/ stage' = "returned" /\ closer' = closer
      /\ UNCHANGED <<files, workspace, looked, todo, using, external, cached, cleanups, starting, alive, lock>>
  BY DEF Launch!Ready, Launch!registry
<1>2. closer = "none"
  BY <1>1 DEF LaunchInv, StagesTrue
<1>3. FilesTrue' /\ CacheTrue' /\ UsedTrue'
  BY <1>1, <1>2, FilesStay, CacheStays, UsedStays DEF LaunchInv
<1>4. StagesTrue'
  BY <1>1, <1>2 DEF LaunchInv, StagesTrue
<1>5. lock = "free"
  BY <1>1, <1>2 DEF LaunchInv, LaunchTrue, Launch!Resolving
<1>6. LaunchTrue'
  BY <1>1, <1>2, <1>5 DEF LaunchInv, LaunchTrue
<1> QED
  BY <1>3, <1>4, <1>6 DEF LaunchInv

LEMMA OpenKeeps ==
    ASSUME LaunchInv, NEW ref \in Frontends, Launch!Open(ref)
    PROVE  LaunchInv'
<1>1. /\ stage = "running" /\ stage' = "opening" /\ todo' = <<ref>>
      /\ UNCHANGED <<files, workspace, looked, using, external, cached, cleanups, starting, alive, lock, closer>>
  BY DEF Launch!Open, Launch!registry
<1>2. FilesTrue' /\ CacheTrue' /\ UsedTrue'
  BY <1>1, FilesStay, CacheStays, UsedStays DEF LaunchInv
<1>3. StagesTrue'
  <2>1. <<ref>> \in Seq(Launch!Ref)
    BY LaunchAssumption
  <2> QED
    BY <1>1, <2>1 DEF LaunchInv, StagesTrue
<1>4. lock # "launch"
  BY <1>1 DEF LaunchInv, LaunchTrue, Launch!Resolving
<1>5. LaunchTrue'
  BY <1>1, <1>4 DEF LaunchInv, LaunchTrue
<1> QED
  BY <1>2, <1>3, <1>5 DEF LaunchInv

LEMMA EndKeeps ==
    ASSUME LaunchInv, Launch!Return \/ Launch!Cancel \/ Launch!Exit
    PROVE  LaunchInv'
<1>1. /\ stage \in {"running", "opening", "returned", "exiting"} /\ stage' \in {"returned", "exiting", "gone"}
      /\ stage = "opening" => todo = <<>>
      /\ UNCHANGED <<files, workspace, looked, todo, using, external, cached, cleanups, starting, alive, lock, closer>>
  BY DEF Launch!Return, Launch!Cancel, Launch!Exit, Launch!registry
<1>2. FilesTrue' /\ CacheTrue' /\ UsedTrue'
  BY <1>1, FilesStay, CacheStays, UsedStays DEF LaunchInv
<1>3. StagesTrue'
  BY <1>1 DEF LaunchInv, StagesTrue
<1>4. lock # "launch"
  BY <1>1 DEF LaunchInv, LaunchTrue, Launch!Resolving
<1>5. LaunchTrue'
  BY <1>1, <1>4 DEF LaunchInv, LaunchTrue
<1> QED
  BY <1>2, <1>3, <1>5 DEF LaunchInv

LEMMA InterruptKeeps ==
    ASSUME LaunchInv, Launch!Interrupt
    PROVE  LaunchInv'
<1>1. UNCHANGED <<files, workspace, looked, stage, todo, using, external, cached, cleanups, starting, alive, lock, closer>>
  BY DEF Launch!Interrupt, Launch!registry
<1>2. FilesTrue' /\ CacheTrue' /\ UsedTrue'
  BY <1>1, FilesStay, CacheStays, UsedStays DEF LaunchInv
<1>3. StagesTrue'
  BY <1>1 DEF LaunchInv, StagesTrue
<1>4. LaunchTrue'
  BY <1>1 DEF LaunchInv, LaunchTrue, Launch!Resolving, Launch!Wanted
<1> QED
  BY <1>2, <1>3, <1>4 DEF LaunchInv

-----------------------------------------------------------------------------
(* One reference after the other. *)

\* What becomes of the places where a command is when it has got what it wanted.
LEMMA GotStages ==
    ASSUME LaunchInv, Launch!Resolving, NEW p, Launch!Got(p), UNCHANGED <<files, workspace, stage, closer>>
    PROVE  StagesTrue'
<1>1. todo' = Tail(todo) /\ stage \in {"resolving", "opening"} /\ Tail(todo) \in Seq(Launch!Ref)
  BY WantedIs DEF LaunchInv, Launch!Got, Launch!Resolving
<1> QED
  BY <1>1 DEF LaunchInv, StagesTrue

\* A failure ends the command, and nothing is in the way of that.
LEMMA FailsStages ==
    ASSUME LaunchInv, Launch!Fails, UNCHANGED <<files, workspace>>
    PROVE  StagesTrue'
BY DEF Launch!Fails, LaunchInv, StagesTrue

LEMMA UseBuiltinKeeps ==
    ASSUME LaunchInv, Launch!UseBuiltin
    PROVE  LaunchInv'
<1>1. /\ Launch!Resolving /\ ~External(Launch!Wanted) /\ Launch!Got(Empty)
      /\ UNCHANGED <<files, workspace, looked, stage, external, cached, cleanups, starting, alive, lock, closer>>
  BY DEF Launch!UseBuiltin, Launch!registry, External
<1>2. FilesTrue' /\ CacheTrue'
  BY <1>1, FilesStay, CacheStays DEF LaunchInv
<1>3. StagesTrue'
  BY <1>1, GotStages
<1>4. lock # "launch"
  BY <1>1 DEF LaunchInv, LaunchTrue
<1>5. LaunchTrue'
  BY <1>1, <1>4 DEF LaunchInv, LaunchTrue
<1>6. UsedTrue'
  <2> DEFINE v == [ref |-> Launch!Wanted, plugin |-> Empty]
  <2>1. using' = using \cup {v}
    BY <1>1 DEF Launch!Got
  <2>2. v.plugin = Empty /\ v.ref.name \in Builtin[v.ref.type]
    BY <1>1 DEF External
  <2> HIDE DEF v
  <2> QED
    BY <1>1, <2>1, <2>2 DEF LaunchInv, UsedTrue
<1> QED
  BY <1>2, <1>3, <1>5, <1>6 DEF LaunchInv

LEMMA RefuseKeeps ==
    ASSUME LaunchInv, Launch!RefuseOptions
    PROVE  LaunchInv'
<1>1. /\ Launch!Resolving /\ ~External(Launch!Wanted) /\ Launch!Fails
      /\ UNCHANGED <<files, workspace, looked, todo, using, external, cached, cleanups, starting, alive, lock, closer>>
  BY DEF Launch!RefuseOptions, Launch!registry, Launch!Fails, External
<1>2. FilesTrue' /\ CacheTrue' /\ UsedTrue'
  BY <1>1, FilesStay, CacheStays, UsedStays DEF LaunchInv
<1>3. StagesTrue'
  BY <1>1, FailsStages
<1>4. lock # "launch"
  BY <1>1 DEF LaunchInv, LaunchTrue
<1>5. LaunchTrue'
  BY <1>1, <1>4 DEF LaunchInv, LaunchTrue
<1> QED
  BY <1>2, <1>3, <1>5 DEF LaunchInv

-----------------------------------------------------------------------------
(* Launches. *)

\* A plugin that is to be closed is the one that is cached for its file.
LEMMA CleanupsAre ==
    ASSUME LaunchInv, NEW p \in cleanups
    PROVE  /\ p \in Launch!Process /\ Launch!Key(p.file) \in DOMAIN cached
           /\ p = cached[Launch!Key(p.file)] /\ p.file = external[Launch!Key(p.file)]
<1>1. PICK k \in DOMAIN cached : p = cached[k]
  BY DEF LaunchInv, CacheTrue
<1>2. p \in Launch!Process /\ p.file = external[k] /\ k \in DOMAIN external
  BY <1>1 DEF LaunchInv, CacheTrue
<1>3. Launch!Key(p.file) = k
  BY <1>2 DEF LaunchInv, FilesTrue
<1> QED
  BY <1>1, <1>2, <1>3

\* What is launched is none that is there.
LEMMA LaunchIs ==
    ASSUME LaunchInv, lock = "launch",
           NEW p, p = [file |-> external[Launch!Key(Launch!Wanted)], options |-> Launch!Wanted.options]
    PROVE  /\ p \in Launch!Process /\ p # Absent /\ p # Empty /\ p \notin cleanups
           /\ p.file = external[Launch!Key(Launch!Wanted)] /\ p.options = Launch!Wanted.options
           /\ Launch!Key(p.file) = Launch!Key(Launch!Wanted)
<1>1. Launch!Resolving /\ Launch!Key(Launch!Wanted) \in DOMAIN external \ DOMAIN cached
  BY DEF LaunchInv, LaunchTrue
<1>2. Launch!Wanted \in Launch!Ref
  BY <1>1, WantedIs DEF LaunchInv
<1>3. files \subseteq Launch!File
  BY LaunchAssumption DEF LaunchInv, StagesTrue
<1>4. external[Launch!Key(Launch!Wanted)] \in Launch!File
      /\ Launch!Key(external[Launch!Key(Launch!Wanted)]) = Launch!Key(Launch!Wanted)
  BY <1>1, <1>3 DEF LaunchInv, FilesTrue
<1>5. p \in Launch!Process
  <2>1. Launch!Wanted.options \in {"none", "one", "two"}
    BY <1>2 DEF Launch!Ref
  <2> QED
    BY <1>4, <2>1 DEF Launch!Process
<1>6. p # Absent /\ p # Empty
  BY <1>5, LaunchAssumption
<1>7. p.file = external[Launch!Key(Launch!Wanted)] /\ p.options = Launch!Wanted.options
  OBVIOUS
<1>8. p \notin cleanups
  BY <1>1, <1>4, <1>7, CleanupsAre
<1> QED
  BY <1>4, <1>5, <1>6, <1>7, <1>8

LEMMA LaunchExternalKeeps ==
    ASSUME LaunchInv, Launch!LaunchExternal
    PROVE  LaunchInv'
<1> DEFINE k == Launch!Key(Launch!Wanted)
<1>1. /\ Launch!Resolving /\ External(Launch!Wanted) /\ lock = "free"
      /\ UNCHANGED <<files, workspace, looked, external, cached, cleanups, starting, alive, closer>>
  BY DEF Launch!LaunchExternal, Launch!registry, External
<1>2. FilesTrue' /\ CacheTrue'
  BY <1>1, FilesStay, CacheStays DEF LaunchInv
<1>3. CASE k \in DOMAIN cached /\ Launch!Got(cached[k]) /\ UNCHANGED <<stage, lock>>
  <2>1. StagesTrue'
    BY <1>1, <1>3, GotStages
  <2>2. LaunchTrue'
    BY <1>1, <1>3 DEF LaunchInv, LaunchTrue
  <2>3. UsedTrue'
    <3> DEFINE v == [ref |-> Launch!Wanted, plugin |-> cached[k]]
    <3>1. using' = using \cup {v}
      BY <1>3 DEF Launch!Got
    <3>2. v.ref = Launch!Wanted /\ v.plugin = cached[k]
      OBVIOUS
    <3> HIDE DEF v
    <3>3. /\ v.ref.name \notin Builtin[v.ref.type] /\ v.plugin \in Launch!Process /\ Launch!Key(v.ref) \in DOMAIN external
          /\ v.plugin.file = external[Launch!Key(v.ref)]
      BY <1>1, <1>3, <3>2 DEF LaunchInv, CacheTrue, External
    <3> QED
      BY <1>1, <1>3, <3>1, <3>2, <3>3 DEF LaunchInv, UsedTrue
  <2> QED
    BY <1>2, <2>1, <2>2, <2>3 DEF LaunchInv
<1>4. CASE Launch!Fails /\ UNCHANGED lock
  <2>1. StagesTrue'
    BY <1>1, <1>4, FailsStages
  <2>2. LaunchTrue'
    BY <1>1, <1>4 DEF LaunchInv, LaunchTrue
  <2>3. UsedTrue'
    BY <1>1, <1>4, UsedStays DEF LaunchInv, Launch!Fails
  <2> QED
    BY <1>2, <2>1, <2>2, <2>3 DEF LaunchInv
<1>5. CASE k \in DOMAIN external \ DOMAIN cached /\ lock' = "launch" /\ UNCHANGED <<stage, todo, using>>
  <2>1. StagesTrue'
    BY <1>1, <1>5 DEF LaunchInv, StagesTrue, Launch!Resolving
  <2>2. LaunchTrue'
    BY <1>1, <1>5 DEF LaunchInv, LaunchTrue, Launch!Resolving, Launch!Wanted
  <2>3. UsedTrue'
    BY <1>1, <1>5, UsedStays DEF LaunchInv
  <2> QED
    BY <1>2, <2>1, <2>2, <2>3 DEF LaunchInv
<1> QED
  BY <1>3, <1>4, <1>5 DEF Launch!LaunchExternal

LEMMA StartKeeps ==
    ASSUME LaunchInv, Launch!Start
    PROVE  LaunchInv'
<1> DEFINE p == [file |-> external[Launch!Key(Launch!Wanted)], options |-> Launch!Wanted.options]
<1>1. /\ lock = "launch" /\ starting = Absent /\ starting' = p /\ alive' = alive \cup {p}
      /\ UNCHANGED <<files, workspace, looked, stage, todo, using, external, cached, cleanups, lock, closer>>
  BY DEF Launch!Start, Launch!registry
<1>2. FilesTrue' /\ CacheTrue' /\ UsedTrue'
  BY <1>1, FilesStay, CacheStays, UsedStays DEF LaunchInv
<1>3. StagesTrue'
  BY <1>1 DEF LaunchInv, StagesTrue
<1>4. p # Absent
  BY <1>1, LaunchIs
<1>5. LaunchTrue'
  <2>1. p' = p
    BY <1>1 DEF Launch!Wanted
  <2>2. Launch!Resolving' /\ External(Launch!Wanted)' /\ (Launch!Key(Launch!Wanted) \in DOMAIN external \ DOMAIN cached)'
    BY <1>1 DEF LaunchInv, LaunchTrue, Launch!Resolving, Launch!Wanted
  <2> HIDE DEF p
  <2>3. (starting = [file |-> external[Launch!Key(Launch!Wanted)], options |-> Launch!Wanted.options])'
    BY <1>1, <2>1 DEF p
  <2> QED
    BY <1>1, <1>4, <2>2, <2>3 DEF LaunchInv, LaunchTrue
<1> QED
  BY <1>2, <1>3, <1>5 DEF LaunchInv

LEMMA LaunchedKeeps ==
    ASSUME LaunchInv, Launch!Launched
    PROVE  LaunchInv'
<1> DEFINE k == Launch!Key(Launch!Wanted)
<1>1. /\ lock = "launch" /\ starting # Absent /\ Launch!Got(starting)
      /\ cached' = Launch!Add(cached, [j \in {k} |-> starting]) /\ cleanups' = cleanups \cup {starting}
      /\ starting' = Absent /\ lock' = "free"
      /\ UNCHANGED <<files, workspace, looked, stage, external, alive, closer>>
  BY DEF Launch!Launched, Launch!Registered
<1>2. /\ Launch!Resolving /\ External(Launch!Wanted) /\ k \in DOMAIN external \ DOMAIN cached
      /\ starting \in alive /\ closer # "closing"
      /\ starting = [file |-> external[k], options |-> Launch!Wanted.options]
  BY <1>1 DEF LaunchInv, LaunchTrue
<1>3. /\ starting \in Launch!Process /\ starting.file = external[k] /\ starting.options = Launch!Wanted.options
      /\ starting \notin cleanups
  BY <1>1, <1>2, LaunchIs
<1>4. /\ DOMAIN cached' = DOMAIN cached \cup {k} /\ cached' = [j \in DOMAIN cached' |-> cached'[j]]
      /\ (\A j \in DOMAIN cached : cached'[j] = cached[j]) /\ cached'[k] = starting
  <2> HIDE DEF k
  <2> QED
    BY <1>1, <1>2 DEF Launch!Add
<1>5. FilesTrue'
  BY <1>1, FilesStay DEF LaunchInv
<1>6. StagesTrue'
  BY <1>1, <1>2, GotStages
<1>8. CacheTrue'
  <2>2. ASSUME NEW j \in DOMAIN cached'
        PROVE  j \in DOMAIN external' /\ cached'[j] \in Launch!Process /\ cached'[j].file = external'[j]
    <3>1. CASE j \in DOMAIN cached
      BY <1>1, <1>4, <3>1 DEF LaunchInv, CacheTrue
    <3>2. CASE j = k
      <4>1. external' = external /\ k \in DOMAIN external
        BY <1>1, <1>2
      <4> HIDE DEF k
      <4>2. cached'[j] = starting
        BY <1>4, <3>2
      <4> QED
        BY <1>3, <3>2, <4>1, <4>2
    <3>3. j \in DOMAIN cached \/ j = k
      BY <1>4, <2>2
    <3> QED
      BY <3>1, <3>2, <3>3
  <2>3. cleanups' = {cached'[j] : j \in DOMAIN cached'}
    <3> HIDE DEF k
    <3>1. cleanups = {cached[j] : j \in DOMAIN cached}
      BY DEF LaunchInv, CacheTrue
    <3>2. cleanups' = {cached[j] : j \in DOMAIN cached} \cup {starting}
      BY <1>1, <3>1
    <3> QED
      BY <1>4, <3>2
  <2> QED
    BY <1>4, <2>2, <2>3 DEF CacheTrue
<1>9. LaunchTrue'
  BY <1>1, <1>2 DEF LaunchInv, LaunchTrue
<1>10. UsedTrue'
  <2> DEFINE v == [ref |-> Launch!Wanted, plugin |-> starting]
  <2>1. using' = using \cup {v}
    BY <1>1 DEF Launch!Got
  <2>2. v.ref = Launch!Wanted /\ v.plugin = starting
    OBVIOUS
  <2> HIDE DEF v
  <2>3. v.ref.name \notin Builtin[v.ref.type] /\ Launch!Key(v.ref) = k
    BY <1>2, <2>2 DEF External
  <2> HIDE DEF k
  <2> QED
    BY <1>1, <1>2, <1>3, <1>4, <2>1, <2>2, <2>3 DEF LaunchInv, UsedTrue
<1> QED
  BY <1>5, <1>6, <1>8, <1>9, <1>10 DEF LaunchInv

LEMMA NotLaunchedKeeps ==
    ASSUME LaunchInv, Launch!NotLaunched
    PROVE  LaunchInv'
<1>1. /\ lock = "launch" /\ alive' = alive \ {starting} /\ starting' = Absent /\ lock' = "free" /\ Launch!Fails
      /\ UNCHANGED <<files, workspace, looked, todo, using, external, cached, cleanups, closer>>
  BY DEF Launch!NotLaunched, Launch!registry, Launch!Fails
<1>2. FilesTrue' /\ CacheTrue' /\ UsedTrue'
  BY <1>1, FilesStay, CacheStays, UsedStays DEF LaunchInv
<1>3. StagesTrue'
  BY <1>1, FailsStages
<1>4. starting \notin cleanups
  <2>1. CASE starting = Absent
    BY <2>1, CleanupsAre, LaunchAssumption
  <2>2. CASE starting # Absent
    BY <1>1, <2>2, LaunchIs DEF LaunchInv, LaunchTrue
  <2> QED
    BY <2>1, <2>2
<1>5. LaunchTrue'
  BY <1>1, <1>4 DEF LaunchInv, LaunchTrue
<1> QED
  BY <1>2, <1>3, <1>5 DEF LaunchInv

-----------------------------------------------------------------------------
(* The end. *)

LEMMA CloseKeeps ==
    ASSUME LaunchInv, Launch!Close
    PROVE  LaunchInv'
<1>1. /\ closer = "waits" /\ lock = "free" /\ closer' = "closing" /\ lock' = "close"
      /\ UNCHANGED <<files, workspace, looked, stage, todo, using, external, cached, cleanups, starting, alive>>
  BY DEF Launch!Close, Launch!registry
<1>2. FilesTrue' /\ CacheTrue' /\ UsedTrue'
  BY <1>1, FilesStay, CacheStays, UsedStays DEF LaunchInv
<1>3. StagesTrue'
  BY <1>1 DEF LaunchInv, StagesTrue
<1>4. LaunchTrue'
  BY <1>1 DEF LaunchInv, LaunchTrue
<1> QED
  BY <1>2, <1>3, <1>4 DEF LaunchInv

LEMMA KillKeeps ==
    ASSUME LaunchInv, Launch!Kill
    PROVE  LaunchInv'
<1>1. /\ closer = "closing" /\ alive' \subseteq alive
      /\ UNCHANGED <<files, workspace, looked, stage, todo, using, external, cached, cleanups, starting, lock, closer>>
  BY DEF Launch!Kill, Launch!registry
<1>2. FilesTrue' /\ CacheTrue' /\ UsedTrue'
  BY <1>1, FilesStay, CacheStays, UsedStays DEF LaunchInv
<1>3. StagesTrue'
  BY <1>1 DEF LaunchInv, StagesTrue
<1>4. LaunchTrue'
  BY <1>1 DEF LaunchInv, LaunchTrue
<1> QED
  BY <1>2, <1>3, <1>4 DEF LaunchInv

LEMMA ClosedKeeps ==
    ASSUME LaunchInv, Launch!Closed
    PROVE  LaunchInv'
<1>1. /\ closer = "closing" /\ cleanups \cap alive = {} /\ cleanups' = {} /\ cached' = Launch!NoFiles
      /\ closer' = "done" /\ lock' = "free"
      /\ UNCHANGED <<files, workspace, looked, stage, todo, using, external, starting, alive>>
  BY DEF Launch!Closed
<1>2. DOMAIN cached' = {} /\ cached' = [k \in DOMAIN cached' |-> cached'[k]]
  BY <1>1 DEF Launch!NoFiles
<1>3. FilesTrue'
  BY <1>1, FilesStay DEF LaunchInv
<1>4. StagesTrue'
  BY <1>1, <1>2 DEF LaunchInv, StagesTrue
<1>5. CacheTrue'
  BY <1>1, <1>2 DEF CacheTrue
<1>6. starting = Absent
  BY <1>1 DEF LaunchInv, LaunchTrue
<1>7. LaunchTrue'
  BY <1>1, <1>6 DEF LaunchInv, LaunchTrue
<1>8. UsedTrue'
  BY <1>1 DEF LaunchInv, UsedTrue
<1> QED
  BY <1>3, <1>4, <1>5, <1>7, <1>8 DEF LaunchInv

LEMMA LaunchStutters ==
    ASSUME LaunchInv, UNCHANGED launchVars
    PROVE  LaunchInv'
<1>1. UNCHANGED <<files, workspace, looked, stage, todo, using, external, cached, cleanups, starting, alive, lock, closer>>
  BY DEF launchVars
<1>2. FilesTrue' /\ CacheTrue' /\ UsedTrue'
  BY <1>1, FilesStay, CacheStays, UsedStays DEF LaunchInv
<1>3. StagesTrue'
  BY <1>1 DEF LaunchInv, StagesTrue
<1>4. LaunchTrue'
  BY <1>1 DEF LaunchInv, LaunchTrue, Launch!Resolving, Launch!Wanted
<1> QED
  BY <1>2, <1>3, <1>4 DEF LaunchInv

LEMMA LaunchKeeps ==
    ASSUME LaunchInv, Launch!Next
    PROVE  LaunchInv'
<1>1. CASE Launch!Load \/ Launch!NoWorkspace
  BY <1>1, LoadKeeps
<1>2. CASE Launch!Look
  BY <1>2, LookFinds
<1>3. CASE Launch!Resolve
  BY <1>3, ResolveKeeps
<1>4. CASE Launch!UseBuiltin
  BY <1>4, UseBuiltinKeeps
<1>5. CASE Launch!RefuseOptions
  BY <1>5, RefuseKeeps
<1>6. CASE Launch!LaunchExternal
  BY <1>6, LaunchExternalKeeps
<1>7. CASE Launch!Start
  BY <1>7, StartKeeps
<1>8. CASE Launch!Launched
  BY <1>8, LaunchedKeeps
<1>9. CASE Launch!NotLaunched
  BY <1>9, NotLaunchedKeeps
<1>10. CASE Launch!Ready
  BY <1>10, ReadyKeeps
<1>11. CASE \E ref \in Frontends : Launch!Open(ref)
  BY <1>11, OpenKeeps
<1>12. CASE Launch!Return \/ Launch!Cancel \/ Launch!Exit
  BY <1>12, EndKeeps
<1>13. CASE Launch!Interrupt
  BY <1>13, InterruptKeeps
<1>14. CASE Launch!Close
  BY <1>14, CloseKeeps
<1>15. CASE Launch!Kill
  BY <1>15, KillKeeps
<1>16. CASE Launch!Closed
  BY <1>16, ClosedKeeps
<1> QED
  BY <1>1, <1>2, <1>3, <1>4, <1>5, <1>6, <1>7, <1>8, <1>9, <1>10, <1>11, <1>12, <1>13, <1>14, <1>15, <1>16
     DEF Launch!Next

\* What the invariant says of the processes that run and of who uses them.
LEMMA AccountedFor ==
    ASSUME LaunchInv
    PROVE  PluginsAccountedFor
<1>1. alive \subseteq cleanups \cup {starting}
  BY DEF LaunchInv, LaunchTrue
<1>2. ASSUME NEW p \in alive, NEW q \in alive, Launch!Key(p.file) = Launch!Key(q.file)
      PROVE  p = q
  <2>1. CASE p \in cleanups /\ q \in cleanups
    BY <1>2, <2>1, CleanupsAre
  <2>2. ASSUME NEW r \in cleanups, starting \in alive \ {Absent} PROVE Launch!Key(r.file) # Launch!Key(starting.file)
    <3>1. lock = "launch" /\ Launch!Key(Launch!Wanted) \notin DOMAIN cached
          /\ starting = [file |-> external[Launch!Key(Launch!Wanted)], options |-> Launch!Wanted.options]
      BY <2>2 DEF LaunchInv, LaunchTrue
    <3>2. Launch!Key(starting.file) = Launch!Key(Launch!Wanted)
      BY <3>1, LaunchIs
    <3> QED
      BY <3>1, <3>2, CleanupsAre
  <2>3. alive \subseteq cleanups \cup ({starting} \ {Absent})
    BY DEF LaunchInv, LaunchTrue
  <2> QED
    BY <1>2, <2>1, <2>2, <2>3
<1>3. ASSUME NEW u \in using
      PROVE  /\ Launch!TheRightOne(u)
             /\ u.plugin # Empty /\ closer \in {"none", "waits"} => u.plugin \in alive
  <2>1. CASE u.ref.name \in Builtin[u.ref.type]
    <3>1. u.plugin = Empty
      BY <2>1 DEF LaunchInv, UsedTrue
    <3> QED
      BY <2>1, <3>1 DEF Launch!TheRightOne
  <2>2. CASE u.ref.name \notin Builtin[u.ref.type]
    <3> DEFINE k == Launch!Key(u.ref)
    <3>1. /\ k \in DOMAIN external /\ u.plugin.file = external[k]
          /\ closer \in {"none", "waits"} => k \in DOMAIN cached /\ cached[k] = u.plugin
      BY <2>2 DEF LaunchInv, UsedTrue
    <3> HIDE DEF k
    <3>2. /\ external[k] \in files /\ Launch!Key(external[k]) = k
          /\ \A f \in files : Launch!Key(f) = k => ~Launch!Before(f, external[k])
      BY <3>1 DEF LaunchInv, FilesTrue
    <3>3. Launch!TheRightOne(u)
      BY <2>2, <3>1, <3>2 DEF Launch!TheRightOne, k
    <3>4. closer \in {"none", "waits"} => u.plugin \in alive
      BY <3>1 DEF LaunchInv, CacheTrue, LaunchTrue
    <3> QED
      BY <3>1, <3>3, <3>4
  <2> QED
    BY <2>1, <2>2
<1>4. Launch!PluginsAccountedFor
  BY <1>1, <1>2, <1>3 DEF Launch!PluginsAccountedFor
<1> QED
  BY <1>4 DEF PluginsAccountedFor

\* Whatever fails and whenever a signal comes: no plugin runs that a Close
\* would not kill (registry.go, engine.go), none runs twice, and a reference
\* is resolved to what is built in, or else to the plugin that discovery.go
\* prefers, which runs until something is closed.
THEOREM LaunchedAccountedFor == LaunchingSpec => []PluginsAccountedFor
<1>1. LaunchingInit => LaunchInv
  BY LaunchInit DEF LaunchingInit
<1>2. LaunchInv /\ [LaunchingNext]_<<system, launchVars, wireVars, treeVars, vars>> => LaunchInv'
  <2>1. SUFFICES ASSUME LaunchInv, [LaunchingNext]_<<system, launchVars, wireVars, treeVars, vars>>
                 PROVE  LaunchInv'
    OBVIOUS
  <2>2. Launch!Next \/ UNCHANGED launchVars
    BY <2>1 DEF LaunchingNext
  <2> QED
    BY <2>1, <2>2, LaunchKeeps, LaunchStutters
<1>3. LaunchInv => PluginsAccountedFor
  BY AccountedFor
<1> QED
  BY <1>1, <1>2, <1>3, PTL DEF LaunchingSpec

-----------------------------------------------------------------------------
(* Calls of a plugin. *)

\* Among numbers there is a least one, by which what is computed step by step
\* is known for every number of steps.
LEMMA LeastNumber ==
    ASSUME NEW T \in SUBSET Nat, T # {}
    PROVE  \E n \in T : \A m \in T : n <= m
<1> DEFINE Below == {0..n : n \in T}
<1>1. Below \subseteq FiniteSubsetsOf(Nat) /\ Below # {}
  <2>1. \A n \in T : IsFiniteSet(0..n) /\ 0..n \subseteq Nat
    BY FS_Interval
  <2> QED
    BY <2>1 DEF FiniteSubsetsOf
<1>2. IsWellFoundedOn(StrictSubsetOrdering(Nat), FiniteSubsetsOf(Nat))
  BY FS_StrictSubsetOrderingWellFounded
<1>3. PICK b \in Below : \A c \in Below : <<c, b>> \notin StrictSubsetOrdering(Nat)
  <2> HIDE DEF Below
  <2> QED
    BY <1>1, <1>2, WFMin
<1>4. PICK n \in T : b = 0..n
  OBVIOUS
<1>5. ASSUME NEW m \in T, m < n
      PROVE  FALSE
  <2>1. 0..m \subseteq 0..n /\ n \in 0..n /\ n \notin 0..m
    BY <1>5
  <2>2. <<0..m, 0..n>> \in StrictSubsetOrdering(Nat)
    BY <2>1 DEF StrictSubsetOrdering
  <2> QED
    BY <1>3, <1>4, <2>2
<1> QED
  BY <1>5

-----------------------------------------------------------------------------
(* Calls between zhi and a plugin. *)

LEMMA KindsAre ==
    /\ Len(Wires!Kinds) = 6
    /\ Wires!Kind = {Wires!Kinds[i] : i \in 1..6}
    /\ Wires!Kind = {"cas", "auth", "access", "path", "encryption", "unsupported"}
<1>1. /\ Len(Wires!Kinds) = 6
      /\ Wires!Kinds[1] = "cas" /\ Wires!Kinds[2] = "auth" /\ Wires!Kinds[3] = "access"
      /\ Wires!Kinds[4] = "path" /\ Wires!Kinds[5] = "encryption" /\ Wires!Kinds[6] = "unsupported"
  BY DEF Wires!Kinds
<1>2. 1..6 = {1, 2, 3, 4, 5, 6}
  OBVIOUS
<1>3. Wires!Kind = {Wires!Kinds[i] : i \in 1..6}
  BY <1>1 DEF Wires!Kind
<1> QED
  BY <1>1, <1>2, <1>3

\* An error of the store arrives as the first kind in its chain.
LEMMA OverKeepsKind ==
    ASSUME NEW s, NEW e, e.kinds \in SUBSET Wires!Kind
    PROVE  /\ Wires!Over(s, e) \in Wires!Kind \cup {"plain"}
           /\ Wires!Over(s, e) \in Wires!Kind => Wires!Over(s, e) \in e.kinds
           /\ s = "store" /\ Wires!Over(s, e) = "plain" => e.kinds = {}
<1>1. CASE s # "store" \/ e.kinds = {}
  BY <1>1, KindsAre DEF Wires!Over, Wires!FromStatus, Wires!ToStatus
<1>2. CASE s = "store" /\ e.kinds # {}
  <2> DEFINE First(i) == Wires!Kinds[i] \in e.kinds /\ \A j \in 1..i - 1 : Wires!Kinds[j] \notin e.kinds
             first == CHOOSE i \in 1..Len(Wires!Kinds) : First(i)
             T == {i \in 1..6 : Wires!Kinds[i] \in e.kinds}
  <2>1. T # {}
    BY <1>2, KindsAre
  <2>2. PICK i \in T : \A j \in T : i <= j
    BY <2>1, LeastNumber
  <2>3. First(i)
    BY <2>2
  <2>4. first \in 1..6 /\ First(first)
    BY <2>3, KindsAre
  <2>5. Wires!Kinds[first] \in e.kinds /\ Wires!Kinds[first] \in Wires!Kind
    BY <2>4, KindsAre
  <2>6. Wires!ToStatus(e) = [code |-> Wires!Code[Wires!Kinds[first]], marked |-> TRUE]
    BY <1>2 DEF Wires!ToStatus
  <2> HIDE DEF first, First, T
  <2>7. \A k, l \in Wires!Kind : Wires!Code[k] = Wires!Code[l] => k = l
    <3>1. /\ Wires!Code["cas"] = "Aborted" /\ Wires!Code["auth"] = "Unauthenticated"
          /\ Wires!Code["access"] = "PermissionDenied" /\ Wires!Code["path"] = "NotFound"
          /\ Wires!Code["encryption"] = "FailedPrecondition" /\ Wires!Code["unsupported"] = "Unimplemented"
      BY DEF Wires!Code
    <3> QED
      BY <3>1, KindsAre
  <2>8. Wires!FromStatus(Wires!ToStatus(e)) = Wires!Kinds[first]
    BY <2>5, <2>6, <2>7 DEF Wires!FromStatus
  <2> QED
    BY <1>2, <2>5, <2>8, KindsAre DEF Wires!Over
<1> QED
  BY <1>1, <1>2


Lines(c) == printed[c] = transit[c] + shown[c]

CallTyped(c) ==
    /\ handler[c] \in {"none", "asked", "handling", "worked", "ended"}
    /\ meant[c].kinds \in SUBSET Wires!Kind
    /\ printed[c] \in Nat /\ transit[c] \in Nat /\ shown[c] \in Nat
    /\ method[c] = "none" => handler[c] = "none" /\ seen[c] = "nothing"
    /\ method[c] # "Apply" => printed[c] = 0 /\ transit[c] = 0 /\ shown[c] = 0

\* What is meant is settled once the call is handled, and so are the lines
\* once their end is sent; until then, as long as somebody reads them, all
\* that are printed are on their way.
CallInv(c) ==
    /\ CallTyped(c)
    /\ handler[c] \in {"none", "asked", "handling"} => meant[c] = Wires!Nothing
    /\ Lines(c) \/ Wires!Gone(c)
    /\ end[c] = "result" => handler[c] = "ended" /\ Lines(c)
    /\ seen[c] = "done" => handler[c] = "ended" /\ meant[c] = Wires!Done /\ shown[c] = printed[c]
    /\ seen[c] \in Wires!Kind => handler[c] = "ended" /\ seen[c] \in meant[c].kinds
    /\ seen[c] = "plain" => handler[c] \in {"none", "ended"}
    /\ service = "store" /\ seen[c] = "plain" /\ meant[c] # Wires!Done => meant[c].kinds = {}

CallFunctions ==
    /\ service \in {"store", "config", "transform", "ui"}
    /\ DOMAIN method = Calls /\ method = [c \in Calls |-> method[c]]
    /\ DOMAIN handler = Calls /\ handler = [c \in Calls |-> handler[c]]
    /\ DOMAIN meant = Calls /\ meant = [c \in Calls |-> meant[c]]
    /\ DOMAIN seen = Calls /\ seen = [c \in Calls |-> seen[c]]
    /\ DOMAIN printed = Calls /\ printed = [c \in Calls |-> printed[c]]
    /\ DOMAIN transit = Calls /\ transit = [c \in Calls |-> transit[c]]
    /\ DOMAIN shown = Calls /\ shown = [c \in Calls |-> shown[c]]
    /\ DOMAIN end = Calls /\ end = [c \in Calls |-> end[c]]

WiresInv == CallFunctions /\ \A c \in Calls : CallInv(c)


LEMMA WireBegins ==
    ASSUME Wires!WireInit
    PROVE  WiresInv
<1>1. CallFunctions
  BY DEF Wires!WireInit, CallFunctions
<1>2. \A c \in Calls : CallInv(c)
  <2> SUFFICES ASSUME NEW c \in Calls
               PROVE  CallInv(c)
    OBVIOUS
  <2>1. /\ method[c] = "none" /\ handler[c] = "none" /\ meant[c] = Wires!Nothing /\ seen[c] = "nothing"
        /\ printed[c] = 0 /\ transit[c] = 0 /\ shown[c] = 0 /\ end[c] = "open"
    BY DEF Wires!WireInit
  <2>2. Wires!Nothing.kinds = {}
    BY DEF Wires!Nothing, Wires!Answer
  <2> QED
    BY <2>1, <2>2, KindsAre DEF CallInv, CallTyped, Lines, Wires!Gone, Wires!Waiting
<1> QED
  BY <1>1, <1>2 DEF WiresInv

\* A call that a step leaves alone, while no connection comes back.
LEMMA CallStays ==
    ASSUME NEW c \in Calls, CallInv(c), conn = "down" => conn' = "down", service' = service,
           method'[c] = method[c], handler'[c] = handler[c], meant'[c] = meant[c], seen'[c] = seen[c],
           printed'[c] = printed[c], transit'[c] = transit[c], shown'[c] = shown[c], end'[c] = end[c]
    PROVE  CallInv(c)'
<1>1. Wires!Gone(c) => Wires!Gone(c)'
  BY DEF Wires!Gone, Wires!Waiting
<1>2. (CallTyped(c) <=> CallTyped(c)') /\ (Lines(c) <=> Lines(c)')
  BY DEF CallTyped, Lines
<1> QED
  BY <1>1, <1>2 DEF CallInv

LEMMA AskKeeps ==
    ASSUME WiresInv, NEW c \in Calls, NEW m \in Wires!Methods(service), Wires!Ask(c, m)
    PROVE  WiresInv'
<1>1. m # "none"
  <2>1. service \in {"store", "config", "transform", "ui"}
    BY DEF WiresInv, CallFunctions
  <2>2. m # "none" \/ "none" \in Wires!ValuesIn[service] \/ "none" \in Wires!ValuesOut[service]
           \/ "none" \in Wires!Words[service]
    BY DEF Wires!Methods
  <2>3. "none" \notin Wires!ValuesIn[service]
    BY <2>1 DEF Wires!ValuesIn
  <2>4. "none" \notin Wires!ValuesOut[service]
    BY <2>1 DEF Wires!ValuesOut
  <2>5. "none" \notin Wires!Words[service]
    <3>1. /\ "none" \notin Wires!StoreSessionWords /\ "none" \notin Wires!StoreTreeWords
          /\ "none" \notin Wires!ControllerMethods
      BY DEF Wires!StoreSessionWords, Wires!StoreTreeWords, Wires!ControllerMethods, Wires!ControllerWords,
             Wires!MarketplaceWords, Wires!SessionWords
    <3> QED
      BY <2>1, <3>1 DEF Wires!Words
  <2> QED
    BY <2>2, <2>3, <2>4, <2>5
<1>2. /\ conn = "up" /\ method[c] = "none" /\ method' = [method EXCEPT ![c] = m]
      /\ UNCHANGED <<service, conn, meant, printed, transit, shown, end>>
      /\ \/ handler' = [handler EXCEPT ![c] = "asked"] /\ seen' = seen
         \/ seen' = [seen EXCEPT ![c] = "plain"] /\ handler' = handler
  BY DEF Wires!Ask, Wires!session, Wires!stream
<1>3. CallFunctions'
  BY <1>2 DEF WiresInv, CallFunctions
<1>4. ASSUME NEW d \in Calls \ {c} PROVE CallInv(d)'
  BY <1>2, CallStays DEF WiresInv, CallFunctions
<1>5. CallInv(c)'
  <2>1. /\ CallInv(c) /\ CallTyped(c) /\ handler[c] = "none" /\ seen[c] = "nothing"
        /\ printed[c] = 0 /\ transit[c] = 0 /\ shown[c] = 0 /\ meant[c] = Wires!Nothing /\ end[c] # "result"
    BY <1>2 DEF WiresInv, CallInv, CallTyped
  <2>2. /\ method'[c] = m /\ meant'[c] = Wires!Nothing /\ meant' = meant /\ end'[c] # "result"
        /\ printed'[c] = 0 /\ transit'[c] = 0 /\ shown'[c] = 0
        /\ \/ handler'[c] = "asked" /\ seen'[c] = "nothing"
           \/ handler'[c] = "none" /\ seen'[c] = "plain"
    BY <1>2, <2>1 DEF WiresInv, CallFunctions
  <2>3. CallTyped(c)'
    BY <1>1, <2>1, <2>2 DEF CallTyped
  <2>4. Wires!Nothing.kinds = {}
    BY DEF Wires!Nothing, Wires!Answer
  <2> QED
    BY <2>2, <2>3, <2>4, KindsAre DEF CallInv, Lines
<1> QED
  BY <1>3, <1>4, <1>5 DEF WiresInv

LEMMA BeginKeeps ==
    ASSUME WiresInv, NEW c \in Calls, Wires!Begin(c)
    PROVE  WiresInv'
<1>1. /\ handler[c] = "asked" /\ handler' = [handler EXCEPT ![c] = "handling"]
      /\ UNCHANGED <<service, conn, method, meant, seen, printed, transit, shown, end>>
  BY DEF Wires!Begin, Wires!session, Wires!stream
<1>2. CallFunctions'
  BY <1>1 DEF WiresInv, CallFunctions
<1>3. ASSUME NEW d \in Calls \ {c} PROVE CallInv(d)'
  BY <1>1, CallStays DEF WiresInv, CallFunctions
<1>4. CallInv(c)'
  <2>1. CallInv(c) /\ handler'[c] = "handling" /\ (Wires!Gone(c) <=> Wires!Gone(c)') /\ Lines(c)' = Lines(c)
    BY <1>1 DEF WiresInv, CallFunctions, Wires!Gone, Wires!Waiting, Lines
  <2> QED
    BY <1>1, <2>1, KindsAre DEF CallInv, CallTyped
<1> QED
  BY <1>2, <1>3, <1>4 DEF WiresInv

LEMMA WorkKeeps ==
    ASSUME WiresInv, NEW c \in Calls, Wires!Work(c)
    PROVE  WiresInv'
<1>1. /\ handler[c] = "handling" /\ handler' = [handler EXCEPT ![c] = "worked"]
      /\ \E e \in Wires!Failures \cup {Wires!Done, Wires!ExitsNonzero} : meant' = [meant EXCEPT ![c] = e]
      /\ UNCHANGED <<service, conn, method, seen, printed, transit, shown, end>>
  BY DEF Wires!Work, Wires!session, Wires!stream
<1>2. PICK e \in Wires!Failures \cup {Wires!Done, Wires!ExitsNonzero} : meant' = [meant EXCEPT ![c] = e]
  BY <1>1
<1>3. e.kinds \in SUBSET Wires!Kind
  BY WireAssumption DEF Wires!Failures, Wires!Done, Wires!ExitsNonzero, Wires!Answer
<1>4. CallFunctions'
  BY <1>1, <1>2 DEF WiresInv, CallFunctions
<1>5. ASSUME NEW d \in Calls \ {c} PROVE CallInv(d)'
  BY <1>1, <1>2, CallStays DEF WiresInv, CallFunctions
<1>6. CallInv(c)'
  <2>1. /\ CallInv(c) /\ handler'[c] = "worked" /\ meant'[c] = e
        /\ (Wires!Gone(c) <=> Wires!Gone(c)') /\ Lines(c)' = Lines(c)
    BY <1>1, <1>2 DEF WiresInv, CallFunctions, Wires!Gone, Wires!Waiting, Lines
  <2> QED
    BY <1>1, <1>3, <2>1, KindsAre DEF CallInv, CallTyped
<1> QED
  BY <1>4, <1>5, <1>6 DEF WiresInv


LEMMA ReplyKeeps ==
    ASSUME WiresInv, NEW c \in Calls, Wires!Reply(c)
    PROVE  WiresInv'
<1>1. /\ handler[c] = "worked" /\ method[c] # "Apply" /\ handler' = [handler EXCEPT ![c] = "ended"]
      /\ UNCHANGED <<service, conn, method, meant, printed, transit, shown, end>>
      /\ \/ seen' = seen
         \/ /\ Wires!Waiting(c)
            /\ seen' = [seen EXCEPT ![c] = IF meant[c] = Wires!Done THEN "done" ELSE Wires!Over(service, meant[c])]
         \/ /\ Wires!Waiting(c) /\ meant[c] = Wires!Done
            /\ seen' = [seen EXCEPT ![c] = "plain"]
  BY DEF Wires!Reply, Wires!session, Wires!stream
<1>2. CallFunctions'
  BY <1>1 DEF WiresInv, CallFunctions
<1>3. ASSUME NEW d \in Calls \ {c} PROVE CallInv(d)'
  BY <1>1, CallStays DEF WiresInv, CallFunctions
<1>4. CallInv(c)'
  <2>1. /\ CallInv(c) /\ handler'[c] = "ended" /\ Lines(c) /\ shown[c] = printed[c] /\ end[c] # "result"
        /\ seen[c] \notin Wires!Kind /\ seen[c] # "done" /\ seen[c] # "plain"
        /\ meant[c].kinds \in SUBSET Wires!Kind
    <3>1. CallInv(c) /\ handler'[c] = "ended"
      BY <1>1 DEF WiresInv, CallFunctions
    <3>2. handler[c] \notin {"none", "ended"}
      BY <1>1
    <3>3. end[c] # "result" /\ seen[c] \notin Wires!Kind /\ seen[c] # "done" /\ seen[c] # "plain"
      BY <3>1, <3>2 DEF CallInv
    <3>4. Lines(c) /\ shown[c] = printed[c] /\ meant[c].kinds \in SUBSET Wires!Kind
      BY <1>1, <3>1 DEF CallInv, CallTyped, Lines
    <3> QED
      BY <3>1, <3>3, <3>4
  <2>2. CallTyped(c)' /\ Lines(c)'
    BY <1>1, <2>1 DEF CallInv, CallTyped, Lines, Wires!Waiting, WiresInv, CallFunctions
  <2>3. CASE seen' = seen
    BY <1>1, <2>1, <2>2, <2>3 DEF CallInv
  <2>4. CASE seen'[c] = "done" /\ meant[c] = Wires!Done
    BY <1>1, <2>1, <2>2, <2>4, KindsAre DEF CallInv
  <2>5. CASE seen'[c] = "plain" /\ meant[c] = Wires!Done
    BY <1>1, <2>1, <2>2, <2>5, KindsAre DEF CallInv
  <2>6. CASE seen'[c] = Wires!Over(service, meant[c]) /\ meant[c] # Wires!Done
    <3>1. /\ seen'[c] \in Wires!Kind \cup {"plain"}
          /\ seen'[c] \in Wires!Kind => seen'[c] \in meant[c].kinds
          /\ service = "store" /\ seen'[c] = "plain" => meant[c].kinds = {}
      BY <2>1, <2>6, OverKeepsKind
    <3> QED
      BY <1>1, <2>1, <2>2, <3>1, KindsAre DEF CallInv
  <2> QED
    BY <1>1, <2>3, <2>4, <2>5, <2>6 DEF WiresInv, CallFunctions
<1> QED
  BY <1>2, <1>3, <1>4 DEF WiresInv

LEMMA PrintLineKeeps ==
    ASSUME WiresInv, NEW c \in Calls, Wires!PrintLine(c)
    PROVE  WiresInv'
<1>1. /\ method[c] = "Apply" /\ handler[c] = "handling" /\ printed' = [printed EXCEPT ![c] = @ + 1]
      /\ UNCHANGED <<service, conn, method, handler, meant, seen, shown>>
      /\ \/ Wires!Gone(c) /\ transit' = transit /\ end' = end
         \/ transit' = [transit EXCEPT ![c] = @ + 1] /\ end' = end /\ ~Wires!Gone(c)
         \/ end' = [end EXCEPT ![c] = "broken"] /\ transit' = transit
  BY DEF Wires!PrintLine, Wires!session, Wires!stream
<1>2. CallFunctions'
  BY <1>1 DEF WiresInv, CallFunctions
<1>3. ASSUME NEW d \in Calls \ {c} PROVE CallInv(d)'
  BY <1>1, CallStays DEF WiresInv, CallFunctions
<1>4. CallInv(c)'
  <2>1. /\ CallInv(c) /\ CallTyped(c) /\ printed'[c] = printed[c] + 1 /\ end[c] # "result"
        /\ transit'[c] \in {transit[c], transit[c] + 1} /\ end'[c] # "result"
    BY <1>1 DEF WiresInv, CallInv, CallFunctions
  <2>2. CallTyped(c)'
    BY <1>1, <2>1 DEF CallTyped
  <2>3. Lines(c)' \/ Wires!Gone(c)'
    <3>1. CASE Wires!Gone(c) /\ end' = end
      BY <1>1, <3>1 DEF Wires!Gone, Wires!Waiting
    <3>2. CASE ~Wires!Gone(c) /\ transit'[c] = transit[c] + 1
      BY <1>1, <2>1, <3>2 DEF CallInv, CallTyped, Lines
    <3>3. CASE end'[c] = "broken"
      BY <3>3 DEF Wires!Gone
    <3> QED
      BY <1>1, <3>1, <3>2, <3>3 DEF WiresInv, CallFunctions
  <2> QED
    BY <1>1, <2>1, <2>2, <2>3, KindsAre DEF CallInv
<1> QED
  BY <1>2, <1>3, <1>4 DEF WiresInv

LEMMA SendResultKeeps ==
    ASSUME WiresInv, NEW c \in Calls, Wires!SendResult(c)
    PROVE  WiresInv'
<1>1. /\ method[c] = "Apply" /\ handler[c] = "worked" /\ handler' = [handler EXCEPT ![c] = "ended"]
      /\ end' = [end EXCEPT ![c] = IF Wires!Gone(c) THEN "broken" ELSE "result"]
      /\ UNCHANGED <<service, conn, method, meant, seen, printed, transit, shown>>
  BY DEF Wires!SendResult, Wires!session
<1>2. CallFunctions'
  BY <1>1 DEF WiresInv, CallFunctions
<1>3. ASSUME NEW d \in Calls \ {c} PROVE CallInv(d)'
  BY <1>1, CallStays DEF WiresInv, CallFunctions
<1>4. CallInv(c)'
  <2>1. /\ CallInv(c) /\ CallTyped(c) /\ handler'[c] = "ended"
        /\ end'[c] = IF Wires!Gone(c) THEN "broken" ELSE "result"
    BY <1>1 DEF WiresInv, CallInv, CallFunctions
  <2>2. CallTyped(c)' /\ Lines(c)' = Lines(c)
    BY <1>1, <2>1 DEF CallTyped, Lines
  <2>3. ~Wires!Gone(c) => Lines(c)
    BY <2>1 DEF CallInv
  <2>4. Lines(c)' \/ Wires!Gone(c)'
    BY <2>1, <2>2, <2>3 DEF Wires!Gone
  <2>5. end'[c] = "result" => Lines(c)'
    BY <2>1, <2>2, <2>3
  <2> QED
    BY <1>1, <2>1, <2>2, <2>4, <2>5, KindsAre DEF CallInv
<1> QED
  BY <1>2, <1>3, <1>4 DEF WiresInv

LEMMA RecvLineKeeps ==
    ASSUME WiresInv, NEW c \in Calls, Wires!RecvLine(c)
    PROVE  WiresInv'
<1>1. /\ method[c] # "none" /\ seen[c] = "nothing" /\ transit[c] > 0
      /\ transit' = [transit EXCEPT ![c] = @ - 1] /\ shown' = [shown EXCEPT ![c] = @ + 1]
      /\ UNCHANGED <<service, conn, method, handler, meant, seen, printed, end>>
  BY DEF Wires!RecvLine, Wires!session, Wires!Waiting
<1>2. CallFunctions'
  BY <1>1 DEF WiresInv, CallFunctions
<1>3. ASSUME NEW d \in Calls \ {c} PROVE CallInv(d)'
  BY <1>1, CallStays DEF WiresInv, CallFunctions
<1>4. CallInv(c)'
  <2>1. /\ CallInv(c) /\ CallTyped(c) /\ transit'[c] = transit[c] - 1 /\ shown'[c] = shown[c] + 1
        /\ (Wires!Gone(c) <=> Wires!Gone(c)')
    BY <1>1 DEF WiresInv, CallInv, CallFunctions, Wires!Gone, Wires!Waiting
  <2>2. CallTyped(c)' /\ (Lines(c)' <=> Lines(c))
    BY <1>1, <2>1 DEF CallTyped, Lines
  <2> QED
    BY <1>1, <2>1, <2>2, KindsAre DEF CallInv
<1> QED
  BY <1>2, <1>3, <1>4 DEF WiresInv

\* The caller's side ends: with the result, or because it gives up or is lost.
LEMMA SeenKeeps ==
    ASSUME WiresInv, NEW c \in Calls, Wires!RecvEnd(c) \/ Wires!GiveUp(c) \/ Wires!Lost(c)
    PROVE  WiresInv'
<1>1. /\ method[c] # "none" /\ seen[c] = "nothing"
      /\ UNCHANGED <<service, conn, method, handler, meant, printed, transit, shown, end>>
      /\ \/ seen' = [seen EXCEPT ![c] = "lost"]
         \/ seen' = [seen EXCEPT ![c] = "failed"]
         \/ /\ transit[c] = 0 /\ end[c] = "result" /\ meant[c] = Wires!Done
            /\ seen' = [seen EXCEPT ![c] = "done"]
  BY DEF Wires!RecvEnd, Wires!GiveUp, Wires!Lost, Wires!session, Wires!stream, Wires!Waiting, Wires!Result,
         Wires!Broken
<1>2. CallFunctions'
  BY <1>1 DEF WiresInv, CallFunctions
<1>3. ASSUME NEW d \in Calls \ {c} PROVE CallInv(d)'
  BY <1>1, CallStays DEF WiresInv, CallFunctions
<1>4. CallInv(c)'
  <2>1. /\ CallInv(c) /\ CallTyped(c) /\ seen'[c] \in {"lost", "failed", "done"}
        /\ seen'[c] = "done" => end[c] = "result" /\ transit[c] = 0 /\ meant[c] = Wires!Done
    BY <1>1 DEF WiresInv, CallInv, CallFunctions
  <2>2. CallTyped(c)' /\ Lines(c)' = Lines(c)
    BY <1>1, <2>1 DEF CallTyped, Lines
  <2>3. Wires!Gone(c)'
    BY <1>1, <2>1 DEF Wires!Gone, Wires!Waiting
  <2>4. seen'[c] = "done" => handler[c] = "ended" /\ shown[c] = printed[c]
    BY <2>1 DEF CallInv, CallTyped, Lines
  <2> QED
    BY <1>1, <2>1, <2>2, <2>3, <2>4, KindsAre DEF CallInv
<1> QED
  BY <1>2, <1>3, <1>4 DEF WiresInv

LEMMA CalleeDiesKeeps ==
    ASSUME WiresInv, Wires!CalleeDies
    PROVE  WiresInv'
<1>1. /\ conn' = "down" /\ handler' = [c \in Calls |-> IF handler[c] = "none" THEN "none" ELSE "ended"]
      /\ UNCHANGED <<service, method, meant, seen, printed, transit, shown, end>>
  BY DEF Wires!CalleeDies, Wires!stream
<1>2. CallFunctions'
  BY <1>1 DEF WiresInv, CallFunctions
<1>3. ASSUME NEW c \in Calls PROVE CallInv(c)'
  <2>1. CallInv(c) /\ CallTyped(c) /\ Lines(c)' = Lines(c) /\ Wires!Gone(c)'
    BY <1>1 DEF WiresInv, CallInv, Lines, Wires!Gone
  <2>2. handler'[c] = IF handler[c] = "none" THEN "none" ELSE "ended"
    BY <1>1
  <2>3. CallTyped(c)'
    BY <1>1, <2>1, <2>2 DEF CallTyped
  <2> QED
    BY <1>1, <2>1, <2>2, <2>3, KindsAre DEF CallInv
<1> QED
  BY <1>2, <1>3 DEF WiresInv

\* Steps of the connection and of Run alone, and none.
LEMMA ConnectionKeeps ==
    ASSUME WiresInv, conn = "down" => conn' = "down",
           UNCHANGED <<service, method, handler, meant, seen, printed, transit, shown, end>>
    PROVE  WiresInv'
<1>1. CallFunctions'
  BY DEF WiresInv, CallFunctions
<1>2. ASSUME NEW c \in Calls PROVE CallInv(c)'
  BY CallStays DEF WiresInv
<1> QED
  BY <1>1, <1>2 DEF WiresInv

LEMMA WiresKeep ==
    ASSUME WiresInv, Wires!WireNext \/ UNCHANGED wireVars
    PROVE  WiresInv'
<1>1. CASE Wires!Serve \/ Wires!Dial \/ Wires!FrontendEnds \/ Wires!Return \/ UNCHANGED wireVars
  BY <1>1, ConnectionKeeps DEF Wires!Serve, Wires!Dial, Wires!FrontendEnds, Wires!Return, wireVars, Wires!stream
<1>2. CASE Wires!CalleeDies
  BY <1>2, CalleeDiesKeeps
<1>3. ASSUME NEW c \in Calls, Wires!CallNext(c)
      PROVE  WiresInv'
  BY <1>3, AskKeeps, BeginKeeps, WorkKeeps, ReplyKeeps, PrintLineKeeps, SendResultKeeps, RecvLineKeeps, SeenKeeps
     DEF Wires!CallNext
<1> QED
  BY <1>1, <1>2, <1>3 DEF Wires!WireNext

LEMMA WiresAnswer ==
    ASSUME WiresInv
    PROVE  Wires!AnswersTrue
  BY DEF WiresInv, CallInv, Wires!AnswersTrue

-----------------------------------------------------------------------------
(* Paths, mount points and the files of a plugin. *)

\* A path below a mount point is that and a path of its own.
LEMMA BelowSplits ==
    ASSUME NEW m \in Seq(STRING), NEW p \in Seq(STRING), Trees!IsStrictPrefix(m, p)
    PROVE  LET own == SubSeq(p, Len(m) + 1, Len(p))
           IN  own \in Seq(STRING) /\ own # <<>> /\ p = m \o own
<1> DEFINE own == SubSeq(p, Len(m) + 1, Len(p))
<1>1. Len(m) \in Nat /\ Len(p) \in Nat /\ Len(m) <= Len(p) /\ m # p
      /\ SubSeq(m, 1, Len(m)) = SubSeq(p, 1, Len(m))
  BY DEF Trees!IsStrictPrefix, Trees!IsPrefix
<1>2. \A i \in 1..Len(m) : m[i] = p[i]
  <2>1. \A i \in 1..Len(m) : SubSeq(m, 1, Len(m))[i] = m[i] /\ SubSeq(p, 1, Len(m))[i] = p[i]
    BY <1>1
  <2> QED
    BY <1>1, <2>1
<1>3. Len(m) # Len(p)
  BY <1>1, <1>2
<1>4. own \in Seq(STRING) /\ Len(own) = Len(p) - Len(m) /\ \A i \in 1..Len(own) : own[i] = p[Len(m) + i]
  BY <1>1
<1>5. Len(m \o own) = Len(p) /\ m \o own \in Seq(STRING)
  BY <1>1, <1>4
<1>6. \A i \in 1..Len(p) : (m \o own)[i] = p[i]
  <2> HIDE DEF own
  <2> QED
    BY <1>1, <1>2, <1>4, <1>5
<1>7. p = m \o own
  BY <1>5, <1>6
<1>8. own # <<>>
  <2>1. Len(own) > 0
    BY <1>1, <1>3, <1>4
  <2> HIDE DEF own
  <2> QED
    BY <2>1
<1> QED
  BY <1>4, <1>7, <1>8

LEMMA JoinedIsBelow ==
    ASSUME NEW m \in Seq(STRING), NEW q \in Seq(STRING), q # <<>>
    PROVE  /\ Trees!IsStrictPrefix(m, m \o q) /\ m \o q \in Seq(STRING) /\ m \o q # <<>>
           /\ SubSeq(m \o q, Len(m) + 1, Len(m \o q)) = q
<1>1. Len(m) \in Nat /\ Len(q) \in Nat /\ Len(q) > 0 /\ Len(m \o q) = Len(m) + Len(q) /\ m \o q \in Seq(STRING)
  OBVIOUS
<1>2. SubSeq(m, 1, Len(m)) = SubSeq(m \o q, 1, Len(m))
  <2>1. \A i \in 1..Len(m) : SubSeq(m, 1, Len(m))[i] = m[i] /\ SubSeq(m \o q, 1, Len(m))[i] = m[i]
    BY <1>1
  <2>2. Len(SubSeq(m, 1, Len(m))) = Len(m) /\ Len(SubSeq(m \o q, 1, Len(m))) = Len(m)
    BY <1>1
  <2>3. SubSeq(m, 1, Len(m)) \in Seq(STRING) /\ SubSeq(m \o q, 1, Len(m)) \in Seq(STRING)
    BY <1>1
  <2> QED
    BY <2>1, <2>2, <2>3
<1>3. m # m \o q
  BY <1>1
<1>4. SubSeq(m \o q, Len(m) + 1, Len(m \o q)) = q
  <2> DEFINE t == SubSeq(m \o q, Len(m) + 1, Len(m \o q))
  <2>1. t \in Seq(STRING) /\ Len(t) = Len(q)
    BY <1>1
  <2>2. \A i \in 1..Len(q) : t[i] = q[i]
    BY <1>1
  <2> QED
    BY <2>1, <2>2
<1> QED
  BY <1>1, <1>2, <1>3, <1>4 DEF Trees!IsStrictPrefix, Trees!IsPrefix

\* Of two mount points above a path one is above the other.
LEMMA PrefixesNest ==
    ASSUME NEW m \in Seq(STRING), NEW n \in Seq(STRING), NEW p \in Seq(STRING),
           Trees!IsStrictPrefix(m, p), Trees!IsStrictPrefix(n, p), Len(m) <= Len(n)
    PROVE  Trees!IsPrefix(m, n)
<1>1. /\ Len(m) \in Nat /\ Len(n) \in Nat /\ Len(p) \in Nat /\ Len(n) <= Len(p)
      /\ SubSeq(m, 1, Len(m)) = SubSeq(p, 1, Len(m)) /\ SubSeq(n, 1, Len(n)) = SubSeq(p, 1, Len(n))
  BY DEF Trees!IsStrictPrefix, Trees!IsPrefix
<1>2. \A i \in 1..Len(n) : SubSeq(n, 1, Len(n))[i] = n[i] /\ SubSeq(p, 1, Len(n))[i] = p[i]
  BY <1>1
<1>3. SubSeq(p, 1, Len(m)) = SubSeq(n, 1, Len(m))
  <2>1. \A i \in 1..Len(m) : SubSeq(p, 1, Len(m))[i] = p[i] /\ SubSeq(n, 1, Len(m))[i] = n[i] /\ n[i] = p[i]
    BY <1>1, <1>2
  <2>2. /\ SubSeq(p, 1, Len(m)) \in Seq(STRING) /\ Len(SubSeq(p, 1, Len(m))) = Len(m)
        /\ SubSeq(n, 1, Len(m)) \in Seq(STRING) /\ Len(SubSeq(n, 1, Len(m))) = Len(m)
    BY <1>1
  <2> QED
    BY <2>1, <2>2
<1> QED
  BY <1>1, <1>3 DEF Trees!IsPrefix


-----------------------------------------------------------------------------
(* The files of a directory. *)

\* Of every path the file that is the last to name it among the first k.
Merged(dir, k, g) == [n \in 0..k |-> IF n = 0 THEN <<>> ELSE Trees!Overlay(Trees!Entries(dir[n]), g[n - 1])]

LastOf(dir, k, f) ==
    \A p \in DOMAIN f : \E i \in 1..k :
        /\ \E n \in Trees!Leaves(dir[i]) : n.path = p /\ n = f[p]
        /\ \A later \in i + 1..k : \A n \in Trees!Leaves(dir[later]) : n.path # p

LEMMA MergedExists ==
    ASSUME NEW dir, NEW k \in Nat
    PROVE  \E g : g = Merged(dir, k, g)
<1> DEFINE T == {n \in Nat : ~\E g : g = Merged(dir, n, g)}
<1>1. ASSUME T # {}
      PROVE  FALSE
  <2>1. PICK n \in T : \A m \in T : n <= m
    BY <1>1, LeastNumber
  <2>2. n # 0
    <3>1. Merged(dir, 0, [i \in 0..0 |-> <<>>]) = [i \in 0..0 |-> <<>>]
      BY DEF Merged
    <3> QED
      BY <3>1
  <2>3. n - 1 \in Nat /\ n - 1 \notin T
    BY <2>1, <2>2
  <2>4. PICK g : g = Merged(dir, n - 1, g)
    BY <2>3
  <2> DEFINE h == [i \in 0..n |-> IF i = n THEN Trees!Overlay(Trees!Entries(dir[n]), g[n - 1]) ELSE g[i]]
  <2>5. \A i \in 0..n - 1 : g[i] = IF i = 0 THEN <<>> ELSE Trees!Overlay(Trees!Entries(dir[i]), g[i - 1])
    BY <2>3, <2>4 DEF Merged
  <2>6. \A i \in 0..n : h[i] = IF i = 0 THEN <<>> ELSE Trees!Overlay(Trees!Entries(dir[i]), h[i - 1])
    <3> SUFFICES ASSUME NEW i \in 0..n
                 PROVE  h[i] = IF i = 0 THEN <<>> ELSE Trees!Overlay(Trees!Entries(dir[i]), h[i - 1])
      OBVIOUS
    <3>1. CASE i = n
      <4>1. h[i] = Trees!Overlay(Trees!Entries(dir[n]), g[n - 1]) /\ h[i - 1] = g[n - 1]
        BY <2>2, <3>1
      <4> HIDE DEF h
      <4> QED
        BY <2>2, <3>1, <4>1
    <3>2. CASE i # n /\ i # 0
      <4>1. h[i] = g[i] /\ h[i - 1] = g[i - 1] /\ i \in 0..n - 1
        BY <3>2
      <4> HIDE DEF h
      <4> QED
        BY <2>5, <3>2, <4>1
    <3>3. CASE i = 0
      <4>1. h[i] = g[i] /\ i \in 0..n - 1
        BY <2>2, <3>3
      <4> HIDE DEF h
      <4> QED
        BY <2>5, <3>3, <4>1
    <3> QED
      BY <3>1, <3>2, <3>3
  <2>7. h = Merged(dir, n, h)
    BY <2>6 DEF Merged
  <2> QED
    BY <2>7
<1> QED
  BY <1>1

LEMMA EntriesAre ==
    ASSUME NEW nodes
    PROVE  /\ DOMAIN Trees!Entries(nodes) = {n.path : n \in Trees!Leaves(nodes)}
           /\ \A p \in DOMAIN Trees!Entries(nodes) :
                 Trees!Entries(nodes)[p] \in Trees!Leaves(nodes) /\ Trees!Entries(nodes)[p].path = p
  BY DEF Trees!Entries

\* "If the same path appears in multiple files the last nodes (by name sort
\* order) wins" (parse.go): so it does, however many files there are.
LEMMA LoadDirTakesLast ==
    ASSUME NEW dir, Len(dir) \in Nat
    PROVE  LastOf(dir, Len(dir), Trees!LoadDir(dir))
<1> DEFINE g == CHOOSE g : g = Merged(dir, Len(dir), g)
<1>1. g = Merged(dir, Len(dir), g)
  BY MergedExists
<1>2. Trees!LoadDir(dir) = g[Len(dir)]
  BY DEF Trees!LoadDir, Merged
<1> HIDE DEF g
<1>3. \A n \in 0..Len(dir) : g[n] = IF n = 0 THEN <<>> ELSE Trees!Overlay(Trees!Entries(dir[n]), g[n - 1])
  BY <1>1 DEF Merged
<1> DEFINE T == {n \in 0..Len(dir) : ~LastOf(dir, n, g[n])}
<1>4. ASSUME T # {}
      PROVE  FALSE
  <2>1. PICK n \in T : \A m \in T : n <= m
    <3>1. T \in SUBSET Nat
      OBVIOUS
    <3> HIDE DEF T
    <3> QED
      BY <1>4, <3>1, LeastNumber
  <2>2. n # 0
    <3>1. g[0] = <<>>
      BY <1>3
    <3>2. DOMAIN g[0] = {}
      BY <3>1
    <3> QED
      BY <3>2 DEF LastOf
  <2>3. n - 1 \in 0..Len(dir) /\ LastOf(dir, n - 1, g[n - 1]) /\ g[n] = Trees!Overlay(Trees!Entries(dir[n]), g[n - 1])
    BY <1>3, <2>1, <2>2
  <2> HIDE DEF T
  <2>4. n \in 1..Len(dir)
    BY <2>2 DEF T
  <2>5. LastOf(dir, n, g[n])
    <3> DEFINE f == Trees!Entries(dir[n])
    <3>1. /\ DOMAIN g[n] = DOMAIN f \cup DOMAIN g[n - 1]
          /\ \A p \in DOMAIN g[n] : g[n][p] = IF p \in DOMAIN f THEN f[p] ELSE g[n - 1][p]
      BY <2>3 DEF Trees!Overlay
    <3>2. /\ DOMAIN f = {l.path : l \in Trees!Leaves(dir[n])}
          /\ \A p \in DOMAIN f : f[p] \in Trees!Leaves(dir[n]) /\ f[p].path = p
      BY EntriesAre
    <3> HIDE DEF f
    <3> SUFFICES ASSUME NEW p \in DOMAIN g[n]
                 PROVE  \E i \in 1..n :
                            /\ \E l \in Trees!Leaves(dir[i]) : l.path = p /\ l = g[n][p]
                            /\ \A later \in i + 1..n : \A l \in Trees!Leaves(dir[later]) : l.path # p
      BY DEF LastOf
    <3>3. CASE p \in DOMAIN f
      BY <2>4, <3>1, <3>2, <3>3
    <3>4. CASE p \notin DOMAIN f
      <4>1. PICK i \in 1..n - 1 :
               /\ \E l \in Trees!Leaves(dir[i]) : l.path = p /\ l = g[n - 1][p]
               /\ \A later \in i + 1..n - 1 : \A l \in Trees!Leaves(dir[later]) : l.path # p
        BY <2>3, <3>1, <3>4 DEF LastOf
      <4>2. \A later \in i + 1..n : later \in i + 1..n - 1 \/ later = n
        BY <2>4
      <4>3. \A l \in Trees!Leaves(dir[n]) : l.path # p
        BY <3>2, <3>4
      <4>4. i \in 1..n /\ g[n][p] = g[n - 1][p]
        BY <2>4, <3>1, <3>4
      <4> QED
        BY <4>1, <4>2, <4>3, <4>4
    <3> QED
      BY <3>3, <3>4
  <2> QED
    BY <2>5 DEF T
<1>5. Len(dir) \in 0..Len(dir)
  OBVIOUS
<1> QED
  BY <1>2, <1>4, <1>5


ListedPaths == UNION {Trees!Listed(i) : i \in DOMAIN mounts}

\* The mount points are paths that do not lie in each other, and the plugins
\* have paths below them.
MountsTrue ==
    /\ mounts \in Mounts /\ DOMAIN plugins = DOMAIN mounts /\ plugins = [i \in DOMAIN mounts |-> plugins[i]]
    /\ calls \in Nat
    /\ started => Trees!Mountable(mounts)
    /\ \A i \in DOMAIN mounts : \A p \in DOMAIN plugins[i] : p \in Seq(STRING) /\ p # <<>>
    /\ started /\ calls = 0 => \A i \in DOMAIN mounts :
          /\ dirs[i] \in Directories
          /\ plugins[i] = Trees!Loaded(dirs[i])

\* What was set is what the plugins have, each at its own paths.
ToldTrue ==
    /\ told = [p \in DOMAIN told |-> told[p]] /\ DOMAIN told = ListedPaths
    /\ \A i \in DOMAIN mounts : \A p \in DOMAIN plugins[i] : told[mounts[i] \o p] = plugins[i][p].val

TreeTrue ==
    /\ tree = [p \in DOMAIN tree |-> tree[p]]
    /\ \A p \in DOMAIN tree : Trees!ValidatePath(p) /\ tree[p] \in Val
    /\ DOMAIN treeLock = {"readers", "waits"}
    /\ treeLock.readers \subseteq Caller /\ treeLock.waits \in Caller \cup {Absent}

JobFields == {"kind", "left", "have", "at", "copy", "quiet"}

JobShape(c) ==
    /\ DOMAIN job[c] = JobFields
    /\ job[c].kind \in {"idle", "list", "get", "loaded", "failed", "judge",
                        "judged", "hold", "together", "set", "write"}

\* Half of a load has the paths and values it has been to.
LoadTrue(c) ==
    /\ job[c].kind \in {"list", "get", "loaded"} => job[c].have = [p \in DOMAIN job[c].have |-> job[c].have[p]]
    /\ job[c].kind = "list" => job[c].left \subseteq DOMAIN mounts
    /\ job[c].kind = "list" /\ job[c].quiet =>
          DOMAIN job[c].have = UNION {Trees!Listed(i) : i \in DOMAIN mounts \ job[c].left}
    /\ job[c].kind = "get" /\ job[c].quiet =>
          /\ DOMAIN job[c].have = DOMAIN told
          /\ \A p \in DOMAIN told \ job[c].left : job[c].have[p] = told[p]
    /\ job[c].kind = "loaded" /\ job[c].quiet => job[c].have = told

\* Half of a judgement is about the tree that is there, and its copy is part
\* of it; who holds the tree reads it.
JudgeTrue(c) ==
    /\ \/ job[c].kind = "hold"
       \/ job[c].kind \in {"judge", "judged", "together"} /\ job[c].quiet
       => \A p \in DOMAIN job[c].have : job[c].have[p] = Trees!Validate(p, tree)
    /\ job[c].kind = "judge" /\ job[c].at # Absent =>
          /\ job[c].copy = [p \in DOMAIN job[c].copy |-> job[c].copy[p]]
          /\ job[c].quiet => \A p \in DOMAIN job[c].copy : p \in DOMAIN tree /\ job[c].copy[p] = tree[p]
    /\ job[c].kind = "hold" => c \in treeLock.readers

\* What is about to be set is a path with a value.
SetTrue(c) ==
    job[c].kind \in {"set", "write"} =>
        /\ job[c].have = [p \in DOMAIN job[c].have |-> job[c].have[p]]
        /\ \A p \in DOMAIN job[c].have : Trees!ValidatePath(p) /\ job[c].have[p] \in Val

JobsTrue ==
    /\ DOMAIN job = Caller
    /\ \A c \in Caller : JobShape(c) /\ LoadTrue(c) /\ JudgeTrue(c) /\ SetTrue(c)
    /\ ~started => \A c \in Caller : job[c].kind = "idle"

TreesInv == MountsTrue /\ ToldTrue /\ TreeTrue /\ JobsTrue


-----------------------------------------------------------------------------
(* Mounted plugins. *)

LEMMA MountPoint ==
    ASSUME mounts \in Mounts, NEW i \in DOMAIN mounts
    PROVE  mounts[i] \in Seq(STRING) /\ DOMAIN mounts = 1..Len(mounts) /\ Len(mounts) \in Nat
  BY TreesAssumption

LEMMA UnderOne ==
    ASSUME mounts \in Mounts, Trees!Mountable(mounts), NEW p \in Seq(STRING),
           NEW i \in DOMAIN mounts, NEW j \in DOMAIN mounts, Trees!Under(i, p), Trees!Under(j, p)
    PROVE  i = j
<1>1. mounts[i] \in Seq(STRING) /\ mounts[j] \in Seq(STRING)
  BY MountPoint
<1>2. Len(mounts[i]) \in Nat /\ Len(mounts[j]) \in Nat
  BY <1>1
<1>3. CASE Len(mounts[i]) <= Len(mounts[j])
  BY <1>1, <1>3, PrefixesNest DEF Trees!Under, Trees!Mountable
<1>4. CASE Len(mounts[j]) <= Len(mounts[i])
  BY <1>1, <1>4, PrefixesNest DEF Trees!Under, Trees!Mountable
<1> QED
  BY <1>2, <1>3, <1>4

\* A path of a plugin is that plugin's alone.
LEMMA OwnPath ==
    ASSUME mounts \in Mounts, Trees!Mountable(mounts), NEW i \in DOMAIN mounts, NEW q \in Seq(STRING), q # <<>>
    PROVE  /\ mounts[i] \o q \in Seq(STRING) /\ mounts[i] \o q # <<>>
           /\ Trees!Child(mounts[i] \o q) = {i} /\ Trees!Relative(i, mounts[i] \o q) = q
<1> DEFINE p == mounts[i] \o q
<1>1. mounts[i] \in Seq(STRING) /\ DOMAIN mounts = 1..Len(mounts) /\ Len(mounts) \in Nat
  BY MountPoint
<1>2. Trees!IsStrictPrefix(mounts[i], p) /\ p \in Seq(STRING) /\ p # <<>> /\ SubSeq(p, Len(mounts[i]) + 1, Len(p)) = q
  BY <1>1, JoinedIsBelow
<1> HIDE DEF p
<1>3. Trees!Under(i, p) /\ \A j \in DOMAIN mounts : Trees!Under(j, p) => j = i
  BY <1>2, UnderOne DEF Trees!Under
<1>4. Trees!Child(p) = {i}
  BY <1>1, <1>3 DEF Trees!Child
<1> QED
  BY <1>2, <1>4 DEF Trees!Relative, p

LEMMA ChildSplits ==
    ASSUME mounts \in Mounts, NEW p \in Seq(STRING), NEW i \in Trees!Child(p)
    PROVE  /\ i \in DOMAIN mounts /\ Trees!Relative(i, p) \in Seq(STRING) /\ Trees!Relative(i, p) # <<>>
           /\ p = mounts[i] \o Trees!Relative(i, p)
<1>1. i \in DOMAIN mounts /\ Trees!IsStrictPrefix(mounts[i], p)
  BY DEF Trees!Child, Trees!Under
<1> QED
  BY <1>1, MountPoint, BelowSplits DEF Trees!Relative

LEMMA ListedFrom ==
    ASSUME NEW p \in ListedPaths
    PROVE  \E i \in DOMAIN mounts : \E q \in DOMAIN plugins[i] : p = mounts[i] \o q
  BY DEF ListedPaths, Trees!Listed

LEMMA ListedOf ==
    ASSUME NEW i \in DOMAIN mounts, NEW q \in DOMAIN plugins[i]
    PROVE  mounts[i] \o q \in ListedPaths
  BY DEF ListedPaths, Trees!Listed

\* What is listed is found, with what it was set to last.
LEMMA GetsTold ==
    ASSUME MountsTrue, ToldTrue, started, NEW p \in DOMAIN told
    PROVE  Trees!Gets(p) = {told[p]}
<1>1. PICK i \in DOMAIN mounts : \E q \in DOMAIN plugins[i] : p = mounts[i] \o q
  BY ListedFrom DEF ToldTrue
<1>2. PICK q \in DOMAIN plugins[i] : p = mounts[i] \o q
  BY <1>1
<1>3. mounts \in Mounts /\ Trees!Mountable(mounts) /\ q \in Seq(STRING) /\ q # <<>>
  BY DEF MountsTrue
<1>4. Trees!Child(p) = {i} /\ Trees!Relative(i, p) = q
  BY <1>2, <1>3, OwnPath
<1>5. told[p] = plugins[i][q].val
  BY <1>2 DEF ToldTrue
<1> QED
  BY <1>4, <1>5 DEF Trees!Gets

-----------------------------------------------------------------------------
(* The start. *)

\* What LoadDir has is a leaf of one of the files.
LEMMA LoadDirLeaf ==
    ASSUME NEW dir \in Directories, NEW p \in DOMAIN Trees!LoadDir(dir)
    PROVE  \E k \in DOMAIN dir :
              /\ Trees!LoadDir(dir)[p] \in Trees!Leaves(dir[k]) /\ Trees!LoadDir(dir)[p].path = p
              /\ p \in Seq(STRING) /\ Trees!LoadDir(dir)[p].val \in Val
              /\ ~\E later \in k + 1..Len(dir) : \E n \in Trees!Leaves(dir[later]) : n.path = p
<1>1. DOMAIN dir = 1..Len(dir) /\ Len(dir) \in Nat
  BY TreesAssumption
<1>2. PICK k \in 1..Len(dir) :
         /\ \E n \in Trees!Leaves(dir[k]) : n.path = p /\ n = Trees!LoadDir(dir)[p]
         /\ \A later \in k + 1..Len(dir) : \A n \in Trees!Leaves(dir[later]) : n.path # p
  BY <1>1, LoadDirTakesLast DEF LastOf
<1>3. Trees!LoadDir(dir)[p] \in dir[k]
  BY <1>2 DEF Trees!Leaves
<1>4. Trees!LoadDir(dir)[p].path \in Seq(STRING) /\ Trees!LoadDir(dir)[p].val \in Val
  BY <1>1, <1>3, TreesAssumption
<1> QED
  BY <1>1, <1>2, <1>4

LEMMA LoadedIs ==
    ASSUME NEW dir
    PROVE  /\ DOMAIN Trees!Loaded(dir) = DOMAIN Trees!LoadDir(dir)
           /\ \A p \in DOMAIN Trees!Loaded(dir) : Trees!Loaded(dir)[p].val = Trees!LoadDir(dir)[p].val
  BY DEF Trees!Loaded

LEMMA TreesBegin ==
    ASSUME Trees!Init
    PROVE  TreesInv
<1>1. /\ mounts \in Mounts /\ dirs \in [DOMAIN mounts -> Directories] /\ calls = 0
      /\ started = (Trees!Mountable(mounts) /\ \A i \in DOMAIN mounts : Trees!Loads(dirs[i]))
      /\ plugins = [i \in DOMAIN mounts |-> IF started THEN Trees!Loaded(dirs[i]) ELSE <<>>]
      /\ told = [p \in ListedPaths |-> CHOOSE v \in Val : \E i \in DOMAIN mounts :
                    p \in Trees!Listed(i) /\ v = plugins[i][Trees!Relative(i, p)].val]
      /\ tree = (IF \A p \in DOMAIN told : Trees!ValidatePath(p) THEN told ELSE <<>>)
      /\ treeLock = [readers |-> {}, waits |-> Absent]
      /\ job = [c \in Caller |-> Trees!Idle]
  BY DEF Trees!Init, ListedPaths
<1>2. ~started => \A i \in DOMAIN mounts : DOMAIN plugins[i] = {}
  BY <1>1
<1>3. ASSUME started, NEW i \in DOMAIN mounts, NEW q \in DOMAIN plugins[i]
      PROVE  q \in Seq(STRING) /\ q # <<>> /\ plugins[i][q].val \in Val
  <2>1. dirs[i] \in Directories /\ plugins[i] = Trees!Loaded(dirs[i]) /\ Trees!Loads(dirs[i])
    BY <1>1, <1>3
  <2>2. q \in DOMAIN Trees!LoadDir(dirs[i]) /\ plugins[i][q].val = Trees!LoadDir(dirs[i])[q].val
    BY <2>1, <1>3, LoadedIs
  <2>3. PICK k \in DOMAIN dirs[i] :
           /\ Trees!LoadDir(dirs[i])[q] \in Trees!Leaves(dirs[i][k]) /\ Trees!LoadDir(dirs[i])[q].path = q
           /\ q \in Seq(STRING) /\ Trees!LoadDir(dirs[i])[q].val \in Val
    BY <2>1, <2>2, LoadDirLeaf
  <2>4. Trees!ValidatePath(q)
    BY <2>1, <2>3 DEF Trees!Loads
  <2> QED
    BY <2>2, <2>3, <2>4 DEF Trees!ValidatePath
<1>4. MountsTrue
  BY <1>1, <1>2, <1>3 DEF MountsTrue
<1>5. ASSUME NEW i \in DOMAIN mounts, NEW q \in DOMAIN plugins[i]
      PROVE  told[mounts[i] \o q] = plugins[i][q].val /\ told[mounts[i] \o q] \in Val
  <2> DEFINE p == mounts[i] \o q
  <2>1. started
    BY <1>2, <1>5
  <2>2. plugins[i][q].val \in Val /\ q \in Seq(STRING) /\ q # <<>> /\ Trees!Mountable(mounts)
    BY <1>1, <1>3, <2>1
  <2>3. p \in ListedPaths /\ p \in Trees!Listed(i)
    BY ListedOf DEF Trees!Listed
  <2>4. p \in Seq(STRING) /\ Trees!Child(p) = {i} /\ Trees!Relative(i, p) = q
    BY <1>1, <2>2, OwnPath
  <2> HIDE DEF p
  <2>5. ASSUME NEW j \in DOMAIN mounts, p \in Trees!Listed(j)
        PROVE  j = i
    <3>1. PICK r \in DOMAIN plugins[j] : p = mounts[j] \o r
      BY <2>5 DEF Trees!Listed
    <3>2. Trees!Child(p) = {j}
      BY <1>1, <1>3, <2>1, <2>2, <3>1, OwnPath
    <3> QED
      BY <2>4, <3>2
  <2>6. told[p] = CHOOSE v \in Val : \E j \in DOMAIN mounts :
                     p \in Trees!Listed(j) /\ v = plugins[j][Trees!Relative(j, p)].val
    BY <1>1, <2>3
  <2>7. told[p] = plugins[i][q].val
    BY <2>2, <2>3, <2>4, <2>5, <2>6
  <2> QED
    BY <2>2, <2>7 DEF p
<1>6. told = [p \in DOMAIN told |-> told[p]] /\ DOMAIN told = ListedPaths
  <2>1. told = [p \in ListedPaths |-> told[p]]
    BY <1>1
  <2> QED
    BY <2>1
<1>7. ToldTrue
  BY <1>5, <1>6 DEF ToldTrue
<1>8. TreeTrue
  <2>1. \A p \in DOMAIN told : told[p] \in Val
    BY <1>5, <1>6, ListedFrom
  <2>2. tree = IF \A p \in DOMAIN told : Trees!ValidatePath(p) THEN told ELSE <<>>
    BY <1>1
  <2>3. tree = [p \in DOMAIN tree |-> tree[p]] /\ \A p \in DOMAIN tree : Trees!ValidatePath(p) /\ tree[p] \in Val
    <3>1. CASE \A p \in DOMAIN told : Trees!ValidatePath(p)
      <4>1. tree = told
        BY <2>2, <3>1
      <4> QED
        BY <1>6, <2>1, <3>1, <4>1
    <3>2. CASE ~\A p \in DOMAIN told : Trees!ValidatePath(p)
      <4>1. tree = <<>>
        BY <2>2, <3>2
      <4>2. DOMAIN tree = {} /\ tree = [p \in {} |-> tree[p]]
        BY <4>1
      <4> QED
        BY <4>2
    <3> QED
      BY <3>1, <3>2
  <2> QED
    BY <1>1, <2>3 DEF TreeTrue
<1>9. JobsTrue
  <2>1. DOMAIN job = Caller
    BY <1>1
  <2>2. ASSUME NEW c \in Caller
        PROVE  JobShape(c) /\ job[c].kind = "idle"
    BY <1>1 DEF JobShape, JobFields, Trees!Idle
  <2>3. \A c \in Caller : LoadTrue(c) /\ JudgeTrue(c) /\ SetTrue(c)
    BY <2>2 DEF LoadTrue, JudgeTrue, SetTrue
  <2> QED
    BY <2>1, <2>2, <2>3 DEF JobsTrue
<1> QED
  BY <1>4, <1>7, <1>8, <1>9 DEF TreesInv


-----------------------------------------------------------------------------
(* The steps. *)

places == <<mounts, dirs, started, plugins, told>>

LEMMA PlacesStay ==
    ASSUME MountsTrue, ToldTrue, UNCHANGED places, calls' = calls \/ calls' = calls + 1
    PROVE  MountsTrue' /\ ToldTrue'
<1>1. UNCHANGED <<mounts, dirs, started, plugins, told>>
  BY DEF places
<1>2. calls' \in Nat /\ (calls' = 0 => calls = 0)
  BY DEF MountsTrue
<1>3. MountsTrue'
  <2>1. Trees!Mountable(mounts)' = Trees!Mountable(mounts)
    BY <1>1 DEF Trees!Mountable
  <2>2. \A i \in DOMAIN mounts : Trees!Loaded(dirs[i])' = Trees!Loaded(dirs[i])
    BY <1>1
  <2> QED
    BY <1>1, <1>2, <2>1, <2>2 DEF MountsTrue
<1>4. ListedPaths' = ListedPaths
  BY <1>1 DEF ListedPaths, Trees!Listed
<1>5. ToldTrue'
  BY <1>1, <1>4 DEF ToldTrue
<1> QED
  BY <1>3, <1>5

\* A job that a step leaves alone, with the tree and the plugins.
LEMMA JobStays ==
    ASSUME NEW c \in Caller, JobShape(c), LoadTrue(c), JudgeTrue(c), SetTrue(c),
           job'[c] = job[c], UNCHANGED places, tree' = tree,
           job[c].kind = "hold" => c \in treeLock'.readers
    PROVE  JobShape(c)' /\ LoadTrue(c)' /\ JudgeTrue(c)' /\ SetTrue(c)'
<1>1. UNCHANGED <<mounts, dirs, started, plugins, told>>
  BY DEF places
<1>2. JobShape(c)'
  BY DEF JobShape
<1>3. LoadTrue(c)'
  <2>1. \A i \in DOMAIN mounts : Trees!Listed(i)' = Trees!Listed(i)
    BY <1>1 DEF Trees!Listed
  <2> QED
    BY <1>1, <2>1 DEF LoadTrue
<1>4. JudgeTrue(c)'
  <2>1. \A p : Trees!Validate(p, tree)' = Trees!Validate(p, tree)
    BY <1>1 DEF Trees!Validate, Trees!Child, Trees!Under, Trees!Relative, Trees!PrefixedTree
  <2> QED
    BY <1>1, <2>1 DEF JudgeTrue
<1>5. SetTrue(c)'
  BY DEF SetTrue
<1> QED
  BY <1>2, <1>3, <1>4, <1>5

\* The same where only one caller's job goes on.
LEMMA OneJobGoesOn ==
    ASSUME TreesInv, NEW c \in Caller, started, UNCHANGED places, tree' = tree, calls' = calls \/ calls' = calls + 1,
           DOMAIN job' = Caller, \A d \in Caller \ {c} : job'[d] = job[d],
           DOMAIN treeLock' = {"readers", "waits"}, treeLock'.readers \subseteq Caller,
           treeLock'.waits \in Caller \cup {Absent},
           \A d \in Caller \ {c} : d \in treeLock.readers => d \in treeLock'.readers,
           JobShape(c)', LoadTrue(c)', JudgeTrue(c)', SetTrue(c)'
    PROVE  TreesInv'
<1>1. MountsTrue' /\ ToldTrue'
  BY PlacesStay DEF TreesInv
<1>2. TreeTrue'
  <2>1. TreeTrue
    BY DEF TreesInv
  <2> QED
    BY <2>1 DEF TreeTrue, Trees!ValidatePath
<1>3. ASSUME NEW d \in Caller
      PROVE  JobShape(d)' /\ LoadTrue(d)' /\ JudgeTrue(d)' /\ SetTrue(d)'
  <2>1. CASE d = c
    BY <2>1
  <2>2. CASE d # c
    <3>1. JobShape(d) /\ LoadTrue(d) /\ JudgeTrue(d) /\ SetTrue(d)
      BY DEF TreesInv, JobsTrue
    <3>2. job[d].kind = "hold" => d \in treeLock'.readers
      BY <2>2, <3>1 DEF JudgeTrue
    <3> QED
      BY <2>2, <3>1, <3>2, JobStays
  <2> QED
    BY <2>1, <2>2
<1>4. JobsTrue'
  BY <1>3 DEF JobsTrue, places
<1> QED
  BY <1>1, <1>2, <1>4 DEF TreesInv

\* A job that is under way has its shape, and there are plugins.
LEMMA JobIs ==
    ASSUME TreesInv, NEW c \in Caller
    PROVE  /\ JobShape(c) /\ LoadTrue(c) /\ JudgeTrue(c) /\ SetTrue(c)
           /\ DOMAIN job = Caller /\ (job[c].kind # "idle" => started)
           /\ DOMAIN treeLock = {"readers", "waits"}
           /\ treeLock.readers \subseteq Caller /\ treeLock.waits \in Caller \cup {Absent}
  BY DEF TreesInv, JobsTrue, TreeTrue

\* A step of one caller's job, with nothing else.
LEMMA JobGoesOn ==
    ASSUME TreesInv, NEW c \in Caller, started, UNCHANGED places, UNCHANGED <<tree, treeLock, calls>>,
           DOMAIN job' = Caller, \A d \in Caller \ {c} : job'[d] = job[d],
           JobShape(c)', LoadTrue(c)', JudgeTrue(c)', SetTrue(c)'
    PROVE  TreesInv'
  BY JobIs, OneJobGoesOn

\* What Begin makes of a caller's job.
LEMMA BegunIs ==
    ASSUME TreesInv, NEW c \in Caller, NEW k, NEW l, Trees!Begin(c, k, l),
           k \in {"list", "judge", "hold"}
    PROVE  /\ started /\ calls' = calls + 1 /\ job[c].kind \in {"idle", "loaded", "failed", "judged", "together"}
           /\ DOMAIN job' = Caller /\ \A d \in Caller \ {c} : job'[d] = job[d]
           /\ JobShape(c)' /\ job'[c].kind = k /\ job'[c].left = l /\ job'[c].have = <<>> /\ job'[c].at = Absent
           /\ job'[c].quiet
<1>1. /\ started /\ calls' = calls + 1 /\ job[c].kind \in {"idle", "loaded", "failed", "judged", "together"}
      /\ job' = [job EXCEPT ![c] = [Trees!Idle EXCEPT !.kind = k, !.left = l]]
  BY DEF Trees!Begin, Trees!Ready
<1>2. DOMAIN job = Caller
  BY JobIs
<1>3. /\ DOMAIN job'[c] = JobFields /\ job'[c].kind = k /\ job'[c].left = l /\ job'[c].have = <<>>
      /\ job'[c].at = Absent /\ job'[c].quiet
  BY <1>1, <1>2 DEF Trees!Idle, JobFields
<1> QED
  BY <1>1, <1>2, <1>3 DEF JobShape

LEMMA EmptyHas ==
    DOMAIN <<>> = {} /\ <<>> = [p \in DOMAIN <<>> |-> <<>>[p]]
  OBVIOUS

LEMMA LoadTreeKeeps ==
    ASSUME TreesInv, NEW c \in Caller, Trees!LoadTree(c)
    PROVE  TreesInv'
<1>1. Trees!Begin(c, "list", DOMAIN mounts) /\ UNCHANGED <<mounts, dirs, started, plugins, tree, treeLock, told>>
  BY DEF Trees!LoadTree
<1>2. /\ started /\ calls' = calls + 1 /\ JobShape(c)'
      /\ DOMAIN job' = Caller /\ \A d \in Caller \ {c} : job'[d] = job[d]
      /\ job'[c].kind = "list" /\ job'[c].left = DOMAIN mounts /\ job'[c].have = <<>> /\ job'[c].at = Absent
  BY <1>1, BegunIs
<1>3. LoadTrue(c)'
  BY <1>1, <1>2, EmptyHas DEF LoadTrue
<1>4. JudgeTrue(c)' /\ SetTrue(c)'
  BY <1>2 DEF JudgeTrue, SetTrue
<1> QED
  BY <1>1, <1>2, <1>3, <1>4, OneJobGoesOn, JobIs DEF places

LEMMA ValidateTreeKeeps ==
    ASSUME TreesInv, NEW c \in Caller, Trees!ValidateTree(c)
    PROVE  TreesInv'
<1>1. Trees!Begin(c, "judge", DOMAIN tree) /\ UNCHANGED <<mounts, dirs, started, plugins, tree, treeLock, told>>
  BY DEF Trees!ValidateTree
<1>2. /\ started /\ calls' = calls + 1 /\ JobShape(c)'
      /\ DOMAIN job' = Caller /\ \A d \in Caller \ {c} : job'[d] = job[d]
      /\ job'[c].kind = "judge" /\ job'[c].have = <<>> /\ job'[c].at = Absent
  BY <1>1, BegunIs
<1>3. JudgeTrue(c)'
  BY <1>2, EmptyHas DEF JudgeTrue
<1>4. LoadTrue(c)' /\ SetTrue(c)'
  BY <1>2 DEF LoadTrue, SetTrue
<1> QED
  BY <1>1, <1>2, <1>3, <1>4, OneJobGoesOn, JobIs DEF places

LEMMA HoldTreeKeeps ==
    ASSUME TreesInv, NEW c \in Caller, Trees!HoldTree(c)
    PROVE  TreesInv'
<1>1. /\ Trees!Begin(c, "hold", DOMAIN tree) /\ UNCHANGED <<mounts, dirs, started, plugins, tree, told>>
      /\ treeLock' = [treeLock EXCEPT !.readers = @ \cup {c}]
  BY DEF Trees!HoldTree
<1>2. /\ started /\ calls' = calls + 1 /\ JobShape(c)'
      /\ DOMAIN job' = Caller /\ \A d \in Caller \ {c} : job'[d] = job[d]
      /\ job'[c].kind = "hold" /\ job'[c].have = <<>> /\ job'[c].at = Absent
  BY <1>1, BegunIs
<1>3. DOMAIN treeLock = {"readers", "waits"} /\ treeLock.readers \subseteq Caller /\ treeLock.waits \in Caller \cup {Absent}
  BY JobIs
<1>4. /\ DOMAIN treeLock' = {"readers", "waits"}
      /\ treeLock'.readers = treeLock.readers \cup {c} /\ treeLock'.waits = treeLock.waits
  BY <1>1, <1>3
<1>5. JudgeTrue(c)'
  BY <1>2, <1>4, EmptyHas DEF JudgeTrue
<1>6. LoadTrue(c)' /\ SetTrue(c)'
  BY <1>2 DEF LoadTrue, SetTrue
<1> QED
  BY <1>1, <1>2, <1>3, <1>4, <1>5, <1>6, OneJobGoesOn DEF places


\* A job that fails, or has nothing more to do.
LEMMA JobEnds ==
    ASSUME TreesInv, NEW c \in Caller, started, UNCHANGED places, UNCHANGED <<tree, treeLock, calls>>,
           job' = [job EXCEPT ![c] = [Trees!Idle EXCEPT !.kind = "failed"]]
    PROVE  TreesInv'
<1>1. DOMAIN job = Caller
  BY JobIs
<1>2. DOMAIN job' = Caller /\ \A d \in Caller \ {c} : job'[d] = job[d]
  BY <1>1
<1>3. DOMAIN job'[c] = JobFields /\ job'[c].kind = "failed"
  BY <1>1 DEF Trees!Idle, JobFields
<1>4. JobShape(c)' /\ LoadTrue(c)' /\ JudgeTrue(c)' /\ SetTrue(c)'
  BY <1>3 DEF JobShape, LoadTrue, JudgeTrue, SetTrue
<1> QED
  BY <1>2, <1>4, JobGoesOn

LEMMA ListChildKeeps ==
    ASSUME TreesInv, NEW c \in Caller, Trees!ListChild(c)
    PROVE  TreesInv'
<1>1. /\ job[c].kind = "list" /\ UNCHANGED places /\ UNCHANGED <<tree, treeLock, calls>>
      /\ \/ \E i \in job[c].left :
              job' = [job EXCEPT ![c].left = @ \ {i},
                                 ![c].have = Trees!Overlay([p \in Trees!Listed(i) |-> Absent], @)]
         \/ job' = [job EXCEPT ![c] = [Trees!Idle EXCEPT !.kind = "failed"]]
  BY DEF Trees!ListChild, places
<1>2. JobShape(c) /\ LoadTrue(c) /\ DOMAIN job = Caller /\ started
  BY <1>1, JobIs
<1>3. ASSUME NEW i \in job[c].left,
             job' = [job EXCEPT ![c].left = @ \ {i},
                                ![c].have = Trees!Overlay([p \in Trees!Listed(i) |-> Absent], @)]
      PROVE  TreesInv'
  <2> DEFINE l == job[c].left \ {i}
             h == Trees!Overlay([p \in Trees!Listed(i) |-> Absent], job[c].have)
  <2>1. job' = [job EXCEPT ![c].left = l, ![c].have = h]
    BY <1>2, <1>3
  <2>2. h = [p \in DOMAIN h |-> h[p]] /\ DOMAIN h = Trees!Listed(i) \cup DOMAIN job[c].have
    BY DEF Trees!Overlay
  <2>3. l \subseteq DOMAIN mounts /\ i \in DOMAIN mounts
    BY <1>1, <1>2 DEF LoadTrue
  <2>4. job[c].quiet => DOMAIN h = UNION {Trees!Listed(d) : d \in DOMAIN mounts \ l}
    <3>1. job[c].quiet => DOMAIN job[c].have = UNION {Trees!Listed(d) : d \in DOMAIN mounts \ job[c].left}
      BY <1>1, <1>2 DEF LoadTrue
    <3>2. DOMAIN mounts \ l = (DOMAIN mounts \ job[c].left) \cup {i}
      BY <2>3
    <3> HIDE DEF l, h
    <3> QED
      BY <2>2, <3>1, <3>2
  <2> HIDE DEF l, h
  <2>5. /\ DOMAIN job' = Caller /\ \A d \in Caller \ {c} : job'[d] = job[d]
        /\ DOMAIN job'[c] = JobFields /\ job'[c].kind = "list" /\ job'[c].left = l /\ job'[c].have = h
        /\ job'[c].quiet = job[c].quiet
    BY <1>1, <1>2, <2>1 DEF JobShape, JobFields
  <2>6. JobShape(c)' /\ JudgeTrue(c)' /\ SetTrue(c)'
    BY <2>5 DEF JobShape, JudgeTrue, SetTrue
  <2>7. mounts' = mounts /\ \A d \in DOMAIN mounts : Trees!Listed(d)' = Trees!Listed(d)
    BY <1>1 DEF Trees!Listed, places
  <2>8. LoadTrue(c)'
    BY <2>2, <2>3, <2>4, <2>5, <2>7 DEF LoadTrue
  <2> QED
    BY <1>1, <1>2, <2>5, <2>6, <2>8, JobGoesOn
<1> QED
  BY <1>1, <1>2, <1>3, JobEnds

LEMMA AllListedKeeps ==
    ASSUME TreesInv, NEW c \in Caller, Trees!AllListed(c)
    PROVE  TreesInv'
<1>1. /\ job[c].kind = "list" /\ job[c].left = {} /\ UNCHANGED places /\ UNCHANGED <<tree, treeLock, calls>>
      /\ job' = [job EXCEPT ![c].kind = "get", ![c].left = DOMAIN job[c].have]
  BY DEF Trees!AllListed, places
<1>2. JobShape(c) /\ LoadTrue(c) /\ DOMAIN job = Caller /\ started
  BY <1>1, JobIs
<1>3. /\ DOMAIN job' = Caller /\ \A d \in Caller \ {c} : job'[d] = job[d]
      /\ DOMAIN job'[c] = JobFields /\ job'[c].kind = "get" /\ job'[c].left = DOMAIN job[c].have
      /\ job'[c].have = job[c].have /\ job'[c].quiet = job[c].quiet
  BY <1>1, <1>2 DEF JobShape, JobFields
<1>4. JobShape(c)' /\ JudgeTrue(c)' /\ SetTrue(c)'
  BY <1>3 DEF JobShape, JudgeTrue, SetTrue
<1>5. job[c].quiet => DOMAIN job[c].have = DOMAIN told
  BY <1>1, <1>2 DEF LoadTrue, TreesInv, ToldTrue, ListedPaths
<1>6. LoadTrue(c)'
  BY <1>1, <1>2, <1>3, <1>5 DEF LoadTrue, places
<1> QED
  BY <1>1, <1>2, <1>3, <1>4, <1>6, JobGoesOn

LEMMA GetPathKeeps ==
    ASSUME TreesInv, NEW c \in Caller, Trees!GetPath(c)
    PROVE  TreesInv'
<1>1. /\ job[c].kind = "get" /\ UNCHANGED places /\ UNCHANGED <<tree, treeLock, calls>>
      /\ \/ job[c].left = {} /\ job' = [job EXCEPT ![c].kind = "loaded"]
         \/ job' = [job EXCEPT ![c] = [Trees!Idle EXCEPT !.kind = "failed"]]
         \/ \E p \in job[c].left :
              job' = [job EXCEPT ![c].left = @ \ {p},
                                 ![c].have = [q \in DOMAIN @ |->
                                     IF q = p THEN CHOOSE v \in Trees!Gets(p) : TRUE ELSE @[q]]]
  BY DEF Trees!GetPath, places
<1>2. JobShape(c) /\ LoadTrue(c) /\ DOMAIN job = Caller /\ started
  BY <1>1, JobIs
<1>3. told' = told
  BY <1>1 DEF places
<1>4. CASE job[c].left = {} /\ job' = [job EXCEPT ![c].kind = "loaded"]
  <2>1. /\ DOMAIN job' = Caller /\ \A d \in Caller \ {c} : job'[d] = job[d]
        /\ DOMAIN job'[c] = JobFields /\ job'[c].kind = "loaded" /\ job'[c].have = job[c].have
        /\ job'[c].quiet = job[c].quiet
    BY <1>2, <1>4 DEF JobShape, JobFields
  <2>2. JobShape(c)' /\ JudgeTrue(c)' /\ SetTrue(c)'
    BY <2>1 DEF JobShape, JudgeTrue, SetTrue
  <2>3. job[c].have = [p \in DOMAIN job[c].have |-> job[c].have[p]]
    BY <1>1, <1>2 DEF LoadTrue
  <2>4. job[c].quiet => job[c].have = told
    <3>1. told = [p \in DOMAIN told |-> told[p]]
      BY DEF TreesInv, ToldTrue
    <3>2. job[c].quiet => DOMAIN job[c].have = DOMAIN told /\ \A p \in DOMAIN told : job[c].have[p] = told[p]
      BY <1>1, <1>2, <1>4 DEF LoadTrue
    <3> QED
      BY <2>3, <3>1, <3>2
  <2>5. LoadTrue(c)'
    BY <1>3, <2>1, <2>3, <2>4 DEF LoadTrue
  <2> QED
    BY <1>1, <1>2, <2>1, <2>2, <2>5, JobGoesOn
<1>5. ASSUME NEW p \in job[c].left,
             job' = [job EXCEPT ![c].left = @ \ {p},
                                ![c].have = [q \in DOMAIN @ |->
                                    IF q = p THEN CHOOSE v \in Trees!Gets(p) : TRUE ELSE @[q]]]
      PROVE  TreesInv'
  <2> DEFINE l == job[c].left \ {p}
             h == [q \in DOMAIN job[c].have |->
                      IF q = p THEN CHOOSE v \in Trees!Gets(p) : TRUE ELSE job[c].have[q]]
  <2>1. job' = [job EXCEPT ![c].left = l, ![c].have = h]
    BY <1>2, <1>5
  <2>2. h = [q \in DOMAIN h |-> h[q]] /\ DOMAIN h = DOMAIN job[c].have
    OBVIOUS
  <2>3. job[c].quiet => \A q \in DOMAIN told \ l : h[q] = told[q]
    <3>1. ASSUME job[c].quiet
          PROVE  DOMAIN job[c].have = DOMAIN told /\ \A q \in DOMAIN told \ job[c].left : job[c].have[q] = told[q]
      BY <1>1, <1>2, <3>1 DEF LoadTrue
    <3>2. ASSUME p \in DOMAIN told
          PROVE  (CHOOSE v \in Trees!Gets(p) : TRUE) = told[p]
      BY <1>2, <3>2, GetsTold DEF TreesInv
    <3> QED
      BY <3>1, <3>2
  <2> HIDE DEF l, h
  <2>4. /\ DOMAIN job' = Caller /\ \A d \in Caller \ {c} : job'[d] = job[d]
        /\ DOMAIN job'[c] = JobFields /\ job'[c].kind = "get" /\ job'[c].left = l /\ job'[c].have = h
        /\ job'[c].quiet = job[c].quiet
    BY <1>1, <1>2, <2>1 DEF JobShape, JobFields
  <2>5. JobShape(c)' /\ JudgeTrue(c)' /\ SetTrue(c)'
    BY <2>4 DEF JobShape, JudgeTrue, SetTrue
  <2>6. job[c].quiet => DOMAIN h = DOMAIN told
    BY <1>1, <1>2, <2>2 DEF LoadTrue
  <2>7. LoadTrue(c)'
    BY <1>3, <2>2, <2>3, <2>4, <2>6 DEF LoadTrue
  <2> QED
    BY <1>1, <1>2, <2>4, <2>5, <2>7, JobGoesOn
<1> QED
  BY <1>1, <1>2, <1>4, <1>5, JobEnds


\* What is found of a tree does not change while the tree and the plugins stay.
LEMMA ValidateStays ==
    ASSUME UNCHANGED places, tree' = tree
    PROVE  \A p : Trees!Validate(p, tree)' = Trees!Validate(p, tree)
  BY DEF places, Trees!Validate, Trees!Child, Trees!Under, Trees!Relative, Trees!PrefixedTree

LEMMA NextPathKeeps ==
    ASSUME TreesInv, NEW c \in Caller, Trees!NextPath(c)
    PROVE  TreesInv'
<1>1. /\ job[c].kind = "judge" /\ UNCHANGED places /\ UNCHANGED <<tree, treeLock, calls>>
      /\ \/ job' = [job EXCEPT ![c].kind = "judged"]
         \/ \E p \in job[c].left : job' = [job EXCEPT ![c].left = @ \ {p}, ![c].at = p, ![c].copy = <<>>]
  BY DEF Trees!NextPath, places
<1>2. JobShape(c) /\ JudgeTrue(c) /\ DOMAIN job = Caller /\ started
  BY <1>1, JobIs
<1> DEFINE After ==
              /\ DOMAIN job' = Caller /\ \A d \in Caller \ {c} : job'[d] = job[d]
              /\ DOMAIN job'[c] = JobFields /\ job'[c].have = job[c].have /\ job'[c].quiet = job[c].quiet
              /\ \/ job'[c].kind = "judged"
                 \/ job'[c].kind = "judge" /\ job'[c].copy = <<>>
<1>3. After
  <2>1. CASE job' = [job EXCEPT ![c].kind = "judged"]
    BY <1>2, <2>1 DEF JobShape, JobFields
  <2>2. ASSUME NEW p \in job[c].left, job' = [job EXCEPT ![c].left = @ \ {p}, ![c].at = p, ![c].copy = <<>>]
        PROVE  After
    BY <1>1, <1>2, <2>2 DEF JobShape, JobFields
  <2> HIDE DEF After
  <2> QED
    BY <1>1, <2>1, <2>2
<1>4. JobShape(c)' /\ LoadTrue(c)' /\ SetTrue(c)'
  BY <1>3 DEF JobShape, LoadTrue, SetTrue
<1>5. JudgeTrue(c)'
  <2>1. job'[c].quiet => \A p \in DOMAIN job'[c].have : job'[c].have[p] = Trees!Validate(p, tree)'
    BY <1>1, <1>2, <1>3, ValidateStays DEF JudgeTrue
  <2>2. CASE job'[c].kind = "judged"
    BY <2>1, <2>2 DEF JudgeTrue
  <2>3. CASE job'[c].kind = "judge" /\ job'[c].copy = <<>>
    BY <2>1, <2>3, EmptyHas DEF JudgeTrue
  <2> QED
    BY <1>3, <2>2, <2>3
<1> QED
  BY <1>1, <1>2, <1>3, <1>4, <1>5, JobGoesOn

LEMMA CopyPathKeeps ==
    ASSUME TreesInv, NEW c \in Caller, Trees!CopyPath(c)
    PROVE  TreesInv'
<1>1. /\ job[c].kind = "judge" /\ job[c].at # Absent /\ UNCHANGED places /\ UNCHANGED <<tree, treeLock, calls>>
      /\ \E p \in DOMAIN tree \ DOMAIN job[c].copy : job' = [job EXCEPT ![c].copy = Trees!Put(@, p, tree[p])]
  BY DEF Trees!CopyPath, places
<1>2. JobShape(c) /\ JudgeTrue(c) /\ DOMAIN job = Caller /\ started
  BY <1>1, JobIs
<1>3. PICK p \in DOMAIN tree : job' = [job EXCEPT ![c].copy = Trees!Put(@, p, tree[p])]
  BY <1>1
<1> DEFINE t == Trees!Put(job[c].copy, p, tree[p])
<1>4. /\ t = [q \in DOMAIN t |-> t[q]] /\ DOMAIN t = DOMAIN job[c].copy \cup {p}
      /\ \A q \in DOMAIN t : t[q] = IF q = p THEN tree[p] ELSE job[c].copy[q]
  BY DEF Trees!Put
<1>5. job' = [job EXCEPT ![c].copy = t]
  BY <1>2, <1>3
<1> HIDE DEF t
<1>6. /\ DOMAIN job' = Caller /\ \A d \in Caller \ {c} : job'[d] = job[d]
      /\ DOMAIN job'[c] = JobFields /\ job'[c].have = job[c].have /\ job'[c].quiet = job[c].quiet
      /\ job'[c].kind = "judge" /\ job'[c].copy = t
  BY <1>1, <1>2, <1>5 DEF JobShape, JobFields
<1>7. JobShape(c)' /\ LoadTrue(c)' /\ SetTrue(c)'
  BY <1>6 DEF JobShape, LoadTrue, SetTrue
<1>8. job[c].quiet => \A q \in DOMAIN t : q \in DOMAIN tree /\ t[q] = tree[q]
  BY <1>1, <1>2, <1>4 DEF JudgeTrue
<1>9. JudgeTrue(c)'
  BY <1>1, <1>2, <1>4, <1>6, <1>8, ValidateStays DEF JudgeTrue
<1> QED
  BY <1>1, <1>2, <1>6, <1>7, <1>9, JobGoesOn

LEMMA JudgePathKeeps ==
    ASSUME TreesInv, NEW c \in Caller, Trees!JudgePath(c)
    PROVE  TreesInv'
<1> DEFINE v == Trees!Validate(job[c].at, job[c].copy)
           h == Trees!Put(job[c].have, job[c].at, v)
<1>1. /\ job[c].kind = "judge" /\ job[c].at # Absent /\ UNCHANGED places /\ UNCHANGED <<tree, treeLock, calls>>
      /\ DOMAIN job[c].copy = DOMAIN tree
      /\ job' = [job EXCEPT ![c].have = Trees!Put(@, job[c].at, v), ![c].at = Absent]
  BY DEF Trees!JudgePath, places
<1>2. JobShape(c) /\ JudgeTrue(c) /\ DOMAIN job = Caller /\ started
  BY <1>1, JobIs
<1>3. job[c].quiet => job[c].copy = tree
  <2>1. job[c].copy = [p \in DOMAIN job[c].copy |-> job[c].copy[p]] /\ tree = [p \in DOMAIN tree |-> tree[p]]
    BY <1>1, <1>2 DEF JudgeTrue, TreesInv, TreeTrue
  <2>2. job[c].quiet => \A p \in DOMAIN tree : job[c].copy[p] = tree[p]
    BY <1>1, <1>2 DEF JudgeTrue
  <2> QED
    BY <1>1, <2>1, <2>2
<1>4. job[c].quiet => v = Trees!Validate(job[c].at, tree)
  BY <1>3
<1>5. DOMAIN h = DOMAIN job[c].have \cup {job[c].at}
      /\ \A p \in DOMAIN h : h[p] = IF p = job[c].at THEN v ELSE job[c].have[p]
  BY DEF Trees!Put
<1>6. job' = [job EXCEPT ![c].have = h, ![c].at = Absent]
  BY <1>1, <1>2
<1> HIDE DEF v, h
<1>7. /\ DOMAIN job' = Caller /\ \A d \in Caller \ {c} : job'[d] = job[d]
      /\ DOMAIN job'[c] = JobFields /\ job'[c].have = h /\ job'[c].quiet = job[c].quiet
      /\ job'[c].kind = "judge" /\ job'[c].at = Absent
  BY <1>1, <1>2, <1>6 DEF JobShape, JobFields
<1>8. JobShape(c)' /\ LoadTrue(c)' /\ SetTrue(c)'
  BY <1>7 DEF JobShape, LoadTrue, SetTrue
<1>9. job[c].quiet => \A p \in DOMAIN h : h[p] = Trees!Validate(p, tree)
  BY <1>1, <1>2, <1>4, <1>5 DEF JudgeTrue
<1>10. JudgeTrue(c)'
  BY <1>1, <1>7, <1>9, ValidateStays DEF JudgeTrue
<1> QED
  BY <1>1, <1>2, <1>7, <1>8, <1>10, JobGoesOn

LEMMA JudgeHeldKeeps ==
    ASSUME TreesInv, NEW c \in Caller, Trees!JudgeHeld(c)
    PROVE  TreesInv'
<1>1. /\ job[c].kind = "hold" /\ UNCHANGED places /\ UNCHANGED <<tree, treeLock, calls>>
      /\ \E p \in job[c].left :
           job' = [job EXCEPT ![c].left = @ \ {p}, ![c].have = Trees!Put(@, p, Trees!Validate(p, tree))]
  BY DEF Trees!JudgeHeld, places
<1>2. JobShape(c) /\ JudgeTrue(c) /\ DOMAIN job = Caller /\ started
  BY <1>1, JobIs
<1>3. PICK p \in job[c].left :
         job' = [job EXCEPT ![c].left = @ \ {p}, ![c].have = Trees!Put(@, p, Trees!Validate(p, tree))]
  BY <1>1
<1> DEFINE v == Trees!Validate(p, tree)
           h == Trees!Put(job[c].have, p, v)
<1>4. DOMAIN h = DOMAIN job[c].have \cup {p} /\ \A q \in DOMAIN h : h[q] = IF q = p THEN v ELSE job[c].have[q]
  BY DEF Trees!Put
<1>5. \A q \in DOMAIN h : h[q] = Trees!Validate(q, tree)
  <2>1. \A q \in DOMAIN job[c].have : job[c].have[q] = Trees!Validate(q, tree)
    BY <1>1, <1>2 DEF JudgeTrue
  <2> HIDE DEF h
  <2> QED
    BY <1>4, <2>1
<1>6. job' = [job EXCEPT ![c].left = job[c].left \ {p}, ![c].have = h]
  BY <1>2, <1>3
<1> HIDE DEF v, h
<1>7. /\ DOMAIN job' = Caller /\ \A d \in Caller \ {c} : job'[d] = job[d]
      /\ DOMAIN job'[c] = JobFields /\ job'[c].have = h /\ job'[c].kind = "hold"
  BY <1>1, <1>2, <1>6 DEF JobShape, JobFields
<1>8. JobShape(c)' /\ LoadTrue(c)' /\ SetTrue(c)'
  BY <1>7 DEF JobShape, LoadTrue, SetTrue
<1>9. JudgeTrue(c)'
  BY <1>1, <1>2, <1>5, <1>7, ValidateStays DEF JudgeTrue
<1> QED
  BY <1>1, <1>2, <1>7, <1>8, <1>9, JobGoesOn

LEMMA LetTreeGoKeeps ==
    ASSUME TreesInv, NEW c \in Caller, Trees!LetTreeGo(c)
    PROVE  TreesInv'
<1>1. /\ job[c].kind = "hold" /\ UNCHANGED places /\ UNCHANGED <<tree, calls>>
      /\ treeLock' = [treeLock EXCEPT !.readers = @ \ {c}]
      /\ job' = [job EXCEPT ![c].kind = "together"]
  BY DEF Trees!LetTreeGo, places
<1>2. /\ JobShape(c) /\ JudgeTrue(c) /\ DOMAIN job = Caller /\ started
      /\ DOMAIN treeLock = {"readers", "waits"} /\ treeLock.readers \subseteq Caller
      /\ treeLock.waits \in Caller \cup {Absent}
  BY <1>1, JobIs
<1>3. DOMAIN treeLock' = {"readers", "waits"} /\ treeLock'.readers = treeLock.readers \ {c}
      /\ treeLock'.waits = treeLock.waits
  BY <1>1, <1>2
<1>4. /\ DOMAIN job' = Caller /\ \A d \in Caller \ {c} : job'[d] = job[d]
      /\ DOMAIN job'[c] = JobFields /\ job'[c].have = job[c].have /\ job'[c].kind = "together"
  BY <1>1, <1>2 DEF JobShape, JobFields
<1>5. JobShape(c)' /\ LoadTrue(c)' /\ SetTrue(c)'
  BY <1>4 DEF JobShape, LoadTrue, SetTrue
<1>6. JudgeTrue(c)'
  BY <1>1, <1>2, <1>4, ValidateStays DEF JudgeTrue
<1> QED
  BY <1>1, <1>2, <1>3, <1>4, <1>5, <1>6, OneJobGoesOn

LEMMA AnnounceKeeps ==
    ASSUME TreesInv, NEW c \in Caller, Trees!Announce(c)
    PROVE  TreesInv'
<1>1. /\ job[c].kind = "set" /\ UNCHANGED places /\ UNCHANGED <<tree, calls>>
      /\ treeLock' = [treeLock EXCEPT !.waits = c]
      /\ job' = [job EXCEPT ![c].kind = "write"]
  BY DEF Trees!Announce, places
<1>2. /\ JobShape(c) /\ SetTrue(c) /\ DOMAIN job = Caller /\ started
      /\ DOMAIN treeLock = {"readers", "waits"} /\ treeLock.readers \subseteq Caller
  BY <1>1, JobIs
<1>3. DOMAIN treeLock' = {"readers", "waits"} /\ treeLock'.readers = treeLock.readers /\ treeLock'.waits = c
  BY <1>1, <1>2
<1>4. /\ DOMAIN job' = Caller /\ \A d \in Caller \ {c} : job'[d] = job[d]
      /\ DOMAIN job'[c] = JobFields /\ job'[c].have = job[c].have /\ job'[c].kind = "write"
  BY <1>1, <1>2 DEF JobShape, JobFields
<1>5. JobShape(c)' /\ LoadTrue(c)' /\ JudgeTrue(c)'
  BY <1>4 DEF JobShape, LoadTrue, JudgeTrue
<1>6. SetTrue(c)'
  BY <1>1, <1>2, <1>4 DEF SetTrue, Trees!ValidatePath
<1> QED
  BY <1>1, <1>2, <1>3, <1>4, <1>5, <1>6, OneJobGoesOn


\* A job beside a change of the tree or of a plugin.
LEMMA JobDisturbed ==
    ASSUME NEW c \in Caller, JobShape(c), LoadTrue(c), JudgeTrue(c), SetTrue(c), mounts' = mounts,
           DOMAIN job'[c] = JobFields, job'[c].kind = job[c].kind, job'[c].left = job[c].left,
           job'[c].have = job[c].have, job'[c].copy = job[c].copy, ~job'[c].quiet,
           job[c].kind = "hold" =>
               /\ c \in treeLock'.readers
               /\ \A p : Trees!Validate(p, tree)' = Trees!Validate(p, tree),
           job[c].kind = "judge" /\ job'[c].at # Absent => job[c].at # Absent
    PROVE  JobShape(c)' /\ LoadTrue(c)' /\ JudgeTrue(c)' /\ SetTrue(c)'
<1>1. JobShape(c)'
  BY DEF JobShape
<1>2. LoadTrue(c)'
  BY DEF LoadTrue
<1>3. JudgeTrue(c)'
  BY DEF JudgeTrue
<1>4. SetTrue(c)'
  BY DEF SetTrue, Trees!ValidatePath
<1> QED
  BY <1>1, <1>2, <1>3, <1>4

LEMMA DisturbedIs ==
    ASSUME NEW c \in Caller, NEW d \in Caller \ {c}, NEW j, DOMAIN job[d] = JobFields,
           job' = [Trees!Disturbed(c) EXCEPT ![c] = j]
    PROVE  /\ DOMAIN job'[d] = JobFields /\ job'[d].kind = job[d].kind /\ job'[d].left = job[d].left
           /\ job'[d].have = job[d].have /\ job'[d].copy = job[d].copy /\ job'[d].at = job[d].at /\ ~job'[d].quiet
<1>1. job'[d] = [job[d] EXCEPT !.quiet = FALSE]
  BY DEF Trees!Disturbed
<1> QED
  BY <1>1 DEF JobFields

\* What was there before a path is set is judged as it was: a rule comes with
\* the plugin, and a path that is new has none.
LEMMA SetKeepsRules ==
    ASSUME DOMAIN plugins = DOMAIN mounts, mounts' = mounts, tree' = tree, NEW i \in DOMAIN mounts, NEW own, NEW v,
           NEW rule, rule = IF own \in DOMAIN plugins[i] THEN plugins[i][own].rule ELSE Absent,
           plugins' = [plugins EXCEPT ![i] = Trees!Put(@, own, [val |-> v, rule |-> rule])]
    PROVE  \A p : Trees!Validate(p, tree)' = Trees!Validate(p, tree)
<1>1. \A j \in DOMAIN mounts : \A q, values : Trees!Finding(plugins'[j], q, values) <=> Trees!Finding(plugins[j], q, values)
  <2> SUFFICES ASSUME NEW j \in DOMAIN mounts, NEW q, NEW values
               PROVE  Trees!Finding(plugins'[j], q, values) <=> Trees!Finding(plugins[j], q, values)
    OBVIOUS
  <2>1. CASE j # i
    BY <2>1
  <2>2. CASE j = i
    <3>1. plugins'[j] = Trees!Put(plugins[i], own, [val |-> v, rule |-> rule])
      BY <2>2
    <3>2. /\ DOMAIN plugins'[j] = DOMAIN plugins[i] \cup {own}
          /\ \A r \in DOMAIN plugins'[j] : plugins'[j][r].rule = IF r = own THEN rule ELSE plugins[i][r].rule
      BY <3>1 DEF Trees!Put
    <3>3. q \in DOMAIN plugins'[j] /\ plugins'[j][q].rule # Absent
              <=> q \in DOMAIN plugins[i] /\ plugins[i][q].rule # Absent
      BY <3>2
    <3>4. q \in DOMAIN plugins'[j] /\ plugins'[j][q].rule # Absent => plugins'[j][q].rule = plugins[i][q].rule
      BY <3>2
    <3> QED
      BY <2>2, <3>3, <3>4 DEF Trees!Finding
  <2> QED
    BY <2>1, <2>2
<1>2. ASSUME NEW p
      PROVE  Trees!Validate(p, tree)' = Trees!Validate(p, tree)
  <2>1. Trees!Child(p)' = Trees!Child(p) /\ Trees!Child(p) \subseteq DOMAIN mounts
    BY DEF Trees!Child, Trees!Under
  <2>2. \A j \in DOMAIN mounts : Trees!Relative(j, p)' = Trees!Relative(j, p)
    BY DEF Trees!Relative
  <2>3. \A j \in DOMAIN mounts : Trees!PrefixedTree(j, tree)' = Trees!PrefixedTree(j, tree)
    BY DEF Trees!PrefixedTree, Trees!Under, Trees!Relative
  <2>4. \A j \in DOMAIN mounts : Trees!Finding(plugins[j], Trees!Relative(j, p), Trees!PrefixedTree(j, tree))'
            <=> Trees!Finding(plugins[j], Trees!Relative(j, p), Trees!PrefixedTree(j, tree))
    BY <1>1, <2>2, <2>3 DEF Trees!Finding
  <2> QED
    BY <2>1, <2>4 DEF Trees!Validate
<1> QED
  BY <1>2

LEMMA SetValueKeeps ==
    ASSUME TreesInv, NEW c \in Caller, Trees!SetValue(c)
    PROVE  TreesInv'
<1>1. PICK p \in Edits, v \in Val : \E i \in Trees!Child(p) :
         /\ LET own == Trees!Relative(i, p)
                rule == IF own \in DOMAIN plugins[i] THEN plugins[i][own].rule ELSE Absent
            IN  plugins' = [plugins EXCEPT ![i] = Trees!Put(@, own, [val |-> v, rule |-> rule])]
         /\ told' = Trees!Put(told, p, v)
         /\ job' = [Trees!Disturbed(c) EXCEPT ![c] = [Trees!Idle EXCEPT !.kind = "set", !.at = p,
                                                                        !.have = Trees!Put(<<>>, p, v)]]
  BY DEF Trees!SetValue
<1>2. PICK i \in Trees!Child(p) :
         /\ LET own == Trees!Relative(i, p)
                rule == IF own \in DOMAIN plugins[i] THEN plugins[i][own].rule ELSE Absent
            IN  plugins' = [plugins EXCEPT ![i] = Trees!Put(@, own, [val |-> v, rule |-> rule])]
         /\ told' = Trees!Put(told, p, v)
         /\ job' = [Trees!Disturbed(c) EXCEPT ![c] = [Trees!Idle EXCEPT !.kind = "set", !.at = p,
                                                                        !.have = Trees!Put(<<>>, p, v)]]
  BY <1>1
<1> DEFINE own == Trees!Relative(i, p)
           rule == IF own \in DOMAIN plugins[i] THEN plugins[i][own].rule ELSE Absent
           h == Trees!Put(<<>>, p, v)
<1>3. /\ plugins' = [plugins EXCEPT ![i] = Trees!Put(@, own, [val |-> v, rule |-> rule])]
      /\ told' = Trees!Put(told, p, v)
      /\ job' = [Trees!Disturbed(c) EXCEPT ![c] = [Trees!Idle EXCEPT !.kind = "set", !.at = p, !.have = h]]
      /\ UNCHANGED <<mounts, dirs, started, tree, treeLock>> /\ started /\ calls' = calls + 1
  BY <1>2 DEF Trees!SetValue, Trees!Ready
<1>4. p \in Seq(STRING) /\ Trees!ValidatePath(p)
  <2>1. p \in Seq(Segment) /\ p # <<>> /\ Segment \subseteq STRING
    BY <1>1, TreesAssumption
  <2>2. Len(p) \in Nat /\ p \in [1 .. Len(p) -> Segment] /\ DOMAIN p = 1 .. Len(p)
    BY <2>1
  <2>3. \A n \in DOMAIN p : p[n] \in Segment
    BY <2>2
  <2>4. p \in [1 .. Len(p) -> STRING]
    BY <2>1, <2>2, <2>3
  <2>5. p \in Seq(STRING)
    BY <2>2, <2>4
  <2> QED
    BY <2>1, <2>3, <2>5 DEF Trees!ValidatePath
<1>5. /\ mounts \in Mounts /\ Trees!Mountable(mounts) /\ DOMAIN plugins = DOMAIN mounts /\ calls \in Nat
      /\ plugins = [k \in DOMAIN mounts |-> plugins[k]]
      /\ \A k \in DOMAIN mounts : \A q \in DOMAIN plugins[k] : q \in Seq(STRING) /\ q # <<>>
  BY <1>3 DEF TreesInv, MountsTrue
<1>6. i \in DOMAIN mounts /\ own \in Seq(STRING) /\ own # <<>> /\ p = mounts[i] \o own
  BY <1>4, <1>5, ChildSplits
<1> HIDE DEF own
<1>7. /\ DOMAIN plugins' = DOMAIN mounts /\ plugins' = [k \in DOMAIN mounts |-> plugins'[k]]
      /\ DOMAIN plugins'[i] = DOMAIN plugins[i] \cup {own}
      /\ plugins'[i][own].val = v /\ \A q \in DOMAIN plugins[i] \ {own} : plugins'[i][q] = plugins[i][q]
      /\ \A k \in DOMAIN mounts \ {i} : plugins'[k] = plugins[k]
  <2>1. DOMAIN plugins' = DOMAIN mounts /\ plugins' = [k \in DOMAIN mounts |-> plugins'[k]]
        /\ \A k \in DOMAIN mounts \ {i} : plugins'[k] = plugins[k]
    BY <1>3, <1>5
  <2>2. plugins'[i] = Trees!Put(plugins[i], own, [val |-> v, rule |-> rule])
    BY <1>3, <1>5, <1>6
  <2> HIDE DEF rule
  <2> QED
    BY <2>1, <2>2 DEF Trees!Put
<1>8. MountsTrue'
  <2>1. \A k \in DOMAIN mounts : \A q \in DOMAIN plugins'[k] : q \in Seq(STRING) /\ q # <<>>
    BY <1>5, <1>6, <1>7
  <2>2. Trees!Mountable(mounts)' = Trees!Mountable(mounts)
    BY <1>3 DEF Trees!Mountable
  <2> QED
    BY <1>3, <1>5, <1>7, <2>1, <2>2 DEF MountsTrue
<1>9. DOMAIN told' = DOMAIN told \cup {p} /\ told' = [q \in DOMAIN told' |-> told'[q]]
      /\ \A q \in DOMAIN told' : told'[q] = IF q = p THEN v ELSE told[q]
  BY <1>3 DEF Trees!Put
<1>10. ListedPaths' = ListedPaths \cup {p}
  <2>1. ASSUME NEW k \in DOMAIN mounts
        PROVE  Trees!Listed(k)' = Trees!Listed(k) \cup (IF k = i THEN {p} ELSE {})
    <3>1. CASE k = i
      <4>1. Trees!Listed(k)' = {mounts[k] \o q : q \in DOMAIN plugins[k] \cup {own}}
        BY <1>3, <1>7, <3>1 DEF Trees!Listed
      <4>2. {mounts[k] \o q : q \in DOMAIN plugins[k] \cup {own}}
              = {mounts[k] \o q : q \in DOMAIN plugins[k]} \cup {mounts[k] \o own}
        BY Zenon
      <4> QED
        BY <1>6, <3>1, <4>1, <4>2 DEF Trees!Listed
    <3>2. CASE k # i
      <4>1. plugins'[k] = plugins[k]
        BY <1>7, <3>2
      <4>2. Trees!Listed(k)' = Trees!Listed(k)
        BY <1>3, <4>1 DEF Trees!Listed
      <4> QED
        BY <3>2, <4>2
    <3> QED
      BY <3>1, <3>2
  <2>2. ListedPaths' = UNION {Trees!Listed(k)' : k \in DOMAIN mounts}
    BY <1>3 DEF ListedPaths, Trees!Listed
  <2> QED
    BY <1>6, <2>1, <2>2 DEF ListedPaths
<1>11. ASSUME NEW k \in DOMAIN mounts, NEW q \in DOMAIN plugins'[k]
       PROVE  told'[mounts[k] \o q] = plugins'[k][q].val
  <2>1. CASE k = i /\ q = own
    BY <1>6, <1>7, <1>9, <2>1
  <2>2. CASE ~(k = i /\ q = own)
    <3>1. q \in DOMAIN plugins[k] /\ plugins'[k][q] = plugins[k][q]
      BY <1>7, <2>2
    <3>2. q \in Seq(STRING) /\ q # <<>>
      BY <1>5, <3>1
    <3>3. mounts[k] \o q # p
      <4>1. Trees!Child(mounts[k] \o q) = {k} /\ Trees!Relative(k, mounts[k] \o q) = q
        BY <1>5, <3>2, OwnPath
      <4>2. Trees!Child(p) = {i} /\ Trees!Relative(i, p) = own
        BY <1>5, <1>6, OwnPath
      <4> QED
        BY <2>2, <4>1, <4>2
    <3>4. mounts[k] \o q \in DOMAIN told /\ told[mounts[k] \o q] = plugins[k][q].val
      BY <3>1, ListedOf DEF TreesInv, ToldTrue
    <3> QED
      BY <1>9, <3>1, <3>3, <3>4
  <2> QED
    BY <2>1, <2>2
<1>12. ToldTrue'
  <2>1. DOMAIN told' = ListedPaths'
    BY <1>9, <1>10 DEF TreesInv, ToldTrue
  <2> QED
    BY <1>3, <1>9, <1>11, <2>1 DEF ToldTrue
<1>13. TreeTrue'
  <2>1. TreeTrue
    BY DEF TreesInv
  <2> QED
    BY <1>3, <2>1 DEF TreeTrue, Trees!ValidatePath
<1>14. \A q : Trees!Validate(q, tree)' = Trees!Validate(q, tree)
  BY <1>3, <1>5, <1>6, SetKeepsRules
<1>15. ASSUME NEW d \in Caller \ {c}
       PROVE  JobShape(d)' /\ LoadTrue(d)' /\ JudgeTrue(d)' /\ SetTrue(d)'
  <2>1. JobShape(d) /\ LoadTrue(d) /\ JudgeTrue(d) /\ SetTrue(d)
    BY JobIs
  <2>2. /\ DOMAIN job'[d] = JobFields /\ job'[d].kind = job[d].kind /\ job'[d].left = job[d].left
        /\ job'[d].have = job[d].have /\ job'[d].copy = job[d].copy /\ job'[d].at = job[d].at /\ ~job'[d].quiet
    BY <1>3, <2>1, DisturbedIs DEF JobShape
  <2>3. job[d].kind = "hold" => d \in treeLock'.readers
    BY <1>3, <2>1 DEF JudgeTrue
  <2> QED
    BY <1>3, <1>14, <2>1, <2>2, <2>3, JobDisturbed
<1>16. /\ DOMAIN job' = Caller /\ DOMAIN job'[c] = JobFields /\ job'[c].kind = "set" /\ job'[c].have = h
  <2> HIDE DEF h
  <2>1. DOMAIN job' = Caller /\ job'[c] = [Trees!Idle EXCEPT !.kind = "set", !.at = p, !.have = h]
    BY <1>3 DEF Trees!Disturbed
  <2> QED
    BY <2>1 DEF Trees!Idle, JobFields
<1>17. h = [q \in DOMAIN h |-> h[q]] /\ DOMAIN h = {p} /\ h[p] = v
  <2>1. DOMAIN h = {p}
    BY EmptyHas DEF Trees!Put
  <2> QED
    BY <2>1 DEF Trees!Put
<1> HIDE DEF h
<1>18. JobShape(c)' /\ LoadTrue(c)' /\ JudgeTrue(c)'
  BY <1>16 DEF JobShape, LoadTrue, JudgeTrue
<1>19. SetTrue(c)'
  BY <1>4, <1>16, <1>17 DEF SetTrue, Trees!ValidatePath
<1>20. JobsTrue'
  BY <1>3, <1>15, <1>16, <1>18, <1>19 DEF JobsTrue
<1> QED
  BY <1>8, <1>12, <1>13, <1>20 DEF TreesInv

LEMMA TreeSetKeeps ==
    ASSUME TreesInv, NEW c \in Caller, Trees!TreeSet(c)
    PROVE  TreesInv'
<1>1. /\ job[c].kind = "write" /\ treeLock.readers = {} /\ tree' = Trees!Overlay(job[c].have, tree)
      /\ treeLock' = [treeLock EXCEPT !.waits = Absent]
      /\ job' = [Trees!Disturbed(c) EXCEPT ![c] = Trees!Idle]
      /\ UNCHANGED places /\ calls' = calls
  BY DEF Trees!TreeSet, places
<1>2. JobShape(c) /\ SetTrue(c) /\ DOMAIN job = Caller /\ started /\ DOMAIN treeLock = {"readers", "waits"}
  BY <1>1, JobIs
<1>3. MountsTrue' /\ ToldTrue'
  BY <1>1, PlacesStay DEF TreesInv
<1>4. TreeTrue'
  <2>1. DOMAIN treeLock' = {"readers", "waits"} /\ treeLock'.readers = {} /\ treeLock'.waits = Absent
    BY <1>1, <1>2
  <2>2. \A p \in DOMAIN job[c].have : Trees!ValidatePath(p) /\ job[c].have[p] \in Val
    BY <1>1, <1>2 DEF SetTrue
  <2>3. \A p \in DOMAIN tree : Trees!ValidatePath(p) /\ tree[p] \in Val
    BY DEF TreesInv, TreeTrue
  <2>4. tree' = [p \in DOMAIN tree' |-> tree'[p]] /\ DOMAIN tree' = DOMAIN job[c].have \cup DOMAIN tree
        /\ \A p \in DOMAIN tree' : tree'[p] = IF p \in DOMAIN job[c].have THEN job[c].have[p] ELSE tree[p]
    BY <1>1 DEF Trees!Overlay
  <2> QED
    BY <2>1, <2>2, <2>3, <2>4 DEF TreeTrue, Trees!ValidatePath
<1>5. ASSUME NEW d \in Caller \ {c}
      PROVE  JobShape(d)' /\ LoadTrue(d)' /\ JudgeTrue(d)' /\ SetTrue(d)'
  <2>1. JobShape(d) /\ LoadTrue(d) /\ JudgeTrue(d) /\ SetTrue(d)
    BY JobIs
  <2>2. /\ DOMAIN job'[d] = JobFields /\ job'[d].kind = job[d].kind /\ job'[d].left = job[d].left
        /\ job'[d].have = job[d].have /\ job'[d].copy = job[d].copy /\ job'[d].at = job[d].at /\ ~job'[d].quiet
    BY <1>1, <2>1, DisturbedIs DEF JobShape
  <2>3. job[d].kind # "hold"
    BY <1>1, <2>1 DEF JudgeTrue
  <2> QED
    BY <1>1, <2>1, <2>2, <2>3, JobDisturbed DEF places
<1>6. DOMAIN job' = Caller /\ DOMAIN job'[c] = JobFields /\ job'[c].kind = "idle"
  <2>1. DOMAIN job' = Caller /\ job'[c] = Trees!Idle
    BY <1>1 DEF Trees!Disturbed
  <2> QED
    BY <2>1 DEF Trees!Idle, JobFields
<1>7. JobShape(c)' /\ LoadTrue(c)' /\ JudgeTrue(c)' /\ SetTrue(c)'
  BY <1>6 DEF JobShape, LoadTrue, JudgeTrue, SetTrue
<1>8. JobsTrue'
  BY <1>1, <1>2, <1>5, <1>6, <1>7 DEF JobsTrue, places
<1> QED
  BY <1>3, <1>4, <1>8 DEF TreesInv

LEMMA TreesStutter ==
    ASSUME TreesInv, UNCHANGED treeVars
    PROVE  TreesInv'
<1>1. UNCHANGED places /\ UNCHANGED <<mounts, dirs, started, plugins, told, tree, treeLock, calls, job>>
  BY DEF treeVars, places
<1>2. MountsTrue' /\ ToldTrue'
  BY <1>1, PlacesStay DEF TreesInv
<1>3. TreeTrue'
  BY <1>1 DEF TreesInv, TreeTrue, Trees!ValidatePath
<1>4. ASSUME NEW d \in Caller
      PROVE  JobShape(d)' /\ LoadTrue(d)' /\ JudgeTrue(d)' /\ SetTrue(d)'
  <2>1. JobShape(d) /\ LoadTrue(d) /\ JudgeTrue(d) /\ SetTrue(d)
    BY JobIs
  <2> QED
    BY <1>1, <2>1, JobStays DEF JudgeTrue
<1>5. JobsTrue'
  BY <1>1, <1>4 DEF TreesInv, JobsTrue
<1> QED
  BY <1>2, <1>3, <1>5 DEF TreesInv

LEMMA TreesKeep ==
    ASSUME TreesInv, Trees!Next \/ UNCHANGED treeVars
    PROVE  TreesInv'
<1>1. CASE UNCHANGED treeVars
  BY <1>1, TreesStutter
<1>2. CASE Trees!Next
  <2>1. PICK c \in Caller : Trees!LoadTree(c) \/ Trees!SetValue(c) \/ Trees!ValidateTree(c) \/ Trees!HoldTree(c)
                            \/ Trees!Step(c)
    BY <1>2 DEF Trees!Next
  <2>2. CASE Trees!LoadTree(c)
    BY <2>2, LoadTreeKeeps
  <2>3. CASE Trees!SetValue(c)
    BY <2>3, SetValueKeeps
  <2>4. CASE Trees!ValidateTree(c)
    BY <2>4, ValidateTreeKeeps
  <2>5. CASE Trees!HoldTree(c)
    BY <2>5, HoldTreeKeeps
  <2>6. CASE Trees!Step(c)
    <3>1. CASE Trees!ListChild(c)
      BY <3>1, ListChildKeeps
    <3>2. CASE Trees!AllListed(c)
      BY <3>2, AllListedKeeps
    <3>3. CASE Trees!GetPath(c)
      BY <3>3, GetPathKeeps
    <3>4. CASE Trees!Announce(c)
      BY <3>4, AnnounceKeeps
    <3>5. CASE Trees!TreeSet(c)
      BY <3>5, TreeSetKeeps
    <3>6. CASE Trees!NextPath(c)
      BY <3>6, NextPathKeeps
    <3>7. CASE Trees!CopyPath(c)
      BY <3>7, CopyPathKeeps
    <3>8. CASE Trees!JudgePath(c)
      BY <3>8, JudgePathKeeps
    <3>9. CASE Trees!JudgeHeld(c)
      BY <3>9, JudgeHeldKeeps
    <3>10. CASE Trees!LetTreeGo(c)
      BY <3>10, LetTreeGoKeeps
    <3> QED
      BY <2>6, <3>1, <3>2, <3>3, <3>4, <3>5, <3>6, <3>7, <3>8, <3>9, <3>10 DEF Trees!Step
  <2> QED
    BY <2>1, <2>2, <2>3, <2>4, <2>5, <2>6
<1> QED
  BY <1>1, <1>2

LEMMA TreesAnswer ==
    ASSUME TreesInv
    PROVE  /\ Trees!TypeOK /\ Trees!ActAsOne /\ Trees!LastFileWins
           /\ Trees!LoadsWhole /\ Trees!JudgedAsItIs
<1>1. MountsTrue /\ ToldTrue /\ TreeTrue /\ \A c \in Caller : JobShape(c) /\ LoadTrue(c) /\ JudgeTrue(c)
  BY DEF TreesInv, JobsTrue
<1>2. Trees!TypeOK
  BY <1>1 DEF Trees!TypeOK, MountsTrue, TreeTrue, JobShape
<1>3. Trees!ActAsOne
  BY <1>1, GetsTold DEF Trees!ActAsOne, ToldTrue, ListedPaths
<1>4. ASSUME started, calls = 0, NEW i \in DOMAIN mounts, NEW p \in DOMAIN plugins[i]
      PROVE  \E k \in DOMAIN dirs[i] :
                /\ \E n \in Trees!Leaves(dirs[i][k]) : n.path = p /\ n.val = plugins[i][p].val
                /\ ~\E later \in k + 1 .. Len(dirs[i]) : \E n \in Trees!Leaves(dirs[i][later]) : n.path = p
  <2>1. dirs[i] \in Directories /\ plugins[i] = Trees!Loaded(dirs[i])
    BY <1>1, <1>4 DEF MountsTrue
  <2>2. Len(dirs[i]) \in Nat /\ DOMAIN dirs[i] = 1..Len(dirs[i])
    BY <2>1, TreesAssumption
  <2>3. p \in DOMAIN Trees!LoadDir(dirs[i]) /\ plugins[i][p].val = Trees!LoadDir(dirs[i])[p].val
    BY <2>1, LoadedIs
  <2>4. LastOf(dirs[i], Len(dirs[i]), Trees!LoadDir(dirs[i]))
    BY <2>2, LoadDirTakesLast
  <2> QED
    BY <2>2, <2>3, <2>4 DEF LastOf
<1>5. Trees!LastFileWins
  BY <1>4 DEF Trees!LastFileWins
<1>6. Trees!LoadsWhole
  BY <1>1 DEF Trees!LoadsWhole, LoadTrue
<1>7. Trees!JudgedAsItIs
  BY <1>1 DEF Trees!JudgedAsItIs, JudgeTrue
<1> QED
  BY <1>2, <1>3, <1>5, <1>6, <1>7

\* Whatever comes before or between, a caller hears what the implementation
\* answered (grpc_errors.go, controller_client.go); a tree of values has of
\* every path what the last file (parse.go) or the last set gave it, in the one
\* plugin that is mounted over the path (compose.go), and what nobody changed
\* meanwhile is loaded and judged whole.
THEOREM AnswersAreTrue == LaunchingSpec => []AnswersTrue
<1> DEFINE Inv == WiresInv /\ TreesInv
<1>1. LaunchingInit => Inv
  BY WireBegins, TreesBegin DEF LaunchingInit
<1>2. Inv /\ [LaunchingNext]_<<system, launchVars, wireVars, treeVars, vars>> => Inv'
  <2>1. SUFFICES ASSUME Inv, [LaunchingNext]_<<system, launchVars, wireVars, treeVars, vars>>
                 PROVE  Inv'
    OBVIOUS
  <2>2. Wires!WireNext \/ UNCHANGED wireVars
    BY <2>1 DEF LaunchingNext
  <2>3. Trees!Next \/ UNCHANGED treeVars
    BY <2>1 DEF LaunchingNext
  <2> QED
    BY <2>1, <2>2, <2>3, WiresKeep, TreesKeep
<1>3. Inv => AnswersTrue
  BY WiresAnswer, TreesAnswer DEF AnswersTrue
<1> QED
  BY <1>1, <1>2, <1>3, PTL DEF LaunchingSpec

=============================================================================

------------------------------ MODULE Editing ------------------------------
(***************************************************************************)
(* Editing a configuration: the engine's tree, the controller of one       *)
(* editing session and the requests of its frontends, beside other runs of *)
(* `zhi set` on the same store.                                            *)
(*                                                                         *)
(* A session has a config plugin that remembers what it is told, a cached  *)
(* tree in display form and the set of dirty paths.  Loading lays the      *)
(* store over the config plugin's values, transforms the result for        *)
(* display and puts the dirty values back; saving transforms the cached    *)
(* tree for storage and writes all of it.  A frontend's request is several *)
(* controller calls; each call is atomic, except that SetValue tells the   *)
(* config plugin before it takes the controller's lock.                    *)
(*                                                                         *)
(* Source: internal/core/engine.go, internal/ui/driver.go,                 *)
(*         internal/cli/set.go, pkg/providers/ui/webui/editor.go,          *)
(*         internal/ui/tui/app.go, pkg/providers/ui/httpapi/httpapi.go,    *)
(*         pkg/mcpbridge/tools.go                                          *)
(***************************************************************************)
EXTENDS Naturals, FiniteSets

CONSTANTS
    Paths,          \* the paths the config plugin lists
    Values,         \* the values a path can have
    Clients,        \* what sends requests to the session, one at a time each
    Requests,       \* the kinds of request its frontends make, see below
    Commands,       \* runs of `zhi set` by other processes
    Session,        \* the session, when it is named beside them
    Defaults,       \* what the config plugin starts with
    WriteOnly,      \* paths labelled store.writeonly
    Blocking,       \* values a validator objects to with Blocking
    BeforeDisplay,  \* the transforms to and from what the user sees,
    AfterSave,      \*   path by path
    Validated,      \* whether every `zhi set` is run with --validate
    PartialWrites,  \* the sets of paths a failing PutValues may have written
    Faults,         \* what may fail apart from the store, see below
    Nothing,        \* no value, no tree
    Idle            \* a client or command that is not in the middle of one

(* "edit"    the web form: load, set, validate, and set back if Blocking    *)
(* "preview" inline validation: the same, always set back                  *)
(* "commit"  the TUI's editor: set a value of the tree on the screen       *)
(* "set"     the HTTP API and the MCP tool: set a path, loaded or not      *)
Kinds == {"edit", "preview", "commit", "set"}

(* "set", "validate"  the config plugin, or the way to it                  *)
(* "transform"        a transform plugin                                   *)
MayFail == {"set", "validate", "transform"}

\* A value and whether it still carries the label of a write-only path.
Entry == [val : Values, labelled : BOOLEAN]
Tree  == [Paths -> Entry]

RequestType ==
    [kind : Kinds, at : {"tell", "set", "judge", "untell", "unset"},
     path : Paths, new : Entry, old : Entry]

CommandType == [path : Paths, tree : Tree]

ASSUME EditingAssumption ==
    /\ Defaults \in [Paths -> Values]
    /\ WriteOnly \subseteq Paths
    /\ Blocking \subseteq Values
    /\ Requests \subseteq Kinds
    /\ BeforeDisplay \in [Paths -> [Values -> Values]]
    /\ AfterSave \in [Paths -> [Values -> Values]]
    /\ Session \notin Commands
    /\ Validated \in BOOLEAN
    /\ PartialWrites \subseteq SUBSET Paths
    /\ Faults \subseteq MayFail
    /\ Nothing \notin Values /\ Nothing \notin Entry /\ Nothing \notin Tree
    /\ Idle \notin RequestType /\ Idle \notin CommandType

VARIABLES
    store,      \* the stored tree: an entry or Nothing for each path
    config,     \* the session's config plugin: its entry for each path
    tree,       \* the controller's cached tree, Nothing before the first load
    dirty,      \* the controller's dirtyPaths
    client,     \* the request each client is in the middle of
    command,    \* the tree each run of `zhi set` is about to write
    pending,    \* history: the value of the last SetValue since the last save
    stale,      \* history: the writers that read the store before its last write
    slipped     \* history: the paths of values that no answered check kept out

session == <<config, tree, dirty, client, pending>>
vars == <<store, config, tree, dirty, client, command, pending, stale, slipped>>

Writers == Commands \cup {Session}

TypeOK ==
    /\ store \in [Paths -> Entry \cup {Nothing}]
    /\ config \in Tree
    /\ tree \in Tree \cup {Nothing}
    /\ dirty \subseteq Paths
    /\ client \in [Clients -> RequestType \cup {Idle}]
    /\ command \in [Commands -> CommandType \cup {Idle}]
    /\ pending \in [Paths -> Values \cup {Nothing}]
    /\ stale \subseteq Writers
    /\ slipped \subseteq Paths

-----------------------------------------------------------------------------
(* The engine.                                                             *)

FromConfig == [p \in Paths |-> [val |-> Defaults[p], labelled |-> p \in WriteOnly]]

\* What GetValues returns for p is no value when the stored entry still says
\* that it is write-only.
Readable(p) == store[p] # Nothing /\ ~store[p].labelled

\* Engine.LoadTree: only the value comes from the store, never its version
\* or its metadata; where the store has none the config plugin's stays.
Overlaid(t) ==
    [p \in Paths |-> IF Readable(p) THEN [t[p] EXCEPT !.val = store[p].val] ELSE t[p]]

Displayed(t) == [p \in Paths |-> [t[p] EXCEPT !.val = BeforeDisplay[p][@]]]
Storable(t) == [p \in Paths |-> [t[p] EXCEPT !.val = AfterSave[p][@]]]

-----------------------------------------------------------------------------
(* The controller.                                                         *)

\* Mutant of Loaded: the store's values replace edits.
LoadedOverEdits == Displayed(Overlaid(config))

\* loadTreeLocked: the dirty values of the tree there was, if there was one,
\* replace those just read.
Loaded ==
    [p \in Paths |-> IF tree # Nothing /\ p \in dirty THEN tree[p]
                     ELSE Displayed(Overlaid(config))[p]]

Init ==
    /\ store = [p \in Paths |-> Nothing]
    /\ config = FromConfig
    /\ tree = Nothing
    /\ dirty = {}
    /\ client = [c \in Clients |-> Idle]
    /\ command = [k \in Commands |-> Idle]
    /\ pending = [p \in Paths |-> Nothing]
    /\ stale = {}
    /\ slipped = {}

\* LoadTree by itself: the first load, a reload, a look at a value.  It is
\* also what Validate does when there is no tree yet.
Load(c) ==
    /\ client[c] = Idle
    /\ tree' = Loaded
    /\ stale' = stale \ {Session}
    /\ UNCHANGED <<store, config, dirty, client, command, pending, slipped>>

\* The config plugin with the value that a request wants to set or set back.
Told(r) == [config EXCEPT ![r.path] = IF r.at = "tell" THEN r.new ELSE r.old]

\* The first half of SetValue: the engine passes the value to the config
\* plugin before the controller's lock is taken.
Tell(c) ==
    LET r == client[c] IN
    /\ r # Idle /\ r.at \in {"tell", "untell"}
    /\ config' = Told(r)
    /\ client' = [client EXCEPT ![c].at = IF r.at = "tell" THEN "set" ELSE "unset"]
    /\ UNCHANGED <<store, tree, dirty, command, pending, stale, slipped>>

\* The plugin's Set fails, or its caller is gone before it answers: SetValue
\* and with it the request end there, the second half is never reached.
TellFails(c) ==
    LET r == client[c] IN
    /\ "set" \in Faults
    /\ r # Idle /\ r.at \in {"tell", "untell"}
    /\ config' \in {config, Told(r)}
    /\ client' = [client EXCEPT ![c] = Idle]
    /\ slipped' = IF r.at = "untell" \/ config' # config THEN slipped \cup {r.path} ELSE slipped
    /\ UNCHANGED <<store, tree, dirty, command, pending, stale>>

\* Mutant of Mark: an edit does not make its path dirty.
MarkNothing(p) == dirty

Mark(p) == dirty \cup {p}

\* The second half, under the lock: the cached tree, if there is one, gets
\* the value, and the path is dirty in any case.
Set(c) ==
    LET r == client[c]
        e == IF r.at = "set" THEN r.new ELSE r.old
    IN
    /\ r # Idle /\ r.at \in {"set", "unset"}
    /\ tree' = IF tree = Nothing THEN Nothing ELSE [tree EXCEPT ![r.path] = e]
    /\ dirty' = Mark(r.path)
    /\ pending' = [pending EXCEPT ![r.path] = e.val]
    /\ client' = [client EXCEPT ![c] =
                    IF r.at = "set" /\ r.kind \in {"edit", "preview"}
                    THEN [r EXCEPT !.at = "judge"] ELSE Idle]
    /\ UNCHANGED <<store, config, command, stale, slipped>>

\* The paths at which a request tries a value that it may yet set back.
Tried == {client[c].path : c \in {d \in Clients : client[d] # Idle /\ client[d].at # "tell"}}

\* SaveTree.  The transforms rewrite the cached tree itself.
Save(c) ==
    /\ client[c] = Idle
    /\ tree # Nothing
    /\ tree' = Storable(tree)
    /\ store' = tree'
    /\ dirty' = {}
    /\ pending' = [p \in Paths |-> Nothing]
    /\ stale' = Commands
    /\ slipped' = slipped \cup Tried
    /\ UNCHANGED <<config, client, command>>

Written(t, done) == [p \in Paths |-> IF p \in done THEN t[p] ELSE store[p]]

\* SaveTree when the store fails, possibly after some of the paths.
SaveFails(c) ==
    /\ client[c] = Idle
    /\ tree # Nothing
    /\ tree' = Storable(tree)
    /\ \E done \in PartialWrites : store' = Written(tree', done)
    /\ stale' = stale \cup Commands
    /\ slipped' = slipped \cup Tried
    /\ UNCHANGED <<config, dirty, client, command, pending>>

\* SaveTree when one of the transforms fails: those before it have already
\* turned some of the cached tree, and nothing is written.
TransformFails(c) ==
    /\ "transform" \in Faults
    /\ client[c] = Idle
    /\ tree # Nothing
    /\ \E turned \in SUBSET Paths :
          tree' = [p \in Paths |-> IF p \in turned THEN Storable(tree)[p] ELSE tree[p]]
    /\ UNCHANGED <<store, config, dirty, client, command, pending, stale, slipped>>

-----------------------------------------------------------------------------
(* The frontends' requests.                                                *)

\* handleSaveValue and handleInlineValidation load the tree and keep the
\* value that is there, and its metadata, beside the new one.
Open(c, kind, p, v) ==
    LET old == Loaded[p] IN
    /\ client[c] = Idle
    /\ kind \in Requests \cap {"edit", "preview"}
    /\ tree' = Loaded
    /\ client' = [client EXCEPT ![c] =
                    [kind |-> kind, at |-> "tell", path |-> p,
                     new |-> [old EXCEPT !.val = v], old |-> old]]
    /\ stale' = stale \ {Session}
    /\ slipped' = slipped \cup ({p} \cap Tried)
    /\ UNCHANGED <<store, config, dirty, command, pending>>

\* The TUI sets a value of the tree it shows and keeps its metadata;
\* set_value and PUT /api/tree/values neither load nor keep metadata.  None
\* of them validates what it sets.
Direct(c, kind, p, v) ==
    LET e == IF kind = "commit" THEN [tree[p] EXCEPT !.val = v]
             ELSE [val |-> v, labelled |-> FALSE]
    IN
    /\ client[c] = Idle
    /\ kind \in Requests \cap {"commit", "set"}
    /\ kind = "commit" => tree # Nothing
    /\ client' = [client EXCEPT ![c] =
                    [kind |-> kind, at |-> "tell", path |-> p, new |-> e, old |-> e]]
    /\ slipped' = slipped \cup {p}
    /\ UNCHANGED <<store, config, tree, dirty, command, pending, stale>>

\* Mutant of Rejected: a Blocking value is reported and stays.
RejectedNever(r, answered) == r.kind = "preview"

\* What the controller's tree says of the path decides, not what was set; an
\* error of Validate is ignored and leaves nothing that objects.  A preview is
\* set back whatever is said.
Rejected(r, answered) == r.kind = "preview" \/ (answered /\ tree[r.path].val \in Blocking)

\* Validate fails as a whole when the plugin does on any path.
Judge(c) ==
    \E answered \in IF "validate" \in Faults THEN BOOLEAN ELSE {TRUE} :
        /\ client[c] # Idle /\ client[c].at = "judge"
        /\ client' = [client EXCEPT ![c] =
                        IF Rejected(client[c], answered)
                        THEN [client[c] EXCEPT !.at = "untell"] ELSE Idle]
        /\ slipped' = IF answered \/ client[c].kind = "preview" THEN slipped
                      ELSE slipped \cup {client[c].path}
        /\ UNCHANGED <<store, config, tree, dirty, command, pending, stale>>

\* The session ends, by choice or not, and another one starts.
Exit ==
    /\ tree # Nothing
    /\ config' = FromConfig
    /\ tree' = Nothing
    /\ dirty' = {}
    /\ client' = [c \in Clients |-> Idle]
    /\ pending' = [p \in Paths |-> Nothing]
    /\ UNCHANGED <<store, command, stale, slipped>>

-----------------------------------------------------------------------------
(* `zhi set`, a process with an engine of its own.                         *)

Given(t, p, v) == [t EXCEPT ![p] = [val |-> v, labelled |-> FALSE]]

\* Mutant of SetOn: the other paths are written as the config plugin has them.
SetOnDefaults(p, v) == Given(FromConfig, p, v)

\* The tree of runSet: the config plugin is told, the tree loaded and never
\* transformed for display, the path replaced by a value without metadata.
SetOn(p, v) == Given(Overlaid(Given(FromConfig, p, v)), p, v)

\* With --validate a Blocking value anywhere ends the command.  What is left
\* is transformed for storage and written.
CommandRead(k, p, v) ==
    /\ command[k] = Idle
    /\ Validated => \A q \in Paths : SetOn(p, v)[q].val \notin Blocking
    /\ command' = [command EXCEPT ![k] = [path |-> p, tree |-> Storable(SetOn(p, v))]]
    /\ stale' = stale \ {k}
    /\ slipped' = IF Validated THEN slipped ELSE slipped \cup {p}
    /\ UNCHANGED <<store, session>>

CommandWrite(k) ==
    /\ command[k] # Idle
    /\ store' = command[k].tree
    /\ command' = [command EXCEPT ![k] = Idle]
    /\ stale' = Writers \ {k}
    /\ UNCHANGED <<session, slipped>>

\* The store fails, or the process dies; runSet prints the error and exits 0.
CommandFails(k) ==
    /\ command[k] # Idle
    /\ \E done \in PartialWrites : store' = Written(command[k].tree, done)
    /\ command' = [command EXCEPT ![k] = Idle]
    /\ stale' = Writers \ {k}
    /\ UNCHANGED <<session, slipped>>

-----------------------------------------------------------------------------
Next ==
    \/ \E c \in Clients :
          \/ Load(c) \/ Tell(c) \/ TellFails(c) \/ Set(c) \/ Judge(c)
          \/ Save(c) \/ SaveFails(c) \/ TransformFails(c)
          \/ \E p \in Paths, v \in Values, kind \in Kinds :
                Open(c, kind, p, v) \/ Direct(c, kind, p, v)
    \/ Exit
    \/ \E k \in Commands :
          \/ \E p \in Paths, v \in Values : CommandRead(k, p, v)
          \/ CommandWrite(k)
          \/ CommandFails(k)

Spec == Init /\ [][Next]_vars

-----------------------------------------------------------------------------
(* Properties.                                                             *)

\* Transforming for storage what has been transformed for storage changes
\* nothing.  Nothing in the transform interface asks for it.
SaveIsIdempotent ==
    \A p \in Paths, v \in Values : AfterSave[p][AfterSave[p][v]] = AfterSave[p][v]

\* An accepted SetValue stays what the session shows, through reloads,
\* failed saves and other processes' writes, until it is saved or set again:
\* "subsequent LoadTree calls do not overwrite it with the stale store value"
\* (UIController.SetValue).  A failed save leaves it in its stored form.
EditsSurvive ==
    \A p \in Paths :
        pending[p] # Nothing /\ tree # Nothing =>
            tree[p].val \in {pending[p], AfterSave[p][pending[p]]}

\* A save that reports success has stored every value set since the last one
\* (UIController.SaveTree clears the dirty paths only then).
SaveOf(p) == pending[p] # Nothing /\ pending'[p] = Nothing /\ tree' # Nothing
PersistsEdits ==
    \A p \in Paths : SaveOf(p) =>
        store'[p] # Nothing /\ store'[p].val = AfterSave[p][pending[p]]
SavePersistsEdits == [][PersistsEdits]_vars

\* A Blocking value reaches the store only where it slipped.  Nobody asked
\* for a check, as in a TUI's commit or a `zhi set` without --validate; or the
\* form did, and Validate gave an error, which the form takes for approval,
\* the config plugin took the value and its answer was lost, setting it back
\* failed, or another request saved the tree or kept the value as the one to
\* go back to while it was tried.  The comment in handleSaveValue says that a
\* Blocking value "must never remain in the tree, otherwise a later 'Save
\* tree' would persist it despite the rejection": after these it does remain,
\* and after nothing else.
BlockingNeverStored ==
    \A p \in Paths : store[p] # Nothing /\ store[p].val \in Blocking => p \in slipped

\* Who writes the store in a step in which it changes, and whether it was
\* asked to set p: the session since its last save, a `zhi set` by its user.
Asked(w, p) ==
    IF w = Session THEN command' = command /\ pending[p] # Nothing
    ELSE command[w] # Idle /\ command'[w] = Idle /\ command[w].path = p

\* A writer changes no stored value it was not asked to set.  Everything else
\* it writes must be what it read, through both transforms and the store's
\* redaction, and what it read must still be there.
Untouched(p) == store[p] # Nothing => store'[p].val = store[p].val
OthersUntouched == \A p \in Paths : (\E w \in Writers : Asked(w, p)) \/ Untouched(p)
OnlyEditsChange == [][OthersUntouched]_vars

\* The same of writers that have read the store since its last write.
Writer == IF command' = command THEN Session ELSE CHOOSE k \in Commands : command'[k] # command[k]
OthersUntouchedWhenFresh == Writer \notin stale => OthersUntouched
FreshWritersOnlySet == [][OthersUntouchedWhenFresh]_vars

\* Inline validation is "a read-only preview" (webui handleInlineValidation):
\* in a session that only previews, a load shows what the store holds.
ShowsTheStore ==
    Requests = {"preview"} /\ (\A c \in Clients : client[c] = Idle) /\ (\E c \in Clients : Load(c))
        => tree' = Displayed(Overlaid(FromConfig))
PreviewLeavesNothing == [][ShowsTheStore]_vars
=============================================================================

----------------------------- MODULE Launching -----------------------------
(* How a command gets its providers and what becomes of them: the files     *)
(* among which plugins are discovered (internal/core/discovery.go), the     *)
(* registry that launches each once and closes them all (registry.go), the  *)
(* engine that asks for them in turn (engine.go), the command around it     *)
(* (internal/cli/root.go) and `zhi edit`, which asks for one more.          *)
(*                                                                          *)
(* What a plugin answers is in the other modules.  Options are compared,    *)
(* never read.                                                              *)
EXTENDS Naturals, Sequences

CONSTANTS
    Directory,      \* sequence of the plugin directories of zhi.yaml
    Name,           \* names of providers
    Builtin,        \* type -> names that are compiled in
    Listings,       \* the sets of files there may be
    Workspaces,     \* the zhi.yaml there may be
    Frontends,      \* what `zhi edit` may be asked to open
    NoPlugin,
    InProcess       \* a provider that is compiled in

Type == {"config", "transform", "store", "ui"}
Layout == {"flat", "sub"}

(* Each file is one that would be taken for a plugin if it can be executed; *)
(* a directory is read or skipped: it is missing, or has .. in its path.    *)
File == [dir : {Directory[i] : i \in DOMAIN Directory}, layout : Layout, type : Type, name : Name]

(* A reference of zhi.yaml: "no options" are not passed on at all.          *)
Ref == [type : Type, name : Name, options : {"none", "one", "two"}]

\* What runs: a file with the options it was started with.
Process == [file : File, options : {"none", "one", "two"}]

VARIABLES
    files,          \* executable files in directories that can be read
    workspace,      \* the references in the order in which they are resolved
    stage,          \* where the command is
    looked,         \* how many directories have been looked through
    todo,           \* references that are still to be resolved
    using,          \* what the engine and the frontend have got for each one
    external,       \* Registry.externalPlugins: type and name -> file
    cached,         \* Registry.cached*: type and name -> plugin
    cleanups,       \* Registry.cleanups
    starting,       \* the process that is being launched
    alive,          \* running plugin processes
    lock,           \* who holds Registry.mu
    ctx,            \* "live" until a signal or the end of the command
    closer          \* the goroutine of withEngine

registry == <<external, cached, cleanups>>
vars == <<files, workspace, stage, looked, todo, using, registry, starting, alive, lock, ctx, closer>>

Key(x) == <<x.type, x.name>>
NoFiles == [k \in {} |-> NoPlugin]

Init ==
    /\ files \in Listings /\ workspace \in Workspaces
    /\ stage = "start" /\ looked = 0 /\ todo = <<>> /\ using = {}
    /\ external = NoFiles /\ cached = NoFiles /\ cleanups = {}
    /\ starting = NoPlugin /\ alive = {}
    /\ lock = "free" /\ ctx = "live" /\ closer = "none"

----------------------------------------------------------------------------
(* Discovery.                                                               *)

\* discoverFlat, discoverSubdirectory: the plugins of one layout.
In(dir, layout) ==
    LET here == {f \in files : f.dir = dir /\ f.layout = layout}
    IN  [k \in {Key(f) : f \in here} |-> CHOOSE f \in here : Key(f) = k]

\* What has been seen is not replaced.
Add(found, more) ==
    [k \in DOMAIN found \cup DOMAIN more |-> IF k \in DOMAIN found THEN found[k] ELSE more[k]]

\* Discover: the directories in turn, in each the flat names first.
Look ==
    /\ stage = "looking" /\ looked < Len(Directory)
    /\ looked' = looked + 1
    /\ LET dir == Directory[looked + 1] IN
       external' = Add(Add(external, In(dir, "flat")), In(dir, "sub"))
    /\ UNCHANGED <<files, workspace, stage, todo, using, cached, cleanups, starting, alive, lock, ctx, closer>>

----------------------------------------------------------------------------
(* withEngine and NewEngine.                                                *)

Load ==
    /\ stage = "start" /\ stage' = "looking"
    /\ UNCHANGED <<files, workspace, looked, todo, using, registry, starting, alive, lock, ctx, closer>>

\* A directory that cannot be read does not end the command.
Resolve ==
    /\ stage = "looking" /\ looked = Len(Directory)
    /\ stage' = "resolving" /\ todo' = workspace
    /\ UNCHANGED <<files, workspace, looked, using, registry, starting, alive, lock, ctx, closer>>

\* LoadWorkspace: no zhi.yaml here or further up, or not one that can be
\* parsed.
NoWorkspace ==
    /\ stage = "start"
    /\ stage' = "returned"
    /\ UNCHANGED <<files, workspace, looked, todo, using, registry, starting, alive, lock, ctx, closer>>

Resolving == stage \in {"resolving", "opening"} /\ todo # <<>>
Wanted == Head(todo)

\* A reference is resolved; NewEngine takes the next one.
Got(p) == using' = using \cup {[ref |-> Wanted, plugin |-> p]} /\ todo' = Tail(todo)

\* One failure and the command returns with it.
Fails == stage' = "returned" /\ UNCHANGED <<todo, using>>

\* ConfigProvider .. UIProvider: what is built in is never looked for.
UseBuiltin ==
    /\ Resolving /\ Wanted.name \in Builtin[Wanted.type]
    /\ Got(InProcess)
    /\ UNCHANGED <<files, workspace, looked, stage, registry, starting, alive, lock, ctx, closer>>

\* The options are not what it takes, or what they name cannot be read.
RefuseOptions ==
    /\ Resolving /\ Wanted.name \in Builtin[Wanted.type] /\ Fails
    /\ UNCHANGED <<files, workspace, looked, registry, starting, alive, lock, ctx, closer>>

\* launchExternal, up to the launch, which is under the lock.
LaunchExternal ==
    /\ Resolving /\ Wanted.name \notin Builtin[Wanted.type] /\ lock = "free"
    /\ LET k == Key(Wanted) IN
       \/ k \in DOMAIN cached /\ Got(cached[k]) /\ UNCHANGED <<stage, lock>>
       \/ k \notin DOMAIN cached /\ k \notin DOMAIN external /\ Fails /\ UNCHANGED lock
       \/ /\ k \notin DOMAIN cached /\ k \in DOMAIN external
          /\ lock' = "launch" /\ UNCHANGED <<stage, todo, using>>
    /\ UNCHANGED <<files, workspace, looked, registry, starting, alive, ctx, closer>>

\* A process of the file with the options, which is killed again if it does
\* not come up.
Start ==
    /\ lock = "launch" /\ starting = NoPlugin
    /\ starting' = [file |-> external[Key(Wanted)], options |-> Wanted.options]
    /\ alive' = alive \cup {starting'}
    /\ UNCHANGED <<files, workspace, looked, stage, todo, using, registry, lock, ctx, closer>>

\* Mutant of Registered: a plugin that is cached is not to be closed.
RegisteredNot(p) == UNCHANGED cleanups

Registered(p) == cleanups' = cleanups \cup {p}

Launched ==
    /\ lock = "launch" /\ starting # NoPlugin
    /\ cached' = Add(cached, [k \in {Key(Wanted)} |-> starting]) /\ Registered(starting)
    /\ Got(starting)
    /\ starting' = NoPlugin /\ lock' = "free"
    /\ UNCHANGED <<files, workspace, looked, stage, external, alive, ctx, closer>>

\* The path, the start, the connection or the interface: a failure of each
\* kills what runs.  The audit is warn-only here.
NotLaunched ==
    /\ lock = "launch"
    /\ alive' = alive \ {starting}
    /\ starting' = NoPlugin /\ lock' = "free" /\ Fails
    /\ UNCHANGED <<files, workspace, looked, registry, ctx, closer>>

\* The login with the credentials of zhi.yaml and the component state may fail
\* without consequence, the component definitions may not.
Ready ==
    /\ stage = "resolving" /\ todo = <<>>
    /\ \/ stage' = "running" /\ closer' = "waits"
       \/ stage' = "returned" /\ UNCHANGED closer
    /\ UNCHANGED <<files, workspace, looked, todo, using, registry, alive, starting, lock, ctx>>

----------------------------------------------------------------------------
(* The command and its end.                                                 *)

\* runEdit: the options of zhi.yaml are the provider's it names only.
Open(ref) ==
    /\ stage = "running"
    /\ stage' = "opening" /\ todo' = <<ref>>
    /\ UNCHANGED <<files, workspace, looked, using, registry, alive, starting, lock, ctx, closer>>

Return ==
    /\ stage \in {"running", "opening"} /\ todo = <<>>
    /\ stage' = "returned"
    /\ UNCHANGED <<files, workspace, looked, todo, using, registry, alive, starting, lock, ctx, closer>>

\* Execute: a signal ends the context, whatever the command does then.
Interrupt ==
    /\ ctx = "live" /\ stage \notin {"exiting", "gone"}
    /\ ctx' = "done"
    /\ UNCHANGED <<files, workspace, looked, stage, todo, using, registry, alive, starting, lock, closer>>

Cancel ==
    /\ stage = "returned"
    /\ stage' = "exiting" /\ ctx' = "done"
    /\ UNCHANGED <<files, workspace, looked, todo, using, registry, alive, starting, lock, closer>>

\* main returns, or calls os.Exit, and waits for nobody.
Exit ==
    /\ stage = "exiting"
    /\ stage' = "gone"
    /\ UNCHANGED <<files, workspace, looked, todo, using, registry, alive, starting, lock, ctx, closer>>

\* Engine.Close, in a goroutine of its own.
Close ==
    /\ closer = "waits" /\ ctx = "done" /\ stage # "gone" /\ lock = "free"
    /\ closer' = "closing" /\ lock' = "close"
    /\ UNCHANGED <<files, workspace, looked, stage, todo, using, registry, alive, starting, ctx>>

\* client.Kill, of one after the other.
Kill ==
    /\ closer = "closing" /\ stage # "gone"
    /\ \E p \in cleanups \cap alive : alive' = alive \ {p}
    /\ UNCHANGED <<files, workspace, looked, stage, todo, using, registry, starting, lock, ctx, closer>>

Closed ==
    /\ closer = "closing" /\ stage # "gone" /\ cleanups \cap alive = {}
    /\ cleanups' = {} /\ cached' = NoFiles
    /\ closer' = "done" /\ lock' = "free"
    /\ UNCHANGED <<files, workspace, looked, stage, todo, using, external, alive, starting, ctx>>

Next ==
    \/ Load \/ Look \/ Resolve \/ NoWorkspace \/ UseBuiltin \/ RefuseOptions \/ LaunchExternal \/ Start \/ Launched \/ NotLaunched \/ Ready
    \/ \E ref \in Frontends : Open(ref)
    \/ Return \/ Interrupt \/ Cancel \/ Exit
    \/ Close \/ Kill \/ Closed

Spec == Init /\ [][Next]_vars

----------------------------------------------------------------------------

\* "Built-in providers take precedence" (registry.go), "Flat naming takes
\* precedence" (discovery.go), and the first directory does: no other file
\* that could be meant comes before the one that is used.
Before(f, g) ==
    \/ \E i \in 1..Len(Directory) :
          Directory[i] = f.dir /\ \A j \in 1..i : Directory[j] # g.dir
    \/ f.dir = g.dir /\ f.layout = "flat" /\ g.layout = "sub"

TheRightOne(u) ==
    IF u.ref.name \in Builtin[u.ref.type] THEN u.plugin = InProcess
    ELSE /\ u.plugin.file \in files /\ Key(u.plugin.file) = Key(u.ref)
         /\ \A f \in files : Key(f) = Key(u.ref) => ~Before(f, u.plugin.file)

\* "killing all external plugin processes" (engine.go): no plugin runs that a
\* Close would not kill, whatever failed while others were launched, so that
\* none is left behind where Close is called and ends; none runs twice; and
\* everybody uses the right one, which runs until something is closed.
PluginsAccountedFor ==
    /\ alive \subseteq cleanups \cup {starting}
    /\ \A p, q \in alive : Key(p.file) = Key(q.file) => p = q
    /\ \A u \in using : TheRightOne(u)
    /\ \A u \in using : u.plugin # InProcess /\ closer \in {"none", "waits"} => u.plugin \in alive

\* "All provider options from zhi.yaml are propagated to external plugin
\* processes" (workspace-configuration.md).  They are not: what is launched
\* already is used as it is, with the options of the first reference to it.
OwnOptions == \A u \in using : u.plugin = InProcess \/ u.plugin.options = u.ref.options

\* "Register cleanup to kill plugin processes on shutdown" (root.go).
NothingOutlives == stage = "gone" => alive = {}
=============================================================================

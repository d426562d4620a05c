----------------------------- MODULE MCLaunching -----------------------------
(* A command and the plugins it launches, a call of one of them, and the    *)
(* component manager the command builds once the engine is there, and the   *)
(* tree of values its config plugins load.  A behaviour is one of the four. *)
(*                                                                          *)
(* Two plugin directories with up to seven plugins: the same one in both,   *)
(* in both layouts, under a name that is compiled in; a zhi.yaml with one   *)
(* config plugin, up to two transforms by one plugin, and a store or none.  *)
(* One call, since calls only share their connection: of any method, with   *)
(* errors of one kind, of two and of none, or an apply of up to three lines *)
(* of which one is unread.                                                  *)
(*                                                                          *)
(* Two mount points, next to each other, one in the other either way and    *)
(* one that no path can start with, over directories of up to two files in  *)
(* which the second overrides a path, a value has another one below it, a   *)
(* validator does not compile or compares two paths; two callers with two   *)
(* calls between them, of which one sends copies of the tree, since copies  *)
(* of the two would only be beside each other.                              *)
EXTENDS MCComponents, Sequences

CONSTANTS
    Directory, Name, Builtin, Listings, References, Frontends,
    Calls, Chains, MaxLines, Window,
    Caller, Judge, Segment, Mounts, Directories, Edits, Val, MaxCalls

VARIABLES
    system, files, workspace, stage, looked, todo, using, external, cached, cleanups, starting, alive,
    lock, ctx, closer,
    service, conn, run, server, method, handler, meant, seen, printed, transit, shown, end,
    mounts, dirs, started, plugins, tree, treeLock, job, calls, told

Reference(t, n, o) == [type |-> t, name |-> n, options |-> o]
Executable(d, l, t, n) == [dir |-> d, layout |-> l, type |-> t, name |-> n]

MCDirectory == <<"own", "users">>

MCName == {"x", "file", "json", "tui"}

MCBuiltin == [config |-> {"file"}, transform |-> {}, store |-> {"json"}, ui |-> {"tui"}]

MCListings ==
    SUBSET {Executable("own", "sub", "config", "x"), Executable("own", "flat", "config", "x"),
            Executable("users", "flat", "config", "x"), Executable("own", "sub", "transform", "x"),
            Executable("users", "flat", "transform", "x"), Executable("users", "flat", "ui", "x"),
            Executable("own", "flat", "config", "file")}

MCReferences ==
    {<<config>> \o transforms \o store :
        config \in {Reference("config", "file", "one"), Reference("config", "x", "none")},
        transforms \in {<<>>, <<Reference("transform", "x", "one")>>,
                        <<Reference("transform", "x", "one"), Reference("transform", "x", "two")>>},
        store \in {<<>>, <<Reference("store", "json", "none")>>}}

MCFrontends == {Reference("ui", "tui", "none"), Reference("ui", "x", "none"), Reference("ui", "x", "one")}

Launch == INSTANCE Launching
    WITH Workspaces <- References, NoPlugin <- Absent, InProcess <- Empty

\* A reference of zhi.yaml is to a config plugin, a transform or a store, and
\* what `zhi edit` opens is a frontend.
ASSUME LaunchAssumption ==
    /\ Listings \subseteq SUBSET Launch!File
    /\ References \subseteq Seq({r \in Launch!Ref : r.type # "ui"})
    /\ Frontends \subseteq {r \in Launch!Ref : r.type = "ui"}
    /\ {Absent, Empty} \cap Launch!Process = {}

launchVars ==
    <<files, workspace, stage, looked, todo, using, external, cached, cleanups, starting, alive, lock, ctx, closer>>

Wires == INSTANCE Wire

\* The errors that are wrapped are of the kinds a store tells apart.
ASSUME WireAssumption == Chains \subseteq SUBSET Wires!Kind

wireVars ==
    <<service, conn, run, server, method, handler, meant, seen, printed, transit, shown, end>>

Node(path, val, rule) == [path |-> path, val |-> val, rule |-> rule]

MCMounts ==
    {<<<<"a">>, <<"b">>>>, <<<<"a">>, <<"a", "b">>>>, <<<<"a", "b">>, <<"a">>>>, <<<<"a">>, <<"A">>>>}

MCFiles ==
    {<<{Node(<<"host">>, "x", Absent), Node(<<"host", "b">>, "x", Absent)},
       {Node(<<"host">>, "y", <<"b", "host">>)}>>,
     <<{Node(<<"host">>, "x", Garbage), Node(<<"b", "host">>, "x", Absent)},
       {Node(<<"host">>, "x", Absent)}>>,
     <<{Node(<<"host">>, "x", Garbage)}>>,
     <<>>}

MCEdits == {<<"a", "host">>, <<"a", "b", "host">>, <<"b", "host">>}

Trees == INSTANCE ConfigPlugins
    WITH Uncompiled <- Garbage, None <- Absent, lock <- treeLock

\* Mount points and what names a node are sequences of words, values are those
\* that are set, and a caller sets what the tree takes.
ASSUME TreesAssumption ==
    /\ Segment \subseteq STRING /\ Edits \subseteq Seq(Segment) \ {<<>>}
    /\ Mounts \subseteq Seq(Seq(STRING))
    /\ \A dir \in Directories :
          /\ dir \in Seq({dir[i] : i \in DOMAIN dir})
          /\ \A i \in DOMAIN dir : \A n \in dir[i] : n.path \in Seq(STRING) /\ n.val \in Val

treeVars == <<mounts, dirs, started, plugins, tree, treeLock, job, calls, told>>

LaunchingInit ==
    /\ system \in {"components", "launching", "calls", "trees"}
    /\ system # "launching" => files = {} /\ workspace = <<Reference("config", "file", "one")>>
    /\ system # "components" => yaml = Chain /\ file = Absent
    /\ system # "calls" => service = "ui"
    /\ system # "trees" => mounts = <<<<"a">>, <<"b">>>> /\ dirs = <<<<>>, <<>>>>
    /\ Init /\ Launch!Init /\ Wires!WireInit /\ Trees!Init

LaunchingNext ==
    \/ system = "components" /\ Next /\ UNCHANGED <<system, launchVars, wireVars, treeVars>>
    \/ system = "launching" /\ Launch!Next /\ UNCHANGED <<system, wireVars, treeVars, vars>>
    \/ system = "calls" /\ Wires!WireNext /\ UNCHANGED <<system, launchVars, treeVars, vars>>
    \/ system = "trees" /\ Trees!Next /\ UNCHANGED <<system, launchVars, wireVars, vars>>

LaunchingSpec ==
    /\ LaunchingInit /\ [][LaunchingNext]_<<system, launchVars, wireVars, treeVars, vars>>
    /\ system = "calls" => Wires!WireFairness

\* What runs can be closed, runs once, and is the plugin that was meant by
\* everybody who uses it ("killing all external plugin processes", engine.go).
PluginsAccountedFor == Launch!PluginsAccountedFor

\* A caller is told what the plugin's implementation answered (grpc_errors.go,
\* controller_client.go), and an apply succeeds with all it printed.  What
\* config plugins answer is the last that was set, or "the last file (by name
\* sort order)" (parse.go), of whichever of the mounted ones it is; a tree that
\* is loaded or judged is one that was there (compose.go, engine.go).
AnswersTrue ==
    /\ Wires!AnswersTrue
    /\ Trees!TypeOK /\ Trees!ActAsOne /\ Trees!LastFileWins
    /\ Trees!LoadsWhole /\ Trees!JudgedAsItIs

\* Every call of a plugin ends, on both sides of the wire, whoever has gone; a
\* validator may look into the tree while others wait to write, "without
\* deadlocking" (config.go).
CallsEnd ==
    /\ system = "calls" => Wires!CallsEnd
    /\ []Trees!NobodyStuck

\* "Run starts the UI and blocks until the user exits" (ui/plugin.go): it
\* changes nothing after that.
NothingAfterRun == Wires!NothingAfterRun

\* "Register cleanup to kill plugin processes on shutdown" (root.go): when the
\* command is gone so are its plugins.
NothingOutlives == Launch!NothingOutlives
=============================================================================

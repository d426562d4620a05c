--------------------------- MODULE ConfigPlugins ---------------------------
(***************************************************************************)
(* Config plugins that read structured files, mounted side by side as one  *)
(* plugin, and the tree of values that is loaded from them and judged.     *)
(*                                                                         *)
(* A path is the sequence of its segments and a mount point that of its    *)
(* prefix, which ends with a slash.  A validator compares its value with   *)
(* another one of its plugin.  Keys with slashes in them, by which one     *)
(* file can name a path twice, are left out.                               *)
(*                                                                         *)
(* Source: pkg/zhiplugin/config/compose.go, config.go, grpc_client.go,     *)
(*         pkg/providers/config/structuredfile, internal/core/engine.go    *)
(***************************************************************************)
EXTENDS Naturals, SequencesExt

CONSTANTS
    Caller,         \* goroutines of one process
    Judge,          \* the ones of them that send copies of the tree
    Segment,        \* the well-formed segments of a path
    Mounts,         \* the sequences of mount points that are tried
    Directories,    \* what the directories of the plugins hold: for each, its
                    \* files by name, sets of nodes [path, val, rule]
    Edits,          \* the paths that are set
    Val,
    Uncompiled,     \* a validator that is not Go
    MaxCalls,       \* bound on the calls
    None

VARIABLES
    mounts, dirs,
    started,    \* whether the plugins and their composition could be made
    plugins,    \* of each plugin what it has at its own paths
    tree,       \* the tree the callers share
    lock,       \* its RWMutex: who reads, and who waits to write
    job,        \* what every caller is at
    calls,
    \* History: the values as if there were one plugin.
    told

vars == <<mounts, dirs, started, plugins, tree, lock, job, calls, told>>

ValidatePath(path) == path # <<>> /\ \A i \in DOMAIN path : path[i] \in Segment

-----------------------------------------------------------------------------
(* A plugin and its files.                                                 *)

\* What one map has, and what the other has beside it.
Overlay(f, g) == [p \in DOMAIN f \cup DOMAIN g |-> IF p \in DOMAIN f THEN f[p] ELSE g[p]]

Put(f, path, v) == [p \in DOMAIN f \cup {path} |-> IF p = path THEN v ELSE f[p]]

\* What has a value is a leaf, and nothing is looked for below it.
Leaves(file) == {n \in file : ~\E m \in file : IsStrictPrefix(m.path, n.path)}

Entries(file) ==
    [p \in {n.path : n \in Leaves(file)} |-> CHOOSE n \in Leaves(file) : n.path = p]

\* Mutant of LoadDir: the first file to name a path.
LoadFirst(dir) ==
    LET merged[n \in 0 .. Len(dir)] == IF n = 0 THEN <<>> ELSE Overlay(merged[n - 1], Entries(dir[n]))
    IN  merged[Len(dir)]

LoadDir(dir) ==
    LET merged[n \in 0 .. Len(dir)] == IF n = 0 THEN <<>> ELSE Overlay(Entries(dir[n]), merged[n - 1])
    IN  merged[Len(dir)]

\* One bad path in any of the files, or one bad validator in what is left of
\* them, and there is no plugin.
Loads(dir) ==
    /\ \A i \in DOMAIN dir : \A n \in Leaves(dir[i]) : ValidatePath(n.path)
    /\ \A p \in DOMAIN LoadDir(dir) : LoadDir(dir)[p].rule # Uncompiled

Loaded(dir) ==
    [p \in DOMAIN LoadDir(dir) |-> [val |-> LoadDir(dir)[p].val, rule |-> LoadDir(dir)[p].rule]]

\* A rule names another path of the plugin; without one, or without a value,
\* there is nothing to find.
Finding(rules, path, values) ==
    /\ path \in DOMAIN rules \cap DOMAIN values
    /\ rules[path].rule # None
    /\ LET other == rules[path].rule
       IN  other \in DOMAIN values => values[other] # values[path]

-----------------------------------------------------------------------------
(* Plugins side by side.                                                   *)

\* Mutant of Mountable: one side of those that come later.
CompareOnce(points) ==
    \A i, j \in DOMAIN points : i < j => ~IsPrefix(points[j], points[i])

\* No mount point lies in another.
Mountable(points) ==
    \A i, j \in DOMAIN points : i # j => ~IsPrefix(points[i], points[j])

Under(i, path) == IsStrictPrefix(mounts[i], path)

\* The first that fits, if there is any.
Child(path) == {i \in DOMAIN mounts : Under(i, path) /\ \A j \in 1 .. i - 1 : ~Under(j, path)}

Relative(i, path) == SubSeq(path, Len(mounts[i]) + 1, Len(path))

Listed(i) == {mounts[i] \o p : p \in DOMAIN plugins[i]}

Gets(path) ==
    {plugins[i][Relative(i, path)].val :
        i \in {k \in Child(path) : Relative(k, path) \in DOMAIN plugins[k]}}

\* A plugin sees of the tree what is under its own mount point.
PrefixedTree(i, values) ==
    [p \in {Relative(i, q) : q \in {r \in DOMAIN values : Under(i, r)}} |-> values[mounts[i] \o p]]

Validate(path, values) ==
    \E i \in Child(path) : Finding(plugins[i], Relative(i, path), PrefixedTree(i, values))

Idle == [kind |-> "idle", left |-> {}, have |-> <<>>, at |-> None, copy |-> <<>>, quiet |-> TRUE]

Init ==
    /\ mounts \in Mounts
    /\ dirs \in [DOMAIN mounts -> Directories]
    /\ started = (Mountable(mounts) /\ \A i \in DOMAIN mounts : Loads(dirs[i]))
    /\ plugins = [i \in DOMAIN mounts |-> IF started THEN Loaded(dirs[i]) ELSE <<>>]
    /\ told = [p \in UNION {Listed(i) : i \in DOMAIN mounts} |->
                  CHOOSE v \in Val : \E i \in DOMAIN mounts :
                      /\ p \in Listed(i)
                      /\ v = plugins[i][Relative(i, p)].val]
    /\ tree = (IF \A p \in DOMAIN told : ValidatePath(p) THEN told ELSE <<>>)
    /\ lock = [readers |-> {}, waits |-> None]
    /\ job = [c \in Caller |-> Idle]
    /\ calls = 0

TypeOK ==
    /\ started => Mountable(mounts)
    /\ lock.readers \subseteq Caller /\ lock.waits \in Caller \cup {None}
    /\ \A p \in DOMAIN tree : ValidatePath(p) /\ tree[p] \in Val
    /\ \A c \in Caller : job[c].kind \in {"idle", "list", "get", "loaded", "failed", "judge",
                                         "judged", "hold", "together", "set", "write"}

Ready(c) ==
    /\ started /\ calls < MaxCalls
    /\ job[c].kind \in {"idle", "loaded", "failed", "judged", "together"}
    /\ calls' = calls + 1

Begin(c, kind, left) ==
    /\ Ready(c)
    /\ job' = [job EXCEPT ![c] = [Idle EXCEPT !.kind = kind, !.left = left]]

-----------------------------------------------------------------------------
(* Loading.                                                                *)

LoadTree(c) ==
    /\ Begin(c, "list", DOMAIN mounts)
    /\ UNCHANGED <<mounts, dirs, started, plugins, tree, lock, told>>

\* All children at once: one after the other answers, and one error is an
\* error of all.
ListChild(c) ==
    /\ job[c].kind = "list" /\ job[c].left # {}
    /\ \/ \E i \in job[c].left :
            job' = [job EXCEPT ![c].left = @ \ {i},
                               ![c].have = Overlay([p \in Listed(i) |-> None], @)]
       \/ job' = [job EXCEPT ![c] = [Idle EXCEPT !.kind = "failed"]]
    /\ UNCHANGED <<mounts, dirs, started, plugins, tree, lock, calls, told>>

AllListed(c) ==
    /\ job[c].kind = "list" /\ job[c].left = {}
    /\ job' = [job EXCEPT ![c].kind = "get", ![c].left = DOMAIN job[c].have]
    /\ UNCHANGED <<mounts, dirs, started, plugins, tree, lock, calls, told>>

\* A path that the tree does not take ends it, which paths under a mount
\* point that is none do.
GetPath(c) ==
    /\ job[c].kind = "get"
    /\ IF job[c].left = {} THEN job' = [job EXCEPT ![c].kind = "loaded"]
       ELSE \E p \in job[c].left :
              job' = IF ~ValidatePath(p) THEN [job EXCEPT ![c] = [Idle EXCEPT !.kind = "failed"]]
                     ELSE [job EXCEPT ![c].left = @ \ {p},
                                      ![c].have = [q \in DOMAIN @ |->
                                          IF q = p THEN CHOOSE v \in Gets(p) : TRUE ELSE @[q]]]
    /\ UNCHANGED <<mounts, dirs, started, plugins, tree, lock, calls, told>>

-----------------------------------------------------------------------------
(* Setting a value: the plugin first, then the tree, whose lock lets nobody *)
(* in who comes after a writer.                                             *)

Disturbed(c) == [d \in Caller |-> IF d = c THEN job[d] ELSE [job[d] EXCEPT !.quiet = FALSE]]

SetValue(c) ==
    /\ Ready(c)
    /\ \E p \in Edits, v \in Val : \E i \in Child(p) :
         /\ LET own == Relative(i, p)
                rule == IF own \in DOMAIN plugins[i] THEN plugins[i][own].rule ELSE None
            IN  plugins' = [plugins EXCEPT ![i] = Put(@, own, [val |-> v, rule |-> rule])]
         /\ told' = Put(told, p, v)
         /\ job' = [Disturbed(c) EXCEPT ![c] = [Idle EXCEPT !.kind = "set", !.at = p,
                                                            !.have = Put(<<>>, p, v)]]
    /\ UNCHANGED <<mounts, dirs, started, tree, lock>>

Announce(c) ==
    /\ job[c].kind = "set" /\ lock.waits = None
    /\ lock' = [lock EXCEPT !.waits = c]
    /\ job' = [job EXCEPT ![c].kind = "write"]
    /\ UNCHANGED <<mounts, dirs, started, plugins, tree, calls, told>>

TreeSet(c) ==
    /\ job[c].kind = "write" /\ lock.readers = {}
    /\ tree' = Overlay(job[c].have, tree)
    /\ lock' = [lock EXCEPT !.waits = None]
    /\ job' = [Disturbed(c) EXCEPT ![c] = Idle]
    /\ UNCHANGED <<mounts, dirs, started, plugins, calls, told>>

-----------------------------------------------------------------------------
(* Judging the tree.                                                       *)

\* Engine.Validate: the paths, and for each of them a copy of the tree that
\* is read path by path and sent to the plugin.
ValidateTree(c) ==
    /\ c \in Judge
    /\ Begin(c, "judge", DOMAIN tree)
    /\ lock.waits = None
    /\ UNCHANGED <<mounts, dirs, started, plugins, tree, lock, told>>

NextPath(c) ==
    /\ job[c].kind = "judge" /\ job[c].at = None
    /\ IF job[c].left = {} THEN job' = [job EXCEPT ![c].kind = "judged"]
       ELSE \E p \in job[c].left : job' = [job EXCEPT ![c].left = @ \ {p}, ![c].at = p, ![c].copy = <<>>]
    /\ UNCHANGED <<mounts, dirs, started, plugins, tree, lock, calls, told>>

CopyPath(c) ==
    /\ job[c].kind = "judge" /\ job[c].at # None
    /\ lock.waits = None
    /\ \E p \in DOMAIN tree \ DOMAIN job[c].copy :
         job' = [job EXCEPT ![c].copy = Put(@, p, tree[p])]
    /\ UNCHANGED <<mounts, dirs, started, plugins, tree, lock, calls, told>>

JudgePath(c) ==
    /\ job[c].kind = "judge" /\ job[c].at # None
    /\ DOMAIN job[c].copy = DOMAIN tree
    /\ job' = [job EXCEPT ![c].have = Put(@, job[c].at, Validate(job[c].at, job[c].copy)),
                          ![c].at = None]
    /\ UNCHANGED <<mounts, dirs, started, plugins, tree, lock, calls, told>>

\* Tree.Validate: under the lock, with a reader that takes none.
HoldTree(c) ==
    /\ Begin(c, "hold", DOMAIN tree)
    /\ lock.waits = None
    /\ lock' = [lock EXCEPT !.readers = @ \cup {c}]
    /\ UNCHANGED <<mounts, dirs, started, plugins, tree, told>>

\* Mutant of UnsafeReader: the tree itself as the reader.
LockedReader(c) == lock.waits = None

UnsafeReader(c) == c \in lock.readers

\* Each value is judged by validators of its own, over the whole tree; here
\* by those of its plugin, which look no further than its mount point.
JudgeHeld(c) ==
    /\ job[c].kind = "hold" /\ job[c].left # {}
    /\ UnsafeReader(c)
    /\ \E p \in job[c].left :
         job' = [job EXCEPT ![c].left = @ \ {p}, ![c].have = Put(@, p, Validate(p, tree))]
    /\ UNCHANGED <<mounts, dirs, started, plugins, tree, lock, calls, told>>

LetTreeGo(c) ==
    /\ job[c].kind = "hold" /\ job[c].left = {}
    /\ lock' = [lock EXCEPT !.readers = @ \ {c}]
    /\ job' = [job EXCEPT ![c].kind = "together"]
    /\ UNCHANGED <<mounts, dirs, started, plugins, tree, calls, told>>

-----------------------------------------------------------------------------

Step(c) ==
    \/ ListChild(c) \/ AllListed(c) \/ GetPath(c) \/ Announce(c) \/ TreeSet(c)
    \/ NextPath(c) \/ CopyPath(c) \/ JudgePath(c) \/ JudgeHeld(c) \/ LetTreeGo(c)

Next == \E c \in Caller : LoadTree(c) \/ SetValue(c) \/ ValidateTree(c) \/ HoldTree(c) \/ Step(c)

Spec == Init /\ [][Next]_vars

-----------------------------------------------------------------------------
(* Properties.                                                             *)

\* The plugins together are one: every path that is listed is found and has
\* the value it was set to last.
ActAsOne ==
    started =>
        /\ UNION {Listed(i) : i \in DOMAIN mounts} = DOMAIN told
        /\ \A p \in DOMAIN told : Gets(p) = {told[p]}

\* "If the same path appears in multiple files the last file (by name sort
\* order) wins."
LastFileWins ==
    started /\ calls = 0 =>
        \A i \in DOMAIN mounts : \A p \in DOMAIN plugins[i] : \E k \in DOMAIN dirs[i] :
            /\ \E n \in Leaves(dirs[i][k]) : n.path = p /\ n.val = plugins[i][p].val
            /\ ~\E later \in k + 1 .. Len(dirs[i]) : \E n \in Leaves(dirs[i][later]) : n.path = p

\* A load that nothing was set beside has every path with its value.
LoadsWhole == \A c \in Caller : job[c].kind = "loaded" /\ job[c].quiet => job[c].have = told

\* What is found of a tree that nobody changed meanwhile is what there is to
\* find in all of it, and Tree.Validate finds that whoever waits to change it.
JudgedAsItIs ==
    \A c \in Caller :
        \/ job[c].kind = "hold"
        \/ job[c].kind \in {"judge", "judged", "together"} /\ job[c].quiet
        => \A p \in DOMAIN job[c].have : job[c].have[p] = Validate(p, tree)

\* "Validator callbacks receive a lock-free TreeReader so they can call
\* Get/List without deadlocking": whoever waits for whom, while a call is not
\* over somebody can go on.
NobodyStuck ==
    (\E c \in Caller : job[c].kind \in {"list", "get", "judge", "hold", "set", "write"})
        => \E c \in Caller : ENABLED Step(c)
=============================================================================

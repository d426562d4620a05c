----------------------------- MODULE Publishing -----------------------------
(***************************************************************************)
(* Plugins and workspaces on their way through an OCI registry: publishers *)
(* push artifacts and tag them, a user's machine installs plugins and      *)
(* workspaces, pins what it has in a lock file and sets plugins up from it.*)
(*                                                                         *)
(* The registry (external) keeps what it was given by digest and points    *)
(* tags at it; it answers any request with an error when it likes.  Blobs  *)
(* nobody points at cannot be seen, so an artifact's content arrives in    *)
(* one step and each of its tags in another.  One command runs at a time   *)
(* on the machine; what its steps do to single files is the subject of     *)
(* PluginLifecycle.                                                        *)
(*                                                                         *)
(* Source: pkg/sharing/client/push.go, client.go, pkg/sharing/lockfile,    *)
(*         pkg/sharing/manifest, pkg/sharing/verify/signing.go,            *)
(*         internal/cli/plugin_publish.go, plugin.go, workspace.go         *)
(***************************************************************************)
EXTENDS Trust, FiniteSets

CONSTANTS
    Publishers,
    Builds,         \* what somebody publishes
    About,          \* of every build [name, kind, version, platforms, files,
                    \* deps]: a workspace's has files and deps, a sequence of
                    \* [name, tag, optional]
    Earlier,        \* the builds that were published before, under every tag;
                    \* the others are what is being built
    Path,           \* the repository of every name
    Policies,       \* what the policy file may hold
    Host,           \* the platform of the user's machine
    Hidden, Ignored, Links,     \* files in hidden directories, files matched
                                \* by .gitignore, symbolic links
    Tags, VersionTag,   \* VersionTag[v] is "v" and the version
    Ways, Flags,    \* the options of a publish and of an install that are
                    \* used: an install's is [force, skip, platform]
    MaxPushes, MaxCommands,     \* bounds
    None

Names == {About[b].name : b \in Builds}
Plugins == {n \in Names : \E b \in Builds : About[b].name = n /\ About[b].kind = "plugin"}

\* An image index lists the platforms in the order of a map's iteration, so
\* that one build has several digests; of two platforms there are two orders.
Roots(b) ==
    [build : {b}, order : IF Cardinality(About[b].platforms) > 1 THEN 1 .. 2 ELSE {1}]

AllRoots == UNION {Roots(b) : b \in Builds}

Platforms == {Host} \cup UNION {About[b].platforms : b \in Builds}

\* What a workspace needs, what the registry knows of a tag, what the
\* machine has and notes of a plugin: the digest and the noted platform are
\* the metadata's, the build and the platform the binary's.
Dependency == [name : Plugins, tag : Tags, optional : BOOLEAN]
Tagged == [root : AllRoots, by : Publishers \cup {None}]
Note == [digest : AllRoots \cup {None}, build : Builds, platform : Platforms, noted : Platforms,
         skipped : BOOLEAN, local : BOOLEAN]

VARIABLES
    held,       \* artifacts the registry has the content of
    tags,       \* tags[n, t]: the artifact, and who put the tag there
    push,       \* what every publisher is at
    installed,  \* the plugins on the machine and what is noted about them
    lock,       \* zhi-plugins.lock
    cmd,        \* the command on the machine
    policy,     \* what the policy file says
    pushes, commands,
    \* History: the plugins a tag moved of while they were installed.
    moved

registry == <<held, tags, push, pushes>>
machine == <<installed, lock, cmd, commands, moved>>
vars == <<registry, machine, policy>>

IdlePush == [step |-> "idle", root |-> None, tags |-> <<>>, told |-> <<>>, sign |-> FALSE,
             bundle |-> None]
IdleCmd == [kind |-> "none", step |-> "idle", queue |-> <<>>, seen |-> None, skip |-> FALSE,
            platform |-> Host, root |-> None, dir |-> {}]

TypeOK ==
    /\ held \subseteq AllRoots
    /\ tags \in [Names \X Tags -> Tagged \cup {None}]
    /\ \A x \in Publishers :
         /\ push[x].step \in {"idle", "copy", "tag", "sign", "done"}
         /\ push[x].root \in AllRoots \cup {None}
    /\ DOMAIN installed = Plugins
    /\ cmd.kind \in {"none", "install", "workspace", "files", "setup"}
    /\ cmd.step \in {"idle", "open", "pull", "copy", "done"}
    /\ moved \subseteq Plugins

Init ==
    /\ held = {[build |-> b, order |-> 1] : b \in Earlier}
    /\ tags = [at \in Names \X Tags |->
                 IF \E b \in Earlier : About[b].name = at[1]
                 THEN [root |-> CHOOSE r \in held : About[r.build].name = at[1], by |-> None]
                 ELSE None]
    /\ push = [x \in Publishers |-> IdlePush]
    /\ installed = [n \in Plugins |-> None]
    /\ lock = None
    /\ cmd = IdleCmd
    /\ policy \in {ParsePolicy(file) : file \in Policies}
    /\ pushes = 0 /\ commands = 0
    /\ moved = {}

-----------------------------------------------------------------------------
(* Publishing.                                                             *)

\* What a bundle takes from a directory.
BundleOf(b) == About[b].files \ (Hidden \cup Ignored)

\* A link is announced as empty and its content does not fit.
CanBePacked(b) == BundleOf(b) \cap Links = {}

\* zhi plugin publish and zhi workspace publish, with or without --tag,
\* --latest and --sign.
Publish(x) ==
    /\ push[x].step \in {"idle", "done"}
    /\ pushes < MaxPushes
    /\ \E b \in Builds \ Earlier : \E root \in Roots(b), way \in Ways :
         /\ CanBePacked(b)
         /\ push' = [push EXCEPT ![x] =
              [step |-> "copy", root |-> root, sign |-> way.sign, bundle |-> None,
               tags |-> <<VersionTag[About[b].version]>> \o way.more,
               told |-> <<VersionTag[About[b].version]>> \o way.more]]
    /\ pushes' = pushes + 1
    /\ UNCHANGED <<held, tags, machine, policy>>

\* oras.Copy up to its tag: blobs, manifests, the index.
CopyContent(x) ==
    /\ push[x].step = "copy"
    /\ held' = held \cup {push[x].root}
    /\ push' = [push EXCEPT ![x].step = "tag"]
    /\ UNCHANGED <<tags, pushes, machine, policy>>

\* A tag that is given after the push names something else.
TagOtherBuild(x, root) ==
    IF Len(push[x].tags) = Len(push[x].told) THEN root
    ELSE CHOOSE r \in held : Cardinality(held) = 1 \/ r # root

TagRoot(x, root) == root

\* The first tag, and the additional ones one after the other.
PushTag(x) ==
    LET at == <<About[push[x].root.build].name, Head(push[x].tags)>>
        rest == Tail(push[x].tags)
    IN  /\ push[x].step = "tag"
        /\ tags' = [tags EXCEPT ![at] = [root |-> TagRoot(x, push[x].root), by |-> x]]
        /\ push' = [push EXCEPT ![x].tags = rest,
                                ![x].step = IF rest # <<>> THEN "tag"
                                            ELSE IF push[x].sign THEN "sign" ELSE "done"]
        /\ UNCHANGED <<held, pushes, machine, policy>>

\* With a key or an identity token; the bundle stays in a local file.
SignArtifact(x) ==
    /\ push[x].step = "sign"
    /\ push' = [push EXCEPT ![x].step = "done", ![x].bundle = push[x].root]
    /\ UNCHANGED <<held, tags, pushes, machine, policy>>

\* What was pushed stays where it is.
PublishFails(x) ==
    /\ push[x].step \in {"copy", "tag", "sign"}
    /\ push' = [push EXCEPT ![x] = IdlePush]
    /\ UNCHANGED <<held, tags, pushes, machine, policy>>

-----------------------------------------------------------------------------
(* Installing.                                                             *)

AtTag(t) == [tag |-> t, root |-> None]
AtDigest(root) == [tag |-> None, root |-> root]

\* What the registry answers for a reference, None for not found.
Resolve(n, at) ==
    IF at.root # None THEN (IF at.root \in held THEN at.root ELSE None)
    ELSE IF at.tag = None \/ tags[<<n, at.tag>>] = None THEN None
    ELSE tags[<<n, at.tag>>].root

Ready == cmd.step \in {"idle", "done"} /\ commands < MaxCommands

\* The platform a command installs for: what --platform says, or the
\* machine's own.
EffectivePlatform(override) == IF override = None THEN Host ELSE override

Start(kind, queue, skip, platform) ==
    /\ commands' = commands + 1
    /\ cmd' = [kind |-> kind, step |-> "pull", queue |-> queue, seen |-> None, skip |-> skip,
               platform |-> platform, root |-> None, dir |-> {}]

\* zhi plugin install <name> [--force] [--skip-verify] [--platform].  The
\* command checks the policy before the client does.
Install ==
    /\ Ready
    /\ \E n \in Plugins, t \in Tags, flags \in Flags :
         /\ VerifyArtifact(policy, Path[n], flags.skip).ok
         /\ Start("install",
                  <<[name |-> n, at |-> AtTag(t), force |-> flags.force, optional |-> FALSE]>>,
                  flags.skip, EffectivePlatform(flags.platform))
    /\ UNCHANGED <<registry, installed, lock, policy, moved>>

\* zhi plugin install --path.  No digest of an artifact is noted.
InstallLocal ==
    /\ Ready
    /\ \E b \in Builds \ Earlier :
         /\ About[b].kind = "plugin" /\ Host \in About[b].platforms
         /\ installed' = [installed EXCEPT ![About[b].name] =
              [digest |-> None, build |-> b, platform |-> Host, noted |-> Host,
               skipped |-> FALSE, local |-> TRUE]]
         /\ moved' = moved \ {About[b].name}
    /\ commands' = commands + 1
    /\ cmd' = IdleCmd
    /\ UNCHANGED <<registry, lock, policy>>

Ahead == Head(cmd.queue)

\* The first part of PullPlugin: policy and the artifact's own digest.
ResolveRoot ==
    /\ cmd.step = "pull" /\ cmd.queue # <<>>
    /\ VerifyArtifact(policy, Path[Ahead.name], cmd.skip).ok
    /\ Resolve(Ahead.name, Ahead.at) # None
    /\ cmd' = [cmd EXCEPT !.step = "copy", !.seen = Resolve(Ahead.name, Ahead.at)]
    /\ UNCHANGED <<registry, installed, lock, policy, commands, moved>>

\* Of an index the platform that is wanted; a single manifest is taken as it
\* is, whatever it was built for.
ResolvePlatform(b, wanted) ==
    IF Cardinality(About[b].platforms) = 1 THEN About[b].platforms
    ELSE About[b].platforms \cap {wanted}

AlreadyInstalled(b) ==
    /\ ~Ahead.force
    /\ installed[About[b].name] # None
    /\ About[installed[About[b].name].build].version = About[b].version

PullDone == [cmd EXCEPT !.step = "pull", !.queue = Tail(@)]

\* The rest of it: the reference is resolved once more, and what is noted is
\* the digest of the first time and the platform that was wanted.
CopyAndInstall ==
    LET root == Resolve(Ahead.name, Ahead.at)
    IN  /\ cmd.step = "copy"
        /\ root # None
        /\ \E platform \in ResolvePlatform(root.build, cmd.platform) :
             IF AlreadyInstalled(root.build) THEN UNCHANGED <<installed, moved>>
             ELSE /\ installed' = [installed EXCEPT ![About[root.build].name] =
                       [digest |-> cmd.seen, build |-> root.build, platform |-> platform,
                        noted |-> cmd.platform, skipped |-> cmd.skip, local |-> FALSE]]
                  /\ moved' = IF root # cmd.seen THEN moved \cup {About[root.build].name}
                              ELSE moved \ {About[root.build].name}
        /\ cmd' = PullDone
        /\ UNCHANGED <<registry, lock, policy, commands>>

\* Refused, not found, no such platform, no answer: the end of the command,
\* unless a workspace can do without the plugin.
PullFails ==
    /\ cmd.step \in {"pull", "copy"} /\ cmd.queue # <<>>
    /\ cmd' = IF Ahead.optional THEN PullDone ELSE IdleCmd
    /\ UNCHANGED <<registry, installed, lock, policy, commands, moved>>

CommandDone ==
    /\ cmd.step = "pull" /\ cmd.queue = <<>>
    /\ cmd' = [cmd EXCEPT !.step = "done", !.skip = FALSE, !.platform = Host]
    /\ UNCHANGED <<registry, installed, lock, policy, commands, moved>>

-----------------------------------------------------------------------------
(* Workspaces.                                                             *)

\* zhi workspace install <workspace>, or its files only (--skip-plugins).  No
\* policy is asked about the workspace itself.
WorkspaceInstall ==
    /\ Ready
    /\ \E n \in Names \ Plugins, t \in Tags, kind \in {"workspace", "files"} :
         /\ Resolve(n, AtTag(t)) # None
         /\ commands' = commands + 1
         /\ cmd' = [IdleCmd EXCEPT !.kind = kind, !.step = "open",
                                   !.root = Resolve(n, AtTag(t))]
    /\ UNCHANGED <<registry, installed, lock, policy, moved>>

Needed(b) ==
    LET deps == About[b].deps
    IN  [i \in DOMAIN deps |->
            [name |-> deps[i].name, at |-> AtTag(deps[i].tag), force |-> FALSE,
             optional |-> deps[i].optional]]

\* Entry by entry, into a directory of its own; an error leaves what was
\* unpacked before.
ExtractBundle ==
    /\ cmd.step = "open"
    /\ \E unpacked \in SUBSET BundleOf(cmd.root.build) :
         cmd' = IF unpacked # BundleOf(cmd.root.build) THEN IdleCmd
                ELSE [cmd EXCEPT !.step = "pull", !.dir = unpacked,
                        !.queue = IF cmd.kind = "files" THEN <<>> ELSE Needed(cmd.root.build)]
    /\ UNCHANGED <<registry, installed, lock, policy, commands, moved>>

\* zhi workspace lock: every plugin that is installed.  The file lists the
\* noted platform too, with the artifact's digest once more; nothing reads it.
Lock ==
    /\ Ready
    /\ \E n \in Plugins : installed[n] # None
    /\ lock' = [n \in {m \in Plugins : installed[m] # None} |->
                   [digest |-> installed[n].digest, build |-> installed[n].build,
                    moved |-> n \in moved]]
    /\ commands' = commands + 1
    /\ cmd' = IdleCmd
    /\ UNCHANGED <<registry, installed, policy, moved>>

\* A lock file in which a digest is missing cannot be loaded.
LockLoads == lock # None /\ \A n \in DOMAIN lock : lock[n].digest # None

PinnedByTag(entry) == AtTag(VersionTag[About[entry.build].version])

Pinned(entry) == AtDigest(entry.digest)

\* In which the plugins may be listed: by the names of their files, which are
\* anything here.
Orders(S) ==
    {order \in [1 .. Cardinality(S) -> S] : \A n \in S : \E i \in DOMAIN order : order[i] = n}

\* zhi workspace setup --from-lock: one after the other, for the machine's own
\* platform; the first failure ends it.
Setup ==
    /\ Ready
    /\ LockLoads
    /\ \E order \in Orders(DOMAIN lock) :
         Start("setup",
               [i \in DOMAIN order |->
                  [name |-> order[i], at |-> Pinned(lock[order[i]]), force |-> TRUE,
                   optional |-> FALSE]],
               FALSE, Host)
    /\ UNCHANGED <<registry, installed, lock, policy, moved>>

-----------------------------------------------------------------------------

Next ==
    \/ \E x \in Publishers :
         Publish(x) \/ CopyContent(x) \/ PushTag(x) \/ SignArtifact(x) \/ PublishFails(x)
    \/ Install \/ InstallLocal \/ ResolveRoot \/ CopyAndInstall \/ PullFails \/ CommandDone
    \/ WorkspaceInstall \/ ExtractBundle \/ Lock \/ Setup

Spec == Init /\ [][Next]_vars

-----------------------------------------------------------------------------
(* Properties.                                                             *)

\* Of a publish that ended well every tag it named leads to what it built,
\* unless somebody has put the tag elsewhere since, and what it signed is
\* that; and no tag ever leads to something that is not there.
PublishedAsTold ==
    /\ \A x \in Publishers : push[x].step = "done" =>
         /\ \A i \in DOMAIN push[x].told :
              LET tag == tags[<<About[push[x].root.build].name, push[x].told[i]>>]
              IN  tag # None /\ (tag.by = x => tag.root = push[x].root)
         /\ push[x].sign => push[x].bundle = push[x].root
    /\ \A at \in DOMAIN tags : tags[at] # None => tags[at].root \in held

\* A setup from a lock file ends well only when every plugin of the file is
\* installed from the artifact that its digest names, on whatever machine and
\* whatever was there before, as the binary for the machine's own platform or
\* the one binary of an artifact that has one.  Nothing more is reproduced: a
\* plugin that was installed with --platform comes back for another platform,
\* and one whose tag moved during its installation as another build.
LockReproduces ==
    cmd.kind = "setup" /\ cmd.step = "done" =>
        \A n \in DOMAIN lock :
            /\ installed[n] # None /\ ~installed[n].local
            /\ installed[n].build = lock[n].digest.build
            /\ \/ installed[n].platform = Host
               \/ About[installed[n].build].platforms = {installed[n].platform}

\* What is noted about a plugin, and locked, is the artifact its binary came
\* from, unless the tag moved while it was installed, and of an artifact for
\* several platforms the binary's platform, --platform or not.
NotedAsInstalled ==
    /\ \A n \in Plugins : installed[n] # None /\ ~installed[n].local =>
         /\ n \notin moved => installed[n].digest.build = installed[n].build
         /\ Cardinality(About[installed[n].build].platforms) # 1 =>
              installed[n].noted = installed[n].platform
    /\ lock # None => \A n \in DOMAIN lock :
         lock[n].digest # None /\ ~lock[n].moved => lock[n].digest.build = lock[n].build

\* Nothing comes from a registry, by way of a workspace or a lock file either,
\* that is blocked or whose registry is not allowed, and where the policy
\* requires signatures nothing without --skip-verify.  That is all a policy
\* does: no command looks at a signature, and where none is required, the
\* default, what is not signed is installed.
OnlyAllowed ==
    \A n \in Plugins : installed[n] # None /\ ~installed[n].local =>
        /\ ~IsBlocked(policy, Path[n]) /\ IsRegistryAllowed(policy, Path[n])
        /\ policy.requireSignatures => installed[n].skipped

\* A workspace whose installation ended well is there with every file that
\* was bundled and, unless only its files were asked for, with every plugin
\* it cannot do without.
WorkspaceComplete ==
    cmd.kind \in {"workspace", "files"} /\ cmd.step = "done" =>
        /\ BundleOf(cmd.root.build) \subseteq cmd.dir
        /\ cmd.kind = "workspace" =>
             \A i \in DOMAIN About[cmd.root.build].deps :
                LET dep == About[cmd.root.build].deps[i]
                IN  dep.optional \/ installed[dep.name] # None
=============================================================================

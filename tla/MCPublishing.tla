---------------------------- MODULE MCPublishing ----------------------------
(* What is shared through a registry, and who is logged in to it, beside    *)
(* the edits of a workspace.  A behaviour is one of the three.              *)
(*                                                                          *)
(* A plugin "store" that was published before is built anew, for two        *)
(* platforms, and published by two publishers, or installed from its file.  *)
(* A workspace needs it and can do without "config", which the one policy   *)
(* blocks; the other demands signatures.                                    *)
EXTENDS MCEditing, Sequences, FiniteSets

CONSTANTS
    Publishers, Builds, About, Earlier, Path, Policies, Host, Hidden, Ignored, Links,
    Tags, VersionTag, Ways, Flags, MaxPushes, MaxCommands, Process, Registry, User, MaxLogins,
    None

VARIABLES
    system, held, tags, push, installed, lock, cmd, policy, pushes, commands, moved,
    file, memory, logins, asked, disturbed

Plugin(called, platforms) ==
    [name |-> called, kind |-> "plugin", version |-> 1, platforms |-> platforms, files |-> {},
     deps |-> <<>>]

MCAbout ==
    ("old" :> Plugin("store", {"linux"})) @@ ("new" :> Plugin("store", {"linux", "darwin"}))
        @@ ("config" :> Plugin("config", {"linux"}))
        @@ ("space" :> [name |-> "space", kind |-> "workspace", version |-> 1,
                        platforms |-> {"bundle"}, files |-> {"zhi.yaml", ".git/head", "out"},
                        deps |-> <<[name |-> "config", tag |-> "v1", optional |-> TRUE],
                                   [name |-> "store", tag |-> "latest", optional |-> FALSE]>>])

MCPath == [n \in {"store", "config", "space"} |-> <<"ghcr.io", "org", n>>]

Permissive ==
    [requireSignatures |-> FALSE, trusted |-> {}, allowed |-> {}, blocked |-> {}]

MCPolicies ==
    {[verification |-> Permissive, bare |-> [Permissive EXCEPT !.blocked = {<<"org", "config">>}]],
     [verification |-> [Permissive EXCEPT !.requireSignatures = TRUE, !.allowed = {"ghcr.io"}],
      bare |-> Permissive]}

MCWays == {[more |-> <<"latest">>, sign |-> TRUE]}
MCFlags == {[force |-> FALSE, skip |-> FALSE, platform |-> None],
            [force |-> TRUE, skip |-> TRUE, platform |-> "darwin"]}
MCVersionTag == <<"v1">>

Shared == INSTANCE Publishing
Known == INSTANCE RegistryLogins WITH held <- memory

\* There are finitely many builds, each with a version that is a tag; a
\* workspace needs plugins; and None is nothing that is written down.
ASSUME PublishingAssumption ==
    /\ IsFiniteSet(Builds) /\ Earlier \subseteq Builds
    /\ \A b \in Builds : /\ VersionTag[About[b].version] \in Tags
                         /\ IsFiniteSet(About[b].platforms)
                         /\ About[b].deps \in Seq(Shared!Dependency)
    /\ Ways \subseteq [more : Seq(Tags), sign : BOOLEAN]
    /\ Flags \subseteq [force : BOOLEAN, skip : BOOLEAN, platform : Shared!Platforms \cup {None}]
    /\ None \notin Shared!Tagged \cup Shared!Note

sharedVars ==
    <<held, tags, push, installed, lock, cmd, policy, pushes, commands, moved>>
knownVars == <<file, memory, logins, asked, disturbed>>

PublishingInit ==
    /\ system \in {"edits", "sharing", "logins"}
    /\ Init /\ Shared!Init /\ Known!Init
    /\ system # "sharing" => policy.allowed = {}

PublishingNext ==
    \/ system = "edits" /\ Next /\ UNCHANGED <<system, sharedVars, knownVars>>
    \/ system = "sharing" /\ Shared!Next /\ UNCHANGED <<system, vars, knownVars>>
    \/ system = "logins" /\ Known!Next /\ UNCHANGED <<system, vars, sharedVars>>

PublishingSpec == PublishingInit /\ [][PublishingNext]_<<system, vars, sharedVars, knownVars>>

Alike == Permutations(Publishers) \cup Permutations(Clients)

\* What a publisher is told is there is there, and who logged in to a
\* registry is logged in.
PublishersServed == Shared!TypeOK /\ Shared!PublishedAsTold /\ Known!TypeOK /\ Known!LoginsKept

\* What is installed from a reference, a workspace or a lock file is what it
\* stands for, whole, and allowed.
InstallsTrue ==
    /\ Shared!LockReproduces /\ Shared!NotedAsInstalled
    /\ Shared!OnlyAllowed /\ Shared!WorkspaceComplete
=============================================================================

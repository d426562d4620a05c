--------------------------- MODULE VaultPolicies ---------------------------
(***************************************************************************)
(* The policies and roles that zhi keeps in a Vault.  The vault manager of *)
(* a workspace gives its child store a token and a policy at login, and    *)
(* refreshes the policies, roles and credentials of the workspace's        *)
(* applications when their credentials are read.  The Vault store grants   *)
(* users access to a tree by policies of its own.                          *)
(*                                                                         *)
(* All of them share one list of policies, in which whose a policy is can  *)
(* be told by its name only: a sequence of words here, joined by dashes.   *)
(* Every call is several requests, which may fail with or without their    *)
(* effect.                                                                 *)
(*                                                                         *)
(* Source: pkg/providers/store/vaultmanager, pkg/providers/store/vault     *)
(***************************************************************************)
EXTENDS Naturals, FiniteSets, SequencesExt

CONSTANTS
    Manager,      \* processes with a vault manager
    Granter,      \* processes that grant access to the tree
    Named,        \* the workspace names the managers may have, word by word
    App,          \* applications, named by one word each
    TokenApp,     \* those that get a token; the others get a role
    Tree,         \* the tree's name
    User,         \* the user that access is granted to
    Path, Action,
    Labelled,     \* what the tree's labels may say: a set of rules per app
    Grants,       \* the permissions a grant may ask for
    None,         \* no policy, no role
    MaxCalls      \* bound: calls

VARIABLES
    name,      \* the workspace option of each manager
    apps,      \* the applications it is configured with
    policy,    \* the policies in the Vault
    role,      \* the policies of each role, None if there is no such role
    labels,    \* what the stored tree says, since the last save
    admin,     \* the token of each manager's own
    child,     \* the token of its child store
    job,       \* the call each manager is in
    unsure,    \* history: managers about to write a role whose read failed, or
               \* that an operator has changed since they read it
    given,     \* the applications whose credentials its last read returned
    access,    \* the call each granter is in
    ledger,    \* history: what was granted and not revoked since
    clean,     \* history: no such call failed or ran beside another
    calls      \* the calls so far

vars == <<name, apps, policy, role, labels, admin, child, job, unsure, given, access, ledger, clean,
          calls>>

Rule == Path \X Action

PolicyName(workspace, last) == <<"zhi">> \o workspace \o <<last>>

\* The child's policy is named for the mount and the prefix alone.
ChildPolicy == <<"zhi", "child", "secret", "zhi">>
UserPolicy == PolicyName(Tree, User)

Workspace == UNION {{f[m] : m \in Manager} : f \in Named}
Name == {PolicyName(w, a) : w \in Workspace, a \in App} \cup {ChildPolicy, UserPolicy}

\* policyPrefix: "zhi-<workspace>-"
Covers(workspace, n) == IsStrictPrefix(<<"zhi">> \o workspace, n)

\* What an operator gives a role.
Extra == {<<"extra">>}

\* What a policy says: the tree, and what may be done to which of its paths.
Document == [tree : Workspace \cup {Tree, <<>>}, rules : SUBSET Rule]

Has == SUBSET (Name \cup Extra)

ASSUME PoliciesAssumption ==
    /\ {"zhi"} \cup App \cup {User} \subseteq STRING /\ TokenApp \subseteq App
    /\ Tree \in Seq(STRING) /\ Named \subseteq [Manager -> Seq(STRING)]
    /\ Labelled \subseteq [App -> SUBSET Rule] /\ Grants \subseteq SUBSET Rule
    /\ None \notin Document /\ (\A h \in Has : h # None) /\ None \notin [app : App, policies : Has]
    /\ MaxCalls \in Nat

\* That the user's policy is not the child's: no tree "child-secret" whose
\* user is called "zhi".
ASSUME UserAssumption == UserPolicy # ChildPolicy

Idle == [at |-> "idle", left |-> {}, listed |-> {}, read |-> [a \in App |-> {}],
         seen |-> None, failed |-> FALSE]
NoAccess == [at |-> "idle", what |-> "grant", rules |-> {}, paths |-> {}, seen |-> {}]

Managed(n) == \E m \in Manager, a \in App : n = PolicyName(name[m], a)

\* A new Vault, or one in which all applications were refreshed before, an
\* operator has set the roles since or not, and every manager is logged in
\* again, with what it is configured with by now.
Init ==
    /\ name \in Named /\ labels \in Labelled
    /\ \E before \in BOOLEAN :
        /\ apps \in [Manager -> IF before THEN {App, App \ TokenApp} ELSE {App}]
        /\ policy = [n \in Name |->
              IF ~before THEN None
              ELSE IF n = ChildPolicy THEN [tree |-> <<>>, rules |-> Rule]
              ELSE IF Managed(n) /\ labels[Last(n)] # {} THEN [tree |-> Front(Tail(n)), rules |-> labels[Last(n)]]
              ELSE None]
        /\ \E ours \in BOOLEAN :
            role = [n \in Name |->
              IF before /\ Managed(n) THEN (IF ours THEN {n} ELSE Extra) ELSE None]
        /\ admin = [m \in Manager |-> IF before THEN "good" ELSE "none"]
        /\ child = admin
    /\ job = [m \in Manager |-> Idle] /\ given = [m \in Manager |-> {}]
    /\ access = [g \in Granter |-> NoAccess]
    /\ unsure = {} /\ ledger = {} /\ clean = TRUE /\ calls = 0

OfPolicies == {"write", "delete"}
OfApps == {"idle", "child policy", "child login", "list", "roles", "done"}

JobOf(stages, names) ==
    [at : stages, left : SUBSET names, listed : SUBSET Name, read : [App -> SUBSET Rule],
     seen : {None} \cup [app : App, policies : Has], failed : BOOLEAN]

Job == JobOf(OfPolicies, Name) \cup JobOf(OfApps, App)

Access == [at : {"idle", "read", "write"}, what : {"grant", "revoke"}, rules : SUBSET Rule,
           paths : SUBSET Path, seen : SUBSET Rule]

TypeOK ==
    /\ name \in Named /\ labels \in [App -> SUBSET Rule]
    /\ apps \in [Manager -> {App, App \ TokenApp}]
    /\ policy \in [Name -> {None} \cup Document] /\ role \in [Name -> {None} \cup Has]
    /\ admin \in [Manager -> {"none", "good", "bad"}]
    /\ child \in [Manager -> {"none", "good", "ended"}]
    /\ job \in [Manager -> Job] /\ unsure \subseteq Manager /\ given \in [Manager -> SUBSET App]
    /\ access \in [Granter -> Access]
    /\ ledger \subseteq Rule /\ clean \in BOOLEAN /\ calls \in 0..MaxCalls

managers == <<apps, admin, child, given>>
grants == <<access, ledger, clean>>

Called == calls < MaxCalls /\ calls' = calls + 1
Free(m) == job[m].at \in {"idle", "done"}

AppPolicy(m, a) == PolicyName(name[m], a)
Desired(m) == {AppPolicy(m, a) : a \in apps[m]}

\* A request of the manager's own fails if its token is no longer good.
Works(m) == admin[m] = "good"

-----------------------------------------------------------------------------
(* The manager's login. *)

\* A token is set before it is tried, and stays when it is refused.
Login(m) ==
    /\ Free(m) /\ Called
    /\ \/ admin' = [admin EXCEPT ![m] = "good"] /\ job' = [job EXCEPT ![m] = [Idle EXCEPT !.at = "child policy"]]
       \/ admin' \in {admin, [admin EXCEPT ![m] = "bad"]} /\ job' = [job EXCEPT ![m] = Idle]
    /\ UNCHANGED <<name, apps, policy, role, unsure, labels, child, given, grants>>

OnChildPolicy(written) == IF written THEN "child login" ELSE "idle"

PutChildPolicy(m) ==
    /\ job[m].at = "child policy"
    /\ \E written \in BOOLEAN :
        /\ \/ policy' = [policy EXCEPT ![ChildPolicy] = [tree |-> <<>>, rules |-> Rule]]
           \/ ~written /\ UNCHANGED policy
        /\ job' = [job EXCEPT ![m].at = OnChildPolicy(written)]
    /\ UNCHANGED <<name, managers, role, unsure, labels, grants, calls>>

\* CreateToken, and the child's login with the token.
ChildLogin(m) ==
    /\ job[m].at = "child login"
    /\ child' \in {child, [child EXCEPT ![m] = "good"]}
    /\ job' = [job EXCEPT ![m] = Idle]
    /\ UNCHANGED <<name, apps, policy, role, unsure, labels, admin, given, grants, calls>>

\* The child's token lives for an hour; that the manager's own ends too
\* shows in failing requests.
TokenEnds(m) ==
    /\ child[m] = "good" /\ child' = [child EXCEPT ![m] = "ended"]
    /\ UNCHANGED <<name, apps, policy, role, unsure, labels, admin, job, given, grants, calls>>

-----------------------------------------------------------------------------
(* The manager's GetValues with the paths of the credentials.  The engine  *)
(* asks for the whole tree, so it reads all labels there are.              *)

\* The child store reads the values first; without them nothing happens.
GetValues(m) ==
    /\ Free(m) /\ Called
    /\ child[m] = "good" /\ policy[ChildPolicy] # None
    /\ job' = [job EXCEPT ![m] = [Idle EXCEPT !.at = "list", !.read = labels]]
    /\ given' = [given EXCEPT ![m] = {}]
    /\ UNCHANGED <<name, apps, policy, role, unsure, labels, admin, child, grants>>

\* Mutant of Matched: the policies of every workspace are listed.
MatchedAll(m) == {n \in DOMAIN policy : policy[n] # None}

\* ListPolicies
Matched(m) == {n \in DOMAIN policy : policy[n] # None /\ Covers(name[m], n)}

\* If the list fails the policies stay as they are; the roles come next.
List(m) ==
    /\ job[m].at = "list"
    /\ \/ Works(m) /\ job' = [job EXCEPT ![m].at = "write", ![m].listed = Matched(m), ![m].left = Desired(m)]
       \/ job' = [job EXCEPT ![m].at = "roles", ![m].failed = TRUE, ![m].left = apps[m] \ TokenApp]
    /\ UNCHANGED <<name, managers, policy, role, unsure, labels, grants, calls>>

\* BuildPolicyHCL: the workspace's name stands for the tree's.
Built(m, a) == [tree |-> name[m], rules |-> job[m].read[a]]

\* A policy without a path is refused: one for no label.
Accepted(doc) == doc = None \/ doc.rules # {}

\* One request for a policy; no failure stops the others, so one that has
\* its effect and is reported to have failed is like one that works.
Request(m, n, new) ==
    /\ n \in job[m].left
    /\ \E works \in {Works(m) /\ Accepted(new), FALSE} :
        /\ policy' = IF works THEN [policy EXCEPT ![n] = new] ELSE policy
        /\ job' = [job EXCEPT ![m].left = @ \ {n}, ![m].failed = @ \/ ~works]
    /\ UNCHANGED <<name, managers, role, unsure, labels, grants, calls>>

WritePolicy(m) ==
    /\ job[m].at = "write"
    /\ \E a \in apps[m] : Request(m, AppPolicy(m, a), Built(m, a))

DeletePolicy(m) ==
    /\ job[m].at = "delete"
    /\ \E n \in job[m].left : Request(m, n, None)

\* Mutant of Stale: what is desired is deleted, what is not stays.
StaleDesired(m) == job[m].listed \cap Desired(m)

Stale(m) == job[m].listed \ Desired(m)

\* The stale policies are deleted after all are written, then come the roles.
PoliciesDone(m) ==
    /\ job[m].left = {}
    /\ \/ job[m].at = "write" /\ job' = [job EXCEPT ![m].at = "delete", ![m].left = Stale(m)]
       \/ job[m].at = "delete" /\ job' = [job EXCEPT ![m].at = "roles", ![m].left = apps[m] \ TokenApp]
    /\ UNCHANGED <<name, managers, policy, role, unsure, labels, grants, calls>>

\* What is known of a role: nothing if there is none.
Known(has) == IF has = None THEN {} ELSE has

\* EnsureAppRoles: a role that cannot be read is taken to be missing, one
\* with the policy stays as it is.
ReadRole(m) ==
    /\ job[m].at = "roles" /\ job[m].seen = None
    /\ \E a \in job[m].left, works \in {Works(m), FALSE} :
        LET held == IF works THEN Known(role[AppPolicy(m, a)]) ELSE {}
        IN /\ job' = IF AppPolicy(m, a) \in held THEN [job EXCEPT ![m].left = @ \ {a}]
                     ELSE [job EXCEPT ![m].seen = [app |-> a, policies |-> held]]
           /\ unsure' = IF works THEN unsure ELSE unsure \cup {m}
    /\ UNCHANGED <<name, managers, policy, role, labels, grants, calls>>

\* The role has been read and is still to be written.
Writing(m, n) == job[m].seen # None /\ AppPolicy(m, job[m].seen.app) = n

\* Mutant of RolePolicies: a role gets its own policy only.
RolePoliciesOwn(seen, n) == {n}

RolePolicies(seen, n) == seen \cup {n}

WriteRole(m) ==
    /\ job[m].seen # None
    /\ LET n == AppPolicy(m, job[m].seen.app) IN
       \E works \in {Works(m), FALSE} :
        /\ role' = IF works THEN [role EXCEPT ![n] = RolePolicies(job[m].seen.policies, n)] ELSE role
        /\ job' = [job EXCEPT ![m].seen = None, ![m].left = @ \ {job[m].seen.app}, ![m].failed = @ \/ ~works]
    /\ unsure' = unsure \ {m}
    /\ UNCHANGED <<name, managers, policy, labels, grants, calls>>

\* GenerateCredentials, whatever failed before: a token, or a secret of the
\* role; InjectCredentials adds those that could be made.
Generate(m) ==
    /\ job[m].at = "roles" /\ job[m].left = {} /\ job[m].seen = None
    /\ LET able == {a \in apps[m] : Works(m) /\ (a \in TokenApp \/ role[AppPolicy(m, a)] # None)}
       IN \E got \in SUBSET able : given' = [given EXCEPT ![m] = got]
    /\ job' = [job EXCEPT ![m].at = "done"]
    /\ UNCHANGED <<name, apps, policy, role, unsure, labels, admin, child, grants, calls>>

Refresh(m) == List(m) \/ WritePolicy(m) \/ DeletePolicy(m) \/ PoliciesDone(m)
                \/ ReadRole(m) \/ WriteRole(m) \/ Generate(m)

\* The process is started again, with other applications configured.
Restart(m) ==
    /\ Called
    /\ apps' \in {[apps EXCEPT ![m] = as] : as \in {App, App \ TokenApp}}
    /\ admin' = [admin EXCEPT ![m] = "none"] /\ child' = [child EXCEPT ![m] = "none"]
    /\ job' = [job EXCEPT ![m] = Idle] /\ unsure' = unsure \ {m}
    /\ given' = [given EXCEPT ![m] = {}]
    /\ UNCHANGED <<name, policy, role, labels, grants>>

-----------------------------------------------------------------------------
(* Others: a save of the tree, and an operator's hand. *)

\* Labels are stored with the values, so they are those of the last save.
Save ==
    /\ Called /\ labels' \in Labelled \ {labels}
    /\ UNCHANGED <<name, managers, policy, role, unsure, job, grants>>

\* An operator makes a role, or adds to its policies.
Operator(n) ==
    /\ Called /\ role' = [role EXCEPT ![n] = Known(@) \cup Extra]
    /\ unsure' = unsure \cup {m \in Manager : Writing(m, n)}
    /\ UNCHANGED <<name, managers, policy, labels, job, grants>>

-----------------------------------------------------------------------------
(* The Vault store's access calls. *)

Alone(g) == \A o \in Granter \ {g} : access[o].at = "idle"

GrantAccess(g) ==
    /\ access[g].at = "idle" /\ Called
    /\ \E new \in Grants : access' = [access EXCEPT ![g] = [NoAccess EXCEPT !.at = "read", !.rules = new]]
    /\ clean' = (clean /\ Alone(g))
    /\ UNCHANGED <<name, managers, policy, role, unsure, labels, job, ledger>>

\* Without paths the policy is deleted and nothing is read.
RevokeAccess(g) ==
    /\ access[g].at = "idle" /\ Called
    /\ \E paths \in SUBSET Path :
        access' = [access EXCEPT ![g] = [NoAccess EXCEPT !.at = IF paths = {} THEN "write" ELSE "read",
                                                         !.what = "revoke", !.paths = paths]]
    /\ clean' = (clean /\ Alone(g))
    /\ UNCHANGED <<name, managers, policy, role, unsure, labels, job, ledger>>

\* What a policy says about the tree.
Parsed(doc) == IF doc # None /\ doc.tree = Tree THEN doc.rules ELSE {}

Without(rules, paths) == {r \in rules : r[1] \notin paths}

\* mergePermissions, removePermissionPaths
Merged(call) ==
    IF call.what = "grant" THEN call.seen \cup call.rules ELSE Without(call.seen, call.paths)

\* readPolicyPermissions: a read that fails finds nothing.
ReadAccess(g) ==
    /\ access[g].at = "read"
    /\ \E works \in BOOLEAN :
        /\ access' = [access EXCEPT ![g].at = "write",
                                    ![g].seen = IF works THEN Parsed(policy[UserPolicy]) ELSE {}]
        /\ clean' = (clean /\ works)
    /\ UNCHANGED <<name, managers, policy, role, unsure, labels, job, ledger, calls>>

\* A revocation that leaves nothing deletes the policy.
Doc(call) ==
    IF call.what = "revoke" /\ Merged(call) = {} THEN None ELSE [tree |-> Tree, rules |-> Merged(call)]

WriteAccess(g) ==
    /\ access[g].at = "write"
    /\ \E works \in BOOLEAN :
        /\ \/ policy' = [policy EXCEPT ![UserPolicy] = Doc(access[g])]
           \/ ~works /\ UNCHANGED policy
        /\ clean' = (clean /\ works)
    /\ ledger' = IF access[g].what = "grant" THEN ledger \cup access[g].rules
                 ELSE IF access[g].paths = {} THEN {} ELSE Without(ledger, access[g].paths)
    /\ access' = [access EXCEPT ![g] = NoAccess]
    /\ UNCHANGED <<name, managers, role, unsure, labels, job, calls>>

-----------------------------------------------------------------------------
Next ==
    \/ \E m \in Manager :
        \/ Login(m) \/ PutChildPolicy(m) \/ ChildLogin(m) \/ TokenEnds(m)
        \/ GetValues(m) \/ Refresh(m) \/ Restart(m)
    \/ \E g \in Granter : GrantAccess(g) \/ RevokeAccess(g) \/ ReadAccess(g) \/ WriteAccess(g)
    \/ Save
    \/ \E m \in Manager, a \in App \ TokenApp : Operator(AppPolicy(m, a))

Spec == Init /\ [][Next]_vars

-----------------------------------------------------------------------------
(* Properties *)

Unshared(m) ==
    \A o \in Manager \ {m}, a \in App : ~Covers(name[o], AppPolicy(m, a))

\* "Stale policies (for removed apps) are deleted automatically"
\* (vault-credentials.md): after a refresh without failed requests every
\* application has the policy that the labels it read ask for, those that
\* were removed have none, and whoever got a secret has the policy by its
\* role; unless another manager's name covers these policies as well.
PoliciesFollowLabels ==
    \A m \in Manager :
        job[m].at = "done" /\ ~job[m].failed /\ Unshared(m) =>
            \A a \in App :
                /\ policy[AppPolicy(m, a)] = IF a \in apps[m] THEN Built(m, a) ELSE None
                /\ a \in given[m] \ TokenApp => AppPolicy(m, a) \in role[AppPolicy(m, a)]

\* However many managers refresh the same applications at a time, a role
\* loses a policy only by the write of one whose own read of it failed before
\* (the code takes any error for a missing role), or that read it before an
\* operator changed it.
RolesKeepPolicies ==
    [][\A n \in DOMAIN role :
        \/ Known(role[n]) \subseteq Known(role'[n])
        \/ \E m \in unsure : Writing(m, n) /\ ~Writing(m, n)']_vars

\* "existing policies on a role are preserved when adding the zhi-managed
\* policy" (vault-credentials.md), which a failed read does not do; no run
\* checks this.
ExistingPoliciesPreserved ==
    [][\A n \in DOMAIN role : Known(role[n]) \subseteq Known(role'[n])]_vars

\* A login that was answered gives the child store a policy to read by,
\* which stays unless a workspace is named "child".
ChildCanRead ==
    \A m \in Manager :
        child[m] = "good" => \/ policy[ChildPolicy] # None
                             \/ \E o \in Manager : Covers(name[o], ChildPolicy)

\* Between calls that neither failed nor ran side by side, a user has the
\* access that was granted and not revoked, whatever the managers do; but
\* for one whose workspace is named like the tree, which takes the user's
\* policy for a stale one of its own.
AccessAsGranted ==
    clean /\ (\A g \in Granter : access[g].at = "idle")
          /\ (\A m \in Manager : ~Covers(name[m], UserPolicy))
        => Parsed(policy[UserPolicy]) = ledger

\* "Each app gets a policy granting access only to paths that carry its
\* label": after a refresh without failures, of the only manager there is,
\* an application reaches the values that are labelled for it, in the tree
\* they are kept in.
AppsReachTheirValues ==
    \A m \in Manager, a \in App :
        job[m].at = "done" /\ ~job[m].failed /\ Cardinality(Manager) = 1 /\ a \in apps[m]
            => job[m].read[a] \subseteq Parsed(policy[AppPolicy(m, a)])
=============================================================================

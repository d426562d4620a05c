----------------------------- MODULE MCPolicies -----------------------------
(* Instances of VaultPolicies for TLC: two vault managers, one of whose     *)
(* workspaces may have a name that begins with the other's, or the same, or *)
(* be called "child" or like the tree; and a process that grants access.    *)
EXTENDS VaultPolicies, TLC

CONSTANTS m1, m2

Two(first, second) == (m1 :> first) @@ (m2 :> second)

TwoWorkspaces ==
    {Two(<<"prod">>, <<"prod", "eu">>), Two(<<"prod">>, <<"prod">>), Two(<<"child">>, <<"tree">>)}

OneWorkspace == {m1 :> <<"prod">>}

MCTree == <<"tree">>

Says(web, worker) == ("web" :> web) @@ ("worker" :> worker)

MCLabelled ==
    {Says({<<"p1", "read">>}, {<<"p1", "read">>}), Says({<<"p1", "read">>, <<"p2", "write">>}, {})}

MCGrants == {{<<"p1", "read">>}, {<<"p2", "read">>, <<"p2", "write">>}}

\* A refresh leaves every application with the policy its labels ask for, and
\* every child store that got a login with one to read by.
PoliciesInPlace == PoliciesFollowLabels /\ ChildCanRead
=============================================================================

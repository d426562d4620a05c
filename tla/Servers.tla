------------------------------ MODULE Servers ------------------------------
(***************************************************************************)
(* A frontend that serves requests: the web UI, the HTTP API, or the MCP   *)
(* bridge over a pipe or HTTP.  A zhi process runs one of them.            *)
(*                                                                         *)
(* A handler makes its controller calls one by one and gives up at the     *)
(* first that fails, but for those that count failures.  Several handlers  *)
(* run at once; the bridge lets one call of all of them in at a time.      *)
(* What a call does is in the other modules; one that applies may hang,    *)
(* because a process that outlives the command holds its pipe (Apply).     *)
(*                                                                         *)
(* Source: pkg/mcpbridge, pkg/providers/ui, internal/ui/adapter.go         *)
(***************************************************************************)
EXTENDS Naturals, Sequences, FiniteSets

CONSTANTS
    Requests    \* bound: requests under way at once

VARIABLES
    server,     \* which frontend runs
    phase,      \* "up", "stopping" once its context is cancelled, "down"
    lock,       \* the mutex of SafeController
    req         \* the calls a request has still to make, and where it is

vars == <<server, phase, lock, req>>

Nobody == "nobody"
Free == [todo |-> <<>>, at |-> "idle"]
Open(r) == req[r].at # "idle"

-----------------------------------------------------------------------------
(* The calls of each handler, by the page or the part of the API that it    *)
(* belongs to.                                                              *)

\* A page loads what it shows; what it could not be told it leaves out.
TreePage == {<<"LoadTree", "ListComponents", "~WorkspaceName">>}
ComponentsPage == {<<"ListComponents", "~WorkspaceName">>}
ValidationPages == {<<"Validate", "~WorkspaceName">>, <<"Validate">>}
ExportPages == {<<"ExportTemplates", "~WorkspaceName">>, <<"Export">>}
ApplyPage == {<<"~WorkspaceName", "~ExportTemplates">>}
MarketPages == {<<"~WorkspaceName", "SearchMarketplace">>, <<"~WorkspaceName", "GetMarketplaceDetail">>}
PluginsPage == {<<"~WorkspaceName", "ListInstalledPlugins", "~CheckUpdates">>}

\* Saving a value sets it, looks at the results and sets the old one back
\* if one of them blocks; a check of what is typed always sets it back.
WebEdits ==
    {<<"LoadTree", "ListComponents">>,
     <<"LoadTree", "SetValue", "~Validate", "~ListComponents", "SetValue">>,
     <<"LoadTree", "SetValue", "~Validate", "SetValue">>}
WebSave == {<<"SaveTree">>}
WebToggle == {<<"ListComponents", "~Switch", "ListComponents">>}
WebExports == {<<"Export">>, <<"ExportTemplates", "~Export", "~Export">>}
WebApply == {<<"Apply">>, <<"ExportTemplates", "Export", "Export", "Apply">>}
WebRating == {<<"RatePlugin", "~GetMarketplaceDetail">>}
WebPlugins ==
    {<<"InstallPlugin">>, <<"UpdatePlugin">>, <<"UninstallPlugin">>,
     <<"CheckUpdates", "~UpdatePlugin", "~UpdatePlugin">>}
WebLogin == {<<"StoreAuthMethods", "~StoreLogin", "~WorkspaceName">>, <<"StoreLogout">>}

\* The API and the tools of the bridge forward one call each, ...
ApiValues == {<<"LoadTree">>, <<"SetValue">>, <<"Validate">>, <<"SaveTree">>}
ApiExports == {<<"ExportTemplates">>, <<"Export">>}
ApiApply == {<<"Apply">>}
ApiComponents == {<<"ListComponents">>, <<"Switch">>}
ApiPlugins == {<<"SearchMarketplace">>, <<"InstallPlugin">>, <<"UpdatePlugin">>, <<"RatePlugin">>}
BridgeReads == {<<"LoadTree">>, <<"Validate">>, <<"CheckUpdates">>, <<"SearchMarketplace">>}
BridgeWrites == {<<"SetValue">>, <<"SaveTree">>, <<"Apply">>}
BridgePlugins == {<<"Switch">>, <<"InstallPlugin">>, <<"RatePlugin">>, <<"StoreLogin">>}
BridgeResources == {<<"WorkspaceName">>, <<"LoadTree">>, <<"ExportTemplates">>, <<"StoreAuthStatus">>}
\* ... but an export finds its template first.
BridgeExports == {<<"ExportTemplates", "Export">>}

WebHandlers ==
    UNION {TreePage, ComponentsPage, ValidationPages, ExportPages, ApplyPage, MarketPages,
           PluginsPage, WebEdits, WebSave, WebToggle, WebExports, WebApply, WebRating,
           WebPlugins, WebLogin}
BridgeHandlers == 
    UNION {BridgeReads, BridgeWrites, BridgePlugins, BridgeResources, BridgeExports}

Scripts ==
    [web |-> WebHandlers,
     api |-> UNION {ApiValues, ApiExports, ApiApply, ApiComponents, ApiPlugins},
     stdio |-> BridgeHandlers,
     sse |-> BridgeHandlers]

\* A call with a tilde may fail without an end to its handler: the failure
\* is counted, shown, or left out of the page.
Tolerated ==
    {"~WorkspaceName", "~ListComponents", "~Validate", "~ExportTemplates", "~Export", "~Switch",
     "~CheckUpdates", "~UpdatePlugin", "~GetMarketplaceDetail", "~StoreLogin"}

-----------------------------------------------------------------------------
Init ==
    /\ server \in DOMAIN Scripts
    /\ phase = "up" /\ lock = Nobody
    /\ req = [r \in Requests |-> Free]

Bridge == server \in {"stdio", "sse"}

Arrive(r) ==
    /\ phase = "up" /\ ~Open(r)
    /\ \E s \in Scripts[server] : req' = [req EXCEPT ![r] = [todo |-> s, at |-> "ready"]]
    /\ UNCHANGED <<server, phase, lock>>

\* Mutant of Enter: an apply is let in beside another call.
EnterApply(r) ==
    /\ Bridge => lock = Nobody \/ Head(req[r].todo) = "Apply"
    /\ lock' = IF Bridge THEN r ELSE lock

\* s.mu.Lock: each method of SafeController holds the mutex for one call.
Enter(r) ==
    /\ Bridge => lock = Nobody
    /\ lock' = IF Bridge THEN r ELSE lock

Begin(r) ==
    /\ phase # "down" /\ req[r].at = "ready"
    /\ Enter(r)
    /\ req' = [req EXCEPT ![r].at = "inside"]
    /\ UNCHANGED <<server, phase>>

\* The deferred Unlock.
Leave(r) == IF lock = r THEN Nobody ELSE lock

\* A call returns: the handler makes the next one or answers.
Return(r) ==
    /\ phase # "down" /\ req[r].at \in {"inside", "hangs"}
    /\ LET rest == [todo |-> Tail(req[r].todo), at |-> "ready"]
       IN \/ req' = [req EXCEPT ![r] = IF rest.todo = <<>> THEN Free ELSE rest]
          \/ Head(req[r].todo) \notin Tolerated /\ req' = [req EXCEPT ![r] = Free]
    /\ lock' = Leave(r)
    /\ UNCHANGED <<server, phase>>

\* Apply reads the output until the pipe closes, and no context ends that.
Hang(r) ==
    /\ phase # "down" /\ req[r].at = "inside" /\ Head(req[r].todo) = "Apply"
    /\ req' = [req EXCEPT ![r].at = "hangs"]
    /\ UNCHANGED <<server, phase, lock>>

\* The context of Run is cancelled; no more connections are taken.
Stop ==
    /\ phase = "up"
    /\ phase' = "stopping"
    /\ UNCHANGED <<server, lock, req>>

Ended ==
    /\ phase' = "down" /\ lock' = Nobody
    /\ req' = [r \in Requests |-> Free]
    /\ UNCHANGED server

\* Mutant of MayEnd: the web UI waits for its requests without a limit.
MayEndServed == \A r \in Requests : ~Open(r)

\* Shutdown waits for the requests under way, and in the web UI for five
\* seconds at most; then Run returns and the process ends.
MayEnd == server = "web" \/ \A r \in Requests : ~Open(r)

Down == phase = "stopping" /\ MayEnd /\ Ended

Next ==
    \/ \E r \in Requests : Arrive(r) \/ Begin(r) \/ Return(r) \/ Hang(r)
    \/ Stop \/ Down

\* Calls that do not hang return; a mutex that was waited for is handed on
\* in turn (sync.Mutex), so each waiting call gets in; Shutdown notices.
Fairness ==
    /\ \A r \in Requests :
        SF_vars(Begin(r)) /\ WF_vars(req[r].at = "inside" /\ Return(r))
    /\ WF_vars(Down)

Spec == Init /\ [][Next]_vars /\ Fairness

-----------------------------------------------------------------------------
(* Properties *)

\* "SafeController wraps a ui.Controller with a sync.Mutex to serialize all
\* calls" (safe_controller.go): one call of the bridge is in at a time, by
\* the request that holds the mutex, which nobody else ever holds.
OneCallAtATime ==
    Bridge => /\ \A r \in Requests : req[r].at \in {"inside", "hangs"} <=> lock = r
              /\ lock \in Requests \cup {Nobody}

Hangs(r) == req[r].at = "hangs"

\* A request behind the web UI or the API ends, whatever the others do, if
\* it does not hang itself; behind the bridge, if no request hangs.
RequestsEnd ==
    \A r \in Requests :
        Open(r) ~> \/ ~Open(r) \/ Hangs(r)
                   \/ Bridge /\ \E o \in Requests : Hangs(o)

\* A frontend that is told to stop does, the web UI whatever hangs.
FrontendStops ==
    phase = "stopping" ~>
        \/ phase = "down"
        \/ server # "web" /\ \E r \in Requests : Hangs(r)
=============================================================================

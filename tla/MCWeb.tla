------------------------------- MODULE MCWeb -------------------------------
(* A web client beside a `zhi set`, the server that takes its requests and  *)
(* the browser it lives in.  A behaviour is one of the values that the      *)
(* client edits (Editing), of the requests that a frontend serves (Servers) *)
(* or of the browser's cookie and pages (WebSession): the last two say      *)
(* which calls reach the controller, and the first what they do there.      *)
(*                                                                          *)
(* Two requests at once; two tabs, which see one restart of the server and  *)
(* one change of the session from elsewhere.                                *)
EXTENDS MCEditing, FiniteSets

CONSTANTS Served, Tabs, MaxTokens, MaxStarts, MaxChanges

VARIABLES
    subject, server, phase, mutex, req,
    started, made, methods, status, changes, jar, tab, wire

Serving == INSTANCE Servers WITH Requests <- Served, lock <- mutex

Browser == INSTANCE WebSession WITH session <- status

\* A tab is one of finitely many; nobody holds the mutex when it is free.
ASSUME WebAssumption ==
    /\ IsFiniteSet(Tabs) /\ MaxTokens \in Nat /\ MaxStarts \in Nat \ {0}
    /\ Serving!Nobody \notin Served

servingVars == <<server, phase, mutex, req>>
browserVars == <<started, made, methods, status, changes, jar, tab, wire>>
webVars == <<subject, vars, servingVars, browserVars>>

WebInit ==
    /\ subject \in {"values", "requests", "browser"}
    /\ Init
    /\ Serving!Init
    /\ subject # "requests" => server = "web"
    /\ Browser!Init
    /\ subject # "browser" => status = "none"

WebNext ==
    \/ subject = "values" /\ Next /\ UNCHANGED <<subject, servingVars, browserVars>>
    \/ subject = "requests" /\ Serving!Next /\ UNCHANGED <<subject, vars, browserVars>>
    \/ subject = "browser" /\ Browser!Next /\ UNCHANGED <<subject, vars, servingVars>>

\* While a system does not move none of its actions is enabled, so that
\* fairness says nothing about it.
WebSpec == WebInit /\ [][WebNext]_webVars /\ Serving!Fairness /\ Browser!Fairness

\* At most one call that the bridge forwards is under way; the browser's
\* cookie and the tokens in its pages fit together.
FrontendsConsistent == Serving!OneCallAtATime /\ Browser!WebTypeOK

\* Every request ends but for calls that hang, and a frontend that is told
\* to stop does; the redirects to and from the login page come to an end, and
\* what is sent from a page that was loaded on its own is taken.
FrontendsSettle ==
    /\ Serving!RequestsEnd /\ Serving!FrontendStops
    /\ Browser!ReloadHelps /\ Browser!RedirectsEnd
=============================================================================

------------------------------- MODULE MCTui -------------------------------
(* The terminal UI's screens, on which plugins are installed and updated    *)
(* among the rest, and the files of a plugin.  A behaviour is one of the    *)
(* screens or one of the files.                                             *)
(*                                                                          *)
(* The store offers a form, a browser login or both; the value that is      *)
(* edited is a text, one of an enumeration or a collection, may ask to be   *)
(* confirmed and may be read-only; the marketplace has two plugins.         *)
EXTENDS MCPluginLifecycle

CONSTANTS p1, p2, LoginKinds, Labels, Plugins, MaxCalls, MaxApplies

VARIABLES
    system, view, help, filtering, methods, form, label, value, editor, applyView, applies,
    market, detail, installed, calls

MCLoginKinds == {{"form"}, {"browser"}, {"form", "browser"}}
MCLabels ==
    [kind : {"text", "collection"}, asks : BOOLEAN, readonly : {FALSE}]
        \cup [kind : {"text", "enum"}, asks : {FALSE}, readonly : {TRUE}]
MCPlugins == {p1, p2}

Screens == INSTANCE Tui WITH login <- form

\* A store that wants a login has a method for it.
ASSUME ScreensAssumption ==
    /\ LoginKinds \subseteq {{"form"}, {"browser"}, {"form", "browser"}}
    /\ Labels \subseteq [kind : {"text", "enum", "collection"}, asks : BOOLEAN, readonly : BOOLEAN]
    /\ MaxApplies \in Nat

screenVars ==
    <<system, view, help, filtering, methods, form, label, value, editor, applyView, applies,
      market, detail, installed, calls>>

TuiInit ==
    /\ system \in {"files", "screens"}
    /\ Init
    /\ system = "screens" => \A v \in Versions : v \in published
    /\ Screens!Init
    /\ system = "files" =>
         /\ methods = {"form"} /\ view = "tree"
         /\ label = [kind |-> "text", asks |-> FALSE, readonly |-> FALSE]

TuiNext ==
    \/ system = "files" /\ Next /\ UNCHANGED screenVars
    \/ system = "screens" /\ Screens!Next /\ UNCHANGED <<system, vars>>

TuiSpec == TuiInit /\ [][TuiNext]_<<vars, screenVars>>

\* Every screen keeps what belongs to it, and what it says is under way is:
\* a login that takes no keys, a list that is loading, the output of a
\* running apply.
ScreensConsistent ==
    Screens!TypeOK /\ Screens!LoginUnderWay /\ Screens!LoadingUnderWay /\ Screens!RunningIsRead

\* No key takes anybody off the screen of a running apply or of a form, and
\* the editor stores nothing but what it may.
KeysDoNoHarm == Screens!KeepsScreen /\ Screens!StoresWhatItMay
=============================================================================

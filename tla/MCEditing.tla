----------------------------- MODULE MCEditing -----------------------------
(* Instances of Editing for TLC: two paths, of which the first has a       *)
(* transform and the second has none.                                      *)
EXTENDS Editing, TLC

CONSTANTS starter, name

MCPaths == {starter, name}
MCValues == {"base", "evolved", "other"}
MCDefaults == [p \in MCPaths |-> "base"]

Same == [v \in MCValues |-> v]
On(f) == [p \in MCPaths |-> IF p = starter THEN f ELSE Same]
NoTransform == On(Same)

\* The example plugin: what is stored is shown evolved, and turned back.
Evolves == On([Same EXCEPT !["base"] = "evolved"])
TurnsBack == On([Same EXCEPT !["evolved"] = "base"])

\* A computed display value and its inverse, neither the same twice.
Computes == On([base |-> "evolved", evolved |-> "other", other |-> "base"])
Reverts == On([base |-> "other", evolved |-> "base", other |-> "evolved"])

\* The mask of transform-plugin.md: everything is shown as one value, and
\* nothing turns it back.
Masks == On([v \in MCValues |-> "other"])

\* The same with one path.
OnePath == {starter}
OneDefaults == [p \in OnePath |-> "base"]
OneEvolves == [p \in OnePath |-> Evolves[p]]
OneTurnsBack == [p \in OnePath |-> TurnsBack[p]]

Never == {}
AllOrNothing == {{}}
AnyOfThem == SUBSET MCPaths
TheSecret == {name}
TheBlocking == {"other"}

NoKinds == {}
WebKinds == {"edit", "preview"}
EditKinds == {"edit"}
ScreenKinds == {"commit"}
LoadingKinds == {"edit", "preview", "commit"}
ApiKinds == {"set"}
=============================================================================

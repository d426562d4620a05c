--------------------------- MODULE ComponentLedger ---------------------------
(***************************************************************************)
(* What the component switches of a workspace promise to whoever uses      *)
(* `zhi component`, one command at a time: a set of components that are    *)
(* on, changed by whole commands, always together with what they need.     *)
(* Components implements it (ComponentsRefinement).                        *)
(***************************************************************************)
CONSTANT Definitions    \* [names, mandatory, deps], from zhi.yaml

VARIABLE switchedOn

Names == Definitions.names
Optional == Names \ Definitions.mandatory

\* The least set that holds S and, with every member, next of that member.
Closure(S, next(_)) ==
    {d \in Names :
        \A T \in SUBSET Names : S \subseteq T /\ (\A x \in T : next(x) \subseteq T) => d \in T}

Needs(c) == Definitions.deps[c]
NeededBy(c) == {d \in Names : c \in Needs(d)}

Mandatory == Closure(Definitions.mandatory, Needs)

Init == switchedOn = Mandatory

\* Enabling a component brings everything it needs along.
TurnOn(c) == switchedOn' = switchedOn \cup Closure({c}, Needs)

\* An optional component nothing enabled needs may be disabled ...
TurnOff(c) ==
    /\ NeededBy(c) \cap switchedOn = {}
    /\ switchedOn' = switchedOn \ {c}

\* ... or, by force, together with everything that needs it, unless that
\* includes a mandatory component.
TurnOffAll(c) ==
    LET needing == Closure({c}, NeededBy) IN
    /\ needing \subseteq Optional
    /\ switchedOn' = switchedOn \ needing

\* A command that dies while saving loses every switch ever set.
Forget == switchedOn' = Mandatory

Next ==
    \/ \E c \in Names : TurnOn(c)
    \/ \E c \in Optional : TurnOff(c) \/ TurnOffAll(c)
    \/ Forget

Spec == Init /\ [][Next]_switchedOn
=============================================================================

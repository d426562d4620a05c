-------------------------- MODULE MCPluginLifecycle --------------------------
(* Instances of PluginLifecycle for TLC.                                   *)
EXTENDS PluginLifecycle, TLC

CONSTANTS config, store

TwoTypes == {config, store}

\* 0.9 and 0.10, which an alphabetical list has the other way round.
TwoVersions == 1 .. 2
Alphabetical == (1 :> 2) @@ (2 :> 1)

Symmetric == Permutations(TwoTypes)
=============================================================================

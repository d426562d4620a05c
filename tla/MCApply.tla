------------------------------ MODULE MCApply ------------------------------
(* Instances of Apply for TLC: a shell and one process that it may start.  *)
EXTENDS Apply

CONSTANTS sh, child

Two == {sh, child}
Run(kinds, checks, writes, s, c) ==
    [temper : {[p \in Two |-> IF p = sh THEN s ELSE c]}, kind : kinds, checks : {checks}, writes : {writes}]

\* Processes that end by themselves, with enough lines to fill a pipe behind
\* one that is too long and with a pre-check before them; a daemon; endless
\* ones that SIGTERM or the SIGKILL of the shell stop.
Mixed ==
    Run({"range"}, 0, 3, {}, {})
    \cup Run({"range", "select"}, 1, 2, {}, {})
    \cup Run({"range"}, 1, 1, {}, {"ignores", "detached"})
    \cup Run({"range"}, 0, 2, {}, {"endless", "detached", "ignores", "quiet"})
    \cup Run({"range"}, 1, 2, {"endless"}, {"endless"})
    \cup Run({"range"}, 0, 2, {"endless", "ignores"}, {})

Stubborn == Run({"range"}, 0, 1, {}, {"endless", "ignores"})
Viewed == Run({"select"}, 0, 2, {}, {})
=============================================================================

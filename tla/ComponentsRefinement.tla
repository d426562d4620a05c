------------------------- MODULE ComponentsRefinement -------------------------
(***************************************************************************)
(* Components implements ComponentLedger as long as zhi.yaml stays the     *)
(* same and no two commands overlap, whatever sessions do beside them.     *)
(***************************************************************************)
EXTENDS Components

\* The one version of zhi.yaml there is.
TheWorkspace == CHOOSE w \in Workspaces : TRUE

\* At most one process is in a command that changes the switches, between
\* reading the file and writing it; sessions come and go.
Serial ==
    \A p, q \in Procs :
       {pc[p], pc[q]} \subseteq {"command", "changed", "truncated"} => p = q

SerialSpec == Init /\ [][FixedNext /\ Serial']_vars

\* What the next process would load; a command takes effect in the instant
\* its save truncates the file.
Recorded ==
    IF \E p \in Procs : pc[p] = "truncated"
    THEN on[CHOOSE p \in Procs : pc[p] = "truncated"]
    ELSE Loaded(TheWorkspace, file)

Ledger == INSTANCE ComponentLedger
              WITH Definitions <- TheWorkspace, switchedOn <- Recorded

\* Every command, session and crash is one of the ledger's steps or none of
\* its business: in particular no command loses what an earlier one set.
ImplementsLedger == Ledger!Spec
=============================================================================

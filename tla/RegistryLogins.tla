--------------------------- MODULE RegistryLogins ---------------------------
(***************************************************************************)
(* The registries somebody is logged in to: ~/.zhi/config.yaml, which      *)
(* every command reads when it starts and zhi registry login and logout    *)
(* write back as a whole, in place.  A process may die while it writes and *)
(* leave the entries it came to.                                           *)
(*                                                                         *)
(* Source: pkg/sharing/registry/registry.go, internal/cli/registry_cmd.go  *)
(***************************************************************************)
EXTENDS Naturals

CONSTANTS
    Process,    \* commands that run at the same time
    Registry, User,
    MaxLogins,  \* bound on the commands
    None

Logins == [Registry -> User \cup {None}]

VARIABLES
    file,       \* config.yaml
    held,       \* what a command has in memory, None while none runs
    logins,
    \* History: what the commands that ended well have asked for; whether two
    \* overlapped or one died.
    asked, disturbed

vars == <<file, held, logins, asked, disturbed>>

TypeOK ==
    /\ file \in Logins /\ asked \in Logins
    /\ held \in [Process -> Logins \cup {None}]
    /\ disturbed \in BOOLEAN

Init ==
    /\ file = [r \in Registry |-> None]
    /\ held = [p \in Process |-> None]
    /\ logins = 0
    /\ asked = file
    /\ disturbed = FALSE

\* The file is read once.
NewStore(p) ==
    /\ held[p] = None
    /\ logins < MaxLogins
    /\ logins' = logins + 1
    /\ held' = [held EXCEPT ![p] = file]
    /\ disturbed' = (disturbed \/ \E q \in Process : held[q] # None)
    /\ UNCHANGED <<file, asked>>

\* A store that begins with nothing.
SaveAlone(p, r, user) == [q \in Registry |-> IF q = r THEN user ELSE None]

\* What a login (or, with None, a logout) writes.
Save(p, r, user) == [held[p] EXCEPT ![r] = user]

\* One who is not logged in is not logged out.
Command(p) ==
    \E r \in Registry, user \in User \cup {None} :
        /\ held[p] # None
        /\ user = None => held[p][r] # None
        /\ file' = Save(p, r, user)
        /\ asked' = [asked EXCEPT ![r] = user]
        /\ held' = [held EXCEPT ![p] = None]
        /\ UNCHANGED <<logins, disturbed>>

Refuse(p) ==
    /\ held[p] # None
    /\ held' = [held EXCEPT ![p] = None]
    /\ UNCHANGED <<file, logins, asked, disturbed>>

Die(p) ==
    /\ held[p] # None
    /\ \E r \in Registry, user \in User, kept \in SUBSET Registry :
         file' = [q \in Registry |-> IF q \in kept THEN Save(p, r, user)[q] ELSE None]
    /\ held' = [held EXCEPT ![p] = None]
    /\ disturbed' = TRUE
    /\ UNCHANGED <<logins, asked>>

Next == \E p \in Process : NewStore(p) \/ Command(p) \/ Refuse(p) \/ Die(p)

Spec == Init /\ [][Next]_vars

\* Whoever logged in is logged in, and whoever logged out is not, as long as
\* no two commands ran at once and none died: a login to one registry costs
\* nobody the login to another.
LoginsKept == ~disturbed => file = asked
=============================================================================

------------------------------- MODULE Stores -------------------------------
(***************************************************************************)
(* The stores of values: a Vault store, which keeps a history of every     *)
(* path, a JSON file, which keeps one file for a whole tree, and a         *)
(* mirrored store, which writes to a primary and then to its mirrors.      *)
(*                                                                         *)
(* A client is a process with a mirrored store (or, without mirrors, with  *)
(* the primary alone); its calls come one at a time.  A Vault call is a    *)
(* request per path; a file call reads the file, changes the copy and      *)
(* renames it over the file, and only the lock of its own process keeps    *)
(* another call out.  Requests may fail, with or without their effect, and *)
(* a client may die at any point.  Vault itself is external: what it does  *)
(* with a version is modelled from what the store asks of it.              *)
(*                                                                         *)
(* Source: pkg/providers/store/vault/vault.go,                             *)
(*         pkg/providers/store/jsonfile/jsonfile.go,                       *)
(*         pkg/zhiplugin/store/compose.go, internal/core/engine.go         *)
(***************************************************************************)
EXTENDS Integers

CONSTANTS
    Client,
    Path,
    Value,
    Primary,     \* the store that is read
    Mirror,      \* the stores that are written after it
    None,        \* no value: no such version, or no such file entry
    Destroyed,   \* what Vault keeps of a version that was destroyed
    NotYet,      \* a call has read nothing so far
    Start,       \* what all stores have at the start
    Offered,     \* the values that clients put together
    Keep,        \* the versions Vault keeps of a path (store.maxversions)
    MaxVersion,  \* bound: the writes of a path between two deletions
    MaxCalls     \* bound: the calls that change something

Store == {Primary} \cup Mirror

ASSUME StoresAssumption ==
    /\ MaxVersion \in Nat /\ MaxCalls \in Nat
    /\ Keep \in [Path -> Nat \ {0}]
    /\ Primary \notin Mirror
    /\ Start \in [Path -> Value \cup {None}] /\ MaxVersion > 0
    /\ None \notin Value /\ Destroyed \notin Value \cup {None}
    /\ NotYet \notin [Path -> Value \cup {None}]

ASSUME OfferedAssumption ==
    \A vals \in Offered : vals \in [Path -> Value \cup {None}] /\ \E p \in Path : vals[p] # None

Version == 1..MaxVersion
Secret == [top : 0..MaxVersion, is : [Version -> Value \cup {None, Destroyed}]]
Contents == [Path -> Value \cup {None}]
Kind == {"vault", "file"}

VARIABLES
    kind,    \* what each store is; chosen at the start
    held,    \* what each store has of each path; a file has version 1 only
    seen,    \* what each client has read for its next put: the value and its
             \* version, 0 for none; it reads again for the put after that
    job,     \* the call each client is in
    \* History: the paths deleted since a client read them; the paths of a
    \* store to which something has happened that may set the store apart
    \* from what the calls asked for.
    reborn, parted,
    calls    \* the calls so far

vars == <<kind, held, seen, job, reborn, parted, calls>>

Job == [do : {"idle", "put", "delete", "tree", "rollback"},
        how : {"blind", "version", "option"},   \* what the write checks
        vals : Contents,                        \* what to put
        paths : SUBSET Path,                    \* what the call is about
        target : 0..MaxVersion,                 \* the version to go back to
        left : [Store -> SUBSET Path],          \* what is still to be written
        copy : [Store -> {NotYet} \cup Contents]]
                        \* what it has read at a store, before it writes there

Idle == [do |-> "idle", how |-> "blind", vals |-> [p \in Path |-> None],
         paths |-> {}, target |-> 0, left |-> [s \in Store |-> {}], copy |-> [s \in Store |-> NotYet]]

Unread == [p \in Path |-> [val |-> None, version |-> 0]]

Empty == [top |-> 0, is |-> [v \in Version |-> None]]

\* The first version of a path, and the only one that a file has.
First(x) == IF x = None THEN Empty
            ELSE [top |-> 1, is |-> [v \in Version |-> IF v = 1 THEN x ELSE None]]

TypeOK ==
    /\ kind \in [Store -> Kind]
    /\ held \in [Store -> [Path -> Secret]]
    /\ \A s \in Store, p \in Path, v \in Version :
          v > held[s][p].top => held[s][p].is[v] = None
    /\ seen \in [Client -> [Path -> [val : Value \cup {None}, version : 0..MaxVersion]]]
    /\ job \in [Client -> Job]
    /\ reborn \in [Client -> SUBSET Path]
    /\ parted \in SUBSET (Store \X Path)
    /\ calls \in 0..MaxCalls

Init ==
    /\ kind \in [Store -> Kind]
    /\ held = [s \in Store |-> [p \in Path |-> First(Start[p])]]
    /\ seen = [c \in Client |-> Unread]
    /\ job = [c \in Client |-> Idle]
    /\ reborn = [c \in Client |-> {}]
    /\ parted = {}
    /\ calls = 0

-----------------------------------------------------------------------------
\* What a store has and what becomes of it.

\* What is stored under a version; a path without versions has none.
At(s, p, v) == IF v = 0 THEN None ELSE held[s][p].is[v]

\* What a read of the newest version gives: Vault answers that a version
\* that was destroyed is not found.
Current(s, p) ==
    LET x == At(s, p, held[s][p].top) IN IF x = Destroyed THEN None ELSE x

\* A write of Vault: one more version, the oldest beyond Keep are dropped.
Written(h, p, x) ==
    [top |-> h.top + 1,
     is |-> [v \in Version |-> IF v = h.top + 1 THEN x
                              ELSE IF v + Keep[p] <= h.top + 1 THEN None
                              ELSE h.is[v]]]

\* The version that a value carries is not looked at.
ExpectedOptionOnly(c, s, p) ==
    IF job[c].how = "option" /\ s = Primary THEN seen[c][p].version ELSE -1

\* The version a client's write of p at s has to meet, -1 for any: what the
\* caller says, else what the value has been carrying since it was read.
\* Mirrors get the values without the caller's options.
Expected(c, s, p) ==
    IF job[c].how = "option" /\ s = Primary THEN seen[c][p].version
    ELSE IF job[c].how = "version" /\ seen[c][p].version > 0 THEN seen[c][p].version
    ELSE -1

\* The mirrors have their turn, all at once, when the primary is done.
Active(c, s) ==
    /\ job[c].do # "idle"
    /\ s = Primary \/ job[c].left[Primary] = {}
    /\ job[c].left[s] # {}

\* What the mirrors in M miss of a call that goes no further with them.
Missed(j, M) == {x \in M \X Path : x[2] \in (j.paths \ j.left[Primary]) \cap j.left[x[1]]}

\* The call returns when nothing is left.
Settled(j) == IF \A s \in Store : j.left[s] = {} THEN Idle ELSE j

\* The end of a step of c's call, and what its client knows after it.
Ends(c, j, deleted) ==
    /\ job' = [job EXCEPT ![c] = j]
    /\ seen' = IF j = Idle THEN [seen EXCEPT ![c] = Unread] ELSE seen
    /\ reborn' = [d \in Client |->
          IF d = c /\ j = Idle THEN {}
          ELSE reborn[d] \cup {p \in deleted : seen[d][p].version > 0}]

\* An error of the primary is logged too, and the mirrors are written.
AfterGoesOn(c, s, rest, deleted, ok) ==
    LET j == [job[c] EXCEPT !.left = [@ EXCEPT ![s] = IF ok THEN rest ELSE {}]] IN
    /\ Ends(c, Settled(j), IF s = Primary THEN deleted ELSE {})
    /\ parted' = IF ok \/ s = Primary THEN parted ELSE parted \cup Missed([j EXCEPT !.left = [@ EXCEPT ![s] = rest]], {s})

\* A request or a file call at s has ended; rest is what is left there, and
\* deleted are the paths it has deleted.  An error of the primary ends the
\* whole call, one of a mirror is logged.
After(c, s, rest, deleted, ok) ==
    LET j == [job[c] EXCEPT !.left = [@ EXCEPT ![s] = rest]]
        gone == IF s = Primary THEN deleted ELSE {}
    IN IF ok
       THEN Ends(c, Settled(j), gone) /\ UNCHANGED parted
       ELSE /\ parted' = parted \cup Missed(j, IF s = Primary THEN Mirror ELSE {s})
            /\ Ends(c, IF s = Primary THEN Idle
                       ELSE Settled([j EXCEPT !.left = [@ EXCEPT ![s] = {}]]), gone)

\* What a call has read at s before it writes there.
Copied(c, s, x) == [job[c] EXCEPT !.copy = [@ EXCEPT ![s] = x]]

Store1(s, p, h) == held' = [held EXCEPT ![s] = [@ EXCEPT ![p] = h]]

-----------------------------------------------------------------------------
\* A call begins.

\* Where two calls that overlap may leave a store with a mixture.  A file
\* call writes back every path that it has read.
Mixed(c, P) ==
    LET rivals == {d \in Client \ {c} : job[d].do # "idle"}
        shared == UNION {P \cap job[d].paths : d \in rivals}
        either == UNION {P \cup job[d].paths : d \in rivals}
    IN IF \E s \in Store : kind[s] = "file" THEN Store \X either ELSE Mirror \X shared

Begin(c, do, how, vals, P, v) ==
    /\ job[c].do = "idle" /\ calls < MaxCalls
    /\ calls' = calls + 1
    /\ job' = [job EXCEPT ![c] = [do |-> do, how |-> how, vals |-> vals, paths |-> P,
                                 target |-> v, left |-> [s \in Store |-> P],
                                 copy |-> Idle.copy]]
    /\ parted' = parted \cup Mixed(c, P)
    /\ seen' = IF how = "blind" THEN [seen EXCEPT ![c] = Unread] ELSE seen
    /\ reborn' = IF how = "blind" THEN [reborn EXCEPT ![c] = {}] ELSE reborn
    /\ UNCHANGED <<kind, held>>

PutValues(c) ==
    \E vals \in Offered, how \in {"blind", "version", "option"} :
        Begin(c, "put", how, vals, {p \in Path : vals[p] # None}, 0)

DeleteValues(c) ==
    \E P \in (SUBSET Path) \ {{}} : Begin(c, "delete", "blind", Idle.vals, P, 0)

DeleteTree(c) == Begin(c, "tree", "blind", Idle.vals, Path, 0)

RollbackValue(c) ==
    \E p \in Path, v \in Version : Begin(c, "rollback", "blind", Idle.vals, {p}, v)

\* One path of a GetValues; the mirrors are never read.
GetValue(c, p) ==
    /\ job[c].do = "idle"
    /\ seen' = [seen EXCEPT ![c] = [@ EXCEPT ![p] =
           [val |-> Current(Primary, p),
            version |-> IF kind[Primary] = "vault" /\ Current(Primary, p) # None
                        THEN held[Primary][p].top ELSE 0]]]
    /\ reborn' = [reborn EXCEPT ![c] = @ \ {p}]
    /\ UNCHANGED <<kind, held, job, parted, calls>>

\* DeleteValueVersion: one request, to the primary only.
DeleteVersion(c, p, v) ==
    /\ job[c].do = "idle" /\ calls < MaxCalls /\ kind[Primary] = "vault"
    /\ calls' = calls + 1
    /\ At(Primary, p, v) \in Value
    /\ Store1(Primary, p, [held[Primary][p] EXCEPT !.is = [@ EXCEPT ![v] = Destroyed]])
    /\ parted' = IF v = held[Primary][p].top THEN parted \cup (Mirror \X {p}) ELSE parted
    /\ UNCHANGED <<kind, seen, job, reborn>>

-----------------------------------------------------------------------------
\* Requests to a Vault store.

\* PutValues, one path: the metadata request, which may fail, comes before
\* the write and leaves what Keep says.
PutPath(c, s, p) ==
    /\ Active(c, s) /\ kind[s] = "vault" /\ job[c].do = "put" /\ p \in job[c].left[s]
    /\ Expected(c, s, p) \in {-1, held[s][p].top}
    /\ held[s][p].top < MaxVersion
    /\ Store1(s, p, Written(held[s][p], p, job[c].vals[p]))
    /\ After(c, s, job[c].left[s] \ {p}, {}, TRUE)
    /\ UNCHANGED <<kind, calls>>

\* Vault refuses the write of a path whose version is another one.
CASConflict(c, s, p) ==
    /\ Active(c, s) /\ kind[s] = "vault" /\ job[c].do = "put" /\ p \in job[c].left[s]
    /\ Expected(c, s, p) \notin {-1, held[s][p].top}
    /\ After(c, s, job[c].left[s], {}, FALSE)
    /\ UNCHANGED <<kind, held, calls>>

\* DeleteTree lists the paths first.
ListTree(c, s) ==
    LET known == {p \in Path : held[s][p].top > 0}
        listed == Copied(c, s, [p \in Path |-> Current(s, p)])
    IN  /\ Active(c, s) /\ kind[s] = "vault" /\ job[c].do = "tree" /\ job[c].copy[s] = NotYet
        /\ Ends(c, Settled([listed EXCEPT !.left = [@ EXCEPT ![s] = known]]), {})
        /\ UNCHANGED <<kind, held, parted, calls>>

\* Deleting the metadata of a path deletes all of its versions.
DeletePath(c, s, p) ==
    /\ Active(c, s) /\ kind[s] = "vault" /\ p \in job[c].left[s]
    /\ job[c].do = "delete" \/ (job[c].do = "tree" /\ job[c].copy[s] # NotYet)
    /\ Store1(s, p, Empty)
    /\ After(c, s, job[c].left[s] \ {p}, {p}, TRUE)
    /\ UNCHANGED <<kind, calls>>

\* RollbackValue reads the version, and later writes it as a new one whatever
\* has been written since; a version that is not found is an error.
RollbackRead(c, s, p) ==
    LET x == At(s, p, job[c].target) IN
    /\ Active(c, s) /\ kind[s] = "vault" /\ job[c].do = "rollback"
    /\ p \in job[c].left[s] /\ job[c].copy[s] = NotYet
    /\ IF x \in Value
       THEN /\ job' = [job EXCEPT ![c] = Copied(c, s, [q \in Path |-> IF q = p THEN x ELSE None])]
            /\ UNCHANGED <<seen, reborn, parted>>
       ELSE After(c, s, job[c].left[s], {}, FALSE)
    /\ UNCHANGED <<kind, held, calls>>

\* The version is made the newest one again.
RollbackInPlace(c, s, p) ==
    /\ Active(c, s) /\ kind[s] = "vault" /\ job[c].do = "rollback"
    /\ job[c].copy[s] # NotYet /\ p \in job[c].left[s]
    /\ Store1(s, p, [top |-> job[c].target,
                     is |-> [v \in Version |-> IF v > job[c].target THEN None ELSE held[s][p].is[v]]])
    /\ After(c, s, {}, {}, TRUE)
    /\ UNCHANGED <<kind, calls>>

RollbackWrite(c, s, p) ==
    /\ Active(c, s) /\ kind[s] = "vault" /\ job[c].do = "rollback"
    /\ job[c].copy[s] # NotYet /\ p \in job[c].left[s]
    /\ held[s][p].top < MaxVersion
    /\ Store1(s, p, Written(held[s][p], p, job[c].copy[s][p]))
    /\ After(c, s, {}, {}, TRUE)
    /\ UNCHANGED <<kind, calls>>

-----------------------------------------------------------------------------
\* Calls of a JSON file store.

FileRead(c, s) ==
    /\ Active(c, s) /\ kind[s] = "file" /\ job[c].do \in {"put", "delete"} /\ job[c].copy[s] = NotYet
    /\ job' = [job EXCEPT ![c] = Copied(c, s, [p \in Path |-> Current(s, p)])]
    /\ UNCHANGED <<kind, held, seen, reborn, parted, calls>>

\* There is nothing to delete from when there is no file.
FileAbsent(c, s) ==
    /\ Active(c, s) /\ kind[s] = "file" /\ job[c].do = "delete" /\ job[c].copy[s] = NotYet
    /\ \A p \in Path : Current(s, p) = None
    /\ After(c, s, {}, {}, TRUE)
    /\ UNCHANGED <<kind, held, calls>>

\* What a call makes of a file that it has read.
Changed(j, x) ==
    [p \in Path |-> IF p \notin j.paths THEN x[p]
                   ELSE IF j.do = "put" THEN j.vals[p] ELSE None]

FileWrite(c, s) ==
    /\ Active(c, s) /\ kind[s] = "file" /\ job[c].copy[s] # NotYet
    /\ held' = [held EXCEPT ![s] = [p \in Path |-> First(Changed(job[c], job[c].copy[s])[p])]]
    /\ After(c, s, {}, {}, TRUE)
    /\ UNCHANGED <<kind, calls>>

FileRemove(c, s) ==
    /\ Active(c, s) /\ kind[s] = "file" /\ job[c].do = "tree"
    /\ held' = [held EXCEPT ![s] = [p \in Path |-> Empty]]
    /\ After(c, s, {}, {}, TRUE)
    /\ UNCHANGED <<kind, calls>>

\* Any request or file call may fail.  An error after the effect, such as a
\* lost answer, is the effect and then this step.  A rollback of a file is
\* not supported.
Fails(c, s) ==
    /\ Active(c, s)
    /\ After(c, s, job[c].left[s], {}, FALSE)
    /\ UNCHANGED <<kind, held, calls>>

Crash(c) ==
    /\ job[c].do # "idle"
    /\ parted' = parted \cup Missed(job[c], Mirror)
    /\ Ends(c, Idle, {})
    /\ UNCHANGED <<kind, held, calls>>

-----------------------------------------------------------------------------
VaultStep(c) ==
    \E s \in Store :
        \/ \E p \in Path : PutPath(c, s, p) \/ CASConflict(c, s, p) \/ DeletePath(c, s, p)
                         \/ RollbackRead(c, s, p) \/ RollbackWrite(c, s, p)
        \/ ListTree(c, s)

FileStep(c) ==
    \E s \in Store : FileRead(c, s) \/ FileAbsent(c, s) \/ FileWrite(c, s) \/ FileRemove(c, s)

Call(c) ==
    \/ PutValues(c) \/ DeleteValues(c) \/ DeleteTree(c) \/ RollbackValue(c)
    \/ \E p \in Path : GetValue(c, p)
    \/ \E p \in Path, v \in Version : DeleteVersion(c, p, v)

Next == \E c \in Client : Call(c) \/ VaultStep(c) \/ FileStep(c)
                        \/ (\E s \in Store : Fails(c, s)) \/ Crash(c)

Spec == Init /\ [][Next]_vars

-----------------------------------------------------------------------------
(* A version stands for one value.  As long as nobody has deleted a path    *)
(* since a client read it, the version that the client carries is in Vault, *)
(* and is still the value it read unless it was destroyed or dropped: puts, *)
(* rollbacks and failures of others never give a version another value.     *)
VersionMeansValue ==
    \A c \in Client, p \in Path :
        LET v == seen[c][p].version IN
        v > 0 /\ p \notin reborn[c]
            => /\ held[Primary][p].top >= v
               /\ At(Primary, p, v) \in {seen[c][p].val, Destroyed, None}

(* A checked write replaces what its client read.  A put that carries the   *)
(* version of a read, or names it in its options, replaces no value that    *)
(* its client has not seen, unless the path was deleted and written again   *)
(* since the read: then versions start over and the check may be met by     *)
(* another value.  (PutValues, vault.go:618-644)                            *)
NothingUnreadReplaced ==
    [][\A c \in Client, p \in Path :
          /\ job[c].do = "put" /\ job[c].how # "blind" /\ kind[Primary] = "vault"
          /\ seen[c][p].version > 0 /\ p \notin reborn[c]
          /\ p \in job[c].left[Primary] /\ p \notin job'[c].left[Primary]
          /\ held'[Primary][p] # held[Primary][p]
          => At(Primary, p, held[Primary][p].top) \in {seen[c][p].val, Destroyed}]_vars

(* Mirrors follow.  When no call is under way, a mirror has the values of   *)
(* the primary for every path except those where a call failed or died      *)
(* between stores, where two processes overlapped, or whose newest version  *)
(* was destroyed.  (mirrorAction and its callers, compose.go)               *)
MirrorsFollow ==
    (\A c \in Client : job[c].do = "idle") =>
        \A m \in Mirror, p \in Path :
            <<m, p>> \notin parted => Current(m, p) = Current(Primary, p)

(* A call changes what it is about.  Only a call about a path gives it      *)
(* another value or takes it away, in a Vault always and in a file unless   *)
(* another call overlapped; so a put of some values keeps the others.       *)
OthersUntouched ==
    [][\A s \in Store, p \in Path :
          \/ held'[s][p].top # held[s][p].top
          \/ Current(s, p)' \notin {Current(s, p), None}
          => (\E c \in Client : p \in job[c].paths /\ Active(c, s)) \/ <<s, p>> \in parted]_vars

\* Writes neither replace what their client has not read, nor touch what
\* they are not about.
WritesMindOthers == NothingUnreadReplaced /\ OthersUntouched

=============================================================================

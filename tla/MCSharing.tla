------------------------------ MODULE MCSharing ------------------------------
(* The two servers that plugins are shared by, each with the files of its   *)
(* own: a behaviour is one of the mirror or one of the marketplace.         *)
(*                                                                          *)
(* The mirror has one tag that stands for two manifests in turn, which      *)
(* share a layer.  The marketplace has one publisher with a plugin of two   *)
(* types, and another user.                                                 *)
EXTENDS Integers, FiniteSets, TLC

CONSTANTS
    Worker, Tag, Digest, Refs, Chosen, Top, Plugin, Absent, TTL, Patience, MaxTime, Mixes, MaxWork,
    User, Artifact, Owner, Version, Contents, Score, MaxWrites

VARIABLES
    server,    \* which of the two
    now, up, blobs, tags, cache, allowed, job, answer, export, bundle, import, unwritten, misnamed, pulled, mix, work,
    mem, stored, serving, heard, writes

MCRefs == [d \in Digest |-> IF d \in Top THEN Digest \ Top ELSE {}]

MCMixes == {{"pull", "sync", "publish"}, {"sync", "blob"}, {"pull", "airgap"}, {"sync", "airgap", "publish"},
            {"pull", "misname"}, {"search", "policy"}}

MCOwner == [a \in Artifact |-> CHOOSE u \in User : TRUE]

\* The times to live are five minutes, whatever the timeout.
ASSUME MirrorAssumption ==
    /\ TTL \in Nat \ {0} /\ Patience \in Nat /\ MaxTime \in Nat /\ MaxWork \in Nat
    /\ Refs \in [Digest -> SUBSET Digest] /\ Chosen \in [Digest -> SUBSET Digest]
    /\ \A d \in Digest : Chosen[d] \subseteq Refs[d]
    /\ Top \subseteq Digest /\ Absent \notin Digest

ASSUME MarketAssumption == Owner \in [Artifact -> User] /\ IsFiniteSet(User) /\ MaxWrites \in Nat

Mirrors == INSTANCE Mirror

Market == INSTANCE Marketplace WITH file <- stored, running <- serving, Digest <- Contents

mirrorVars == <<now, up, blobs, tags, cache, allowed, job, answer, export, bundle, import, unwritten, misnamed, pulled, mix, work>>
marketVars == <<mem, stored, serving, heard, writes>>

ServersInit ==
    /\ server \in {"mirror", "marketplace"}
    /\ Mirrors!Init /\ (server = "marketplace" => mix = {"search", "policy"})
    /\ Market!Init

ServersNext ==
    \/ server = "mirror" /\ Mirrors!Next /\ UNCHANGED <<server, marketVars>>
    \/ server = "marketplace" /\ Market!Next /\ UNCHANGED <<server, mirrorVars>>

ServersSpec == ServersInit /\ [][ServersNext]_<<server, mirrorVars, marketVars>>

\* What the mirror has pulled, it keeps and serves by its name; what it holds
\* is well formed, the policy of the moment is asked for all search results,
\* and what an import brought in is whole.
MirrorConsistent ==
    /\ Mirrors!TypeOK /\ Mirrors!PulledStays /\ Mirrors!ServedAsNamed
    /\ Mirrors!PolicyAtAnswer /\ Mirrors!AirgapComplete

\* The marketplace's data are well formed in memory and in the file: nothing
\* refers to what is not there, no version and no author's rating is there
\* twice, the two ways in which downloads are counted give one number, and the
\* count of helpful votes is that of the votes taken; and what a client was
\* told is stored stays stored.
MarketConsistent == Market!TypeOK /\ Market!CountersAgree /\ Market!VotesAddUp
                    /\ Market!AnsweredStays

\* Both keep what they took and answer by what they have.
SharingConsistent == MirrorConsistent /\ MarketConsistent

\* What the mirror answers as fresh, the upstream said no longer ago than a
\* time to live and two timeouts.
FreshAnswers == Mirrors!FreshAnswers

Symmetry == Permutations(Worker) \cup Permutations(Top) \cup Permutations(Artifact)

=============================================================================

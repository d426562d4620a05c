----------------------------- MODULE Marketplace -----------------------------
(***************************************************************************)
(* The marketplace server: handlers change one data set in memory, each    *)
(* under the store's lock, and write all of it to a file before they       *)
(* answer.  The file is renamed into place, so it is the old data or the   *)
(* new; when that fails the change stays in memory and the client is told  *)
(* of an error.  A restart begins with the file.                           *)
(*                                                                         *)
(* What a handler looks up before it takes the lock again (an artifact,    *)
(* its owner, a version, a publisher) is never removed and never changes   *)
(* hands, so a handler is one step.                                        *)
(*                                                                         *)
(* Source: cmd/zhi-marketplace/storage/{sqlite,models}.go,                 *)
(*         cmd/zhi-marketplace/server/*.go, cmd/zhi-marketplace/main.go    *)
(***************************************************************************)
EXTENDS Integers, FiniteSets

CONSTANTS
    User,       \* the publishers that have an API key
    Artifact,   \* plugins, by publisher, name and type
    Owner,      \* the publisher of each
    Version,
    Digest,
    Score,      \* 1 to 5
    MaxWrites   \* bound: the requests that change something

VARIABLES
    mem,      \* the data in memory
    file,     \* the data in the file
    running,
    heard,    \* history: what clients were told is stored
    writes    \* the changes tried so far; a new ID each

vars == <<mem, file, running, heard, writes>>

\* A data set.  A rating has its author and, as history, every vote it has
\* counted with the ID the rating had at the time.
Rating == [id : 1..MaxWrites, art : Artifact, user : User, score : Score, helpful : 0..MaxWrites,
           voters : SUBSET User, cast : SUBSET ((1..MaxWrites) \X User)]
Published == [art : Artifact, version : Version, digest : Digest, downloads : 0..MaxWrites]
Event == [n : 1..MaxWrites, art : Artifact, version : Version]
Advisory == [id : 1..MaxWrites, art : Artifact]

Data == [publishers : SUBSET User, tier : [User -> 0..1], artifacts : SUBSET Artifact,
         versions : SUBSET Published, ratings : SUBSET Rating, events : SUBSET Event,
         advisories : SUBSET Advisory]
NoData == [publishers |-> {}, tier |-> [u \in User |-> 0], artifacts |-> {}, versions |-> {},
           ratings |-> {}, events |-> {}, advisories |-> {}]

\* What belongs to something refers to something that is there, and no two
\* entries share what identifies them: a version of an artifact, the author
\* of a rating.
WellFormed(d) ==
    /\ \A x \in d.versions \cup d.ratings \cup d.advisories : x.art \in d.artifacts
    /\ \A e \in d.events : \E v \in d.versions : v.art = e.art /\ v.version = e.version
    /\ \A v, w \in d.versions : v.art = w.art /\ v.version = w.version => v = w
    /\ \A r, s \in d.ratings : r.art = s.art /\ r.user = s.user => r = s

TypeOK ==
    /\ mem \in Data /\ file \in Data
    /\ WellFormed(mem) /\ WellFormed(file)
    /\ running \in BOOLEAN /\ writes \in 0..MaxWrites

Init ==
    /\ mem = NoData /\ file = NoData /\ running = FALSE
    /\ heard = {} /\ writes = 0

-----------------------------------------------------------------------------
\* The change reaches memory; the file if it can be written, and only then
\* is the client told that it is stored.
Flush(d, facts, ok) ==
    /\ mem' = d
    /\ file' = IF ok THEN d ELSE file
    /\ heard' = heard \cup (IF ok THEN facts ELSE {})
    /\ UNCHANGED running

\* A request of a publisher with a key, and the ID it makes.
Write(u) == running /\ u \in mem.publishers /\ writes < MaxWrites /\ writes' = writes + 1
Id == writes + 1

RegisterPlugin(u, a, ok) ==
    /\ Write(u) /\ Owner[a] = u /\ a \notin mem.artifacts
    /\ Flush([mem EXCEPT !.artifacts = @ \cup {a}], {[what |-> "artifact", art |-> a]}, ok)

\* A version that is registered already is refused, whatever its digest.
RegisterVersion(u, a, v, d, ok) ==
    /\ Write(u) /\ a \in mem.artifacts /\ Owner[a] = u
    /\ \A x \in mem.versions : x.art = a => x.version # v
    /\ Flush([mem EXCEPT !.versions = @ \cup {[art |-> a, version |-> v, digest |-> d, downloads |-> 0]}],
            {[what |-> "version", art |-> a, version |-> v, digest |-> d]}, ok)

Counted(x) == x.downloads + 1

\* Anyone may report a download: an event, and the counter of its version.
RecordDownload(x, ok) ==
    /\ running /\ writes < MaxWrites /\ writes' = writes + 1
    /\ x \in mem.versions
    /\ Flush([mem EXCEPT !.versions = (@ \ {x}) \cup {[x EXCEPT !.downloads = Counted(x)]},
                        !.events = @ \cup {[n |-> Id, art |-> x.art, version |-> x.version]}],
            {[what |-> "download", art |-> x.art, version |-> x.version, n |-> Id]}, ok)

\* Who has one rating of an artifact replaces it.
Mine(a, u) == {r \in mem.ratings : r.art = a /\ r.user = u}

\* The record that replaces r: a new ID, the count of r, and no voters.
Renewed(r, new) == [new EXCEPT !.helpful = r.helpful, !.cast = r.cast]

SubmitRating(u, a, s, ok) ==
    LET new == [id |-> Id, art |-> a, user |-> u, score |-> s, helpful |-> 0, voters |-> {}, cast |-> {}]
        stored == IF Mine(a, u) = {} THEN {new} ELSE {Renewed(r, new) : r \in Mine(a, u)}
    IN  /\ Write(u) /\ a \in mem.artifacts
        /\ Flush([mem EXCEPT !.ratings = (@ \ Mine(a, u)) \cup stored],
                {[what |-> "rating", art |-> a, user |-> u]}, ok)

\* Everyone may vote.
MayVoteAgain(r, u) == TRUE

MayVote(r, u) == u \notin r.voters

\* A vote goes to the ID that the voter was shown; it may be gone.
RatingHelpful(u, id, ok) ==
    \E r \in mem.ratings :
        /\ Write(u) /\ r.id = id /\ MayVote(r, u)
        /\ Flush([mem EXCEPT !.ratings = (@ \ {r}) \cup
                    {[r EXCEPT !.helpful = @ + 1, !.voters = @ \cup {u}, !.cast = @ \cup {<<id, u>>}]}],
                {[what |-> "vote", art |-> r.art, user |-> r.user, id |-> id, voter |-> u]}, ok)

\* The advisory names a plugin without its type: any of the publisher's.
CreateAdvisory(u, a, ok) ==
    /\ Write(u) /\ a \in mem.artifacts /\ Owner[a] = u
    /\ Flush([mem EXCEPT !.advisories = @ \cup {[id |-> Id, art |-> a]}],
            {[what |-> "advisory", art |-> a, id |-> Id]}, ok)

\* The whole record of the publisher is read and written back.
VerifyRequest(u, ok) ==
    /\ Write(u) /\ mem.tier[u] < 1
    /\ Flush([mem EXCEPT !.tier = [@ EXCEPT ![u] = 1]], {[what |-> "tier", user |-> u]}, ok)

-----------------------------------------------------------------------------
\* A start reads the file and adds the publishers of all keys, one by one;
\* one that cannot be stored is in memory all the same.
Start(ok) ==
    LET d == [file EXCEPT !.publishers = User] IN
    /\ ~running /\ running' = TRUE
    /\ mem' = d
    /\ file' = IF ok THEN d ELSE file
    /\ UNCHANGED <<heard, writes>>

\* The server is killed, also within a write, before or after the rename.
Crash ==
    /\ running /\ running' = FALSE
    /\ mem' = file /\ UNCHANGED <<file, heard, writes>>

\* On its orderly end it writes once more what it has in memory.
Stop(ok) ==
    /\ running /\ running' = FALSE
    /\ file' = IF ok THEN mem ELSE file
    /\ mem' = file' /\ UNCHANGED <<heard, writes>>

Handle(ok) ==
    \/ \E u \in User : VerifyRequest(u, ok) \/ \E id \in 1..MaxWrites : RatingHelpful(u, id, ok)
    \/ \E u \in User, a \in Artifact :
          \/ RegisterPlugin(u, a, ok) \/ CreateAdvisory(u, a, ok)
          \/ \E s \in Score : SubmitRating(u, a, s, ok)
          \/ \E v \in Version, d \in Digest : RegisterVersion(u, a, v, d, ok)
    \/ \E x \in mem.versions : RecordDownload(x, ok)

Next == Crash \/ \E ok \in BOOLEAN : Handle(ok) \/ Start(ok) \/ Stop(ok)

Spec == Init /\ [][Next]_vars

-----------------------------------------------------------------------------
\* What a version resolves to.
Resolve(d, a, v) == {x.digest : x \in {y \in d.versions : y.art = a /\ y.version = v}}

\* What a data set says of a fact that a client was told.
Holds(d, f) ==
    CASE f.what = "artifact" -> f.art \in d.artifacts
      [] f.what = "version" -> Resolve(d, f.art, f.version) = {f.digest}
      [] f.what = "download" -> [n |-> f.n, art |-> f.art, version |-> f.version] \in d.events
      [] f.what = "rating" -> \E r \in d.ratings : r.art = f.art /\ r.user = f.user
      [] f.what = "vote" ->
            \E r \in d.ratings : r.art = f.art /\ r.user = f.user /\ <<f.id, f.voter>> \in r.cast
      [] f.what = "advisory" -> [id |-> f.id, art |-> f.art] \in d.advisories
      [] f.what = "tier" -> d.tier[f.user] = 1

(* Whatever a client was told is stored, is there after every later request, *)
(* failed write, crash and restart, a version with the digest it was         *)
(* registered with.  (flush, NewSQLiteStore, HandleRegisterVersion)          *)
AnsweredStays == \A f \in heard : Holds(mem, f) /\ Holds(file, f)

\* The downloads that a search result shows: those of all versions, added up.
\* No two versions have one name, so the sum is the size of a union.
Downloads(d, a) == UNION {{v.version} \X (1..v.downloads) : v \in {x \in d.versions : x.art = a}}
InSearch(d, a) == Cardinality(Downloads(d, a))

\* Those that its page shows: the events, or the counters if there are none.
Events(d, a) == {e \in d.events : e.art = a}
OnPage(d, a) == IF Events(d, a) = {} THEN InSearch(d, a) ELSE Cardinality(Events(d, a))

(* The page of a plugin counts the events of its downloads, a search adds   *)
(* the counters of its versions: they show the same, from memory and from   *)
(* the file, also when the file could not be written.  (RecordDownload,     *)
(* HandleGetPlugin, Search)                                                 *)
CountersAgree ==
    \A d \in {mem, file} : \A a \in Artifact : OnPage(d, a) = InSearch(d, a)

(* The count of helpful votes is the number of votes that were taken: none  *)
(* is lost, and none is taken twice from who has voted on the rating as it   *)
(* is, whatever writes fail and whenever the server restarts.  As long as    *)
(* the author leaves the rating as it was, that is one per voter.            *)
(* (IncrementHelpful, CreateOrUpdateRating)                                  *)
VotesAddUp ==
    \A d \in {mem, file} : \A r \in d.ratings :
        /\ r.helpful = Cardinality(r.cast)
        /\ r.voters = {u \in User : <<r.id, u>> \in r.cast}
        /\ (\A vote \in r.cast : vote[1] = r.id) => r.helpful = Cardinality(r.voters)

(* What the comments say of the same: no voter counts twice (models.go:26-27, *)
(* 147-149).  No run checks it: an author's edit keeps the count and drops    *)
(* the voters, and who votes on the new edition counts once more.             *)
OneVotePerVoter ==
    \A r \in mem.ratings : r.helpful = Cardinality({vote[2] : vote \in r.cast})

=============================================================================

------------------------------- MODULE Mirror -------------------------------
(***************************************************************************)
(* The registry mirror: requests for tags and blobs and a scheduled sync   *)
(* share one directory of tags and content-addressed blobs, which an       *)
(* import of an air-gap bundle, a process of its own, writes as well.      *)
(* Search results of the marketplace go through a second cache.            *)
(*                                                                         *)
(* Every file is written under another name and renamed, so a write is one *)
(* step; it may fail, and the process may die between two of them.  The    *)
(* upstream registry changes its tags at any time and may be out of reach. *)
(* A request waits for it no longer than the timeout of the HTTP client.   *)
(* The mirror compares nothing that it serves with the digest it was asked *)
(* by or told, so an upstream may mix them up; an export does compare, and *)
(* fails.  A search result that is not of the expected form goes out as it *)
(* came.                                                                   *)
(*                                                                         *)
(* Source: cmd/zhi-mirror/server/{oci,sync,marketplace,policy}.go,         *)
(*         cmd/zhi-mirror/storage/{oci_layout,metadata}.go,                *)
(*         cmd/zhi-mirror/airgap/{export,import}.go                        *)
(***************************************************************************)
EXTENDS Integers

CONSTANTS
    Worker,      \* what may handle requests and syncs at the same time
    Tag,         \* a repository and a tag
    Digest,      \* manifests and blobs, by their contents
    Refs,        \* the digests that a manifest refers to
    Chosen,      \* those of them that an export takes along
    Top,         \* the manifests that a tag may stand for
    Plugin,      \* the plugins that a search finds upstream
    Absent,      \* no digest, no entry
    TTL,         \* how long a tag is taken without asking again
    Patience,    \* the timeout of the HTTP client, in ticks
    MaxTime,     \* bound: the clock
    Mixes,       \* bound: the kinds of work that one behaviour mixes
    MaxWork      \* bound: the requests, syncs, exports, imports, publications and mix-ups

Time == 0..MaxTime

VARIABLES
    now,
    up,        \* the tags of the upstream registry
    blobs,     \* the digests that the mirror holds
    tags,      \* its tags: the digest, when it was written; and, as history,
               \* when the upstream said so and whether it comes from a bundle
    cache,     \* the search results in the metadata store
    allowed,   \* the plugins that the policy lets through
    job,       \* what each worker does
    answer,    \* the answer of the last step, if it gave one
    export,    \* the export that is under way, on a machine with upstream
    bundle,    \* the file it has made
    import,    \* the import that is under way
    unwritten, \* history: digests whose writing to a file failed
    misnamed,  \* history: digests under which the upstream sent something else
    pulled,    \* history: digests of what clients have got
    mix, work  \* the kinds of work there is, and how much of it so far

vars == <<now, up, blobs, tags, cache, allowed, job, answer, export, bundle, import, unwritten, misnamed, pulled, mix, work>>
files == <<blobs, tags, cache>>
airgap == <<export, bundle, import>>
world == <<now, up, allowed, mix>>

Entry == [digest : Digest, at : Time, got : Time, from : {"upstream", "bundle"}]
NoEntry == [digest |-> Absent, at |-> 0, got |-> 0, from |-> "upstream"]
Nothing == [shown |-> {}, at |-> 0, parses |-> FALSE, held |-> FALSE]

Stage == {"idle", "read", "fetch", "coming", "tag", "serve", "byDigest", "listing"}
Job == [do : {"none", "pull", "blob", "sync", "search"}, stage : Stage,
        tag : Tag \cup {Absent}, digest : Digest \cup {Absent}, new : Digest \cup {Absent},
        since : Time,                        \* when the request was sent upstream
        got : Time,                          \* when the upstream answered
        how : {"fresh", "old", "bundle"}]    \* what the digest is worth
Idle == [do |-> "none", stage |-> "idle", tag |-> Absent, digest |-> Absent, new |-> Absent,
         since |-> 0, got |-> 0, how |-> "old"]

Silence == [to |-> "nobody", digest |-> Absent, content |-> Absent, got |-> 0, how |-> "old",
            shown |-> {}, parses |-> TRUE]

\* An answer: a digest and the contents it came with, or search results.
Answer == [to : {"nobody", "pull", "blob", "search"}, digest : Digest \cup {Absent},
           content : Digest \cup {Absent}, got : Time, how : {"fresh", "old", "bundle"},
           shown : SUBSET Plugin, parses : BOOLEAN]
Cached == [shown : SUBSET Plugin, at : Time, parses : BOOLEAN, held : BOOLEAN]

Bundle == [blobs : SUBSET Digest, bad : SUBSET Digest, arts : [Tag -> Top \cup {Absent}]]
NoExport == [on |-> FALSE, todo |-> {}, have |-> {}, arts |-> [t \in Tag |-> Absent]]
NoBundle == [blobs |-> {}, bad |-> {}, arts |-> [t \in Tag |-> Absent]]
NoImport == [on |-> FALSE, todo |-> {}, tags |-> {}, of |-> NoBundle]

TypeOK ==
    /\ now \in Time
    /\ up \in [Tag -> Top]
    /\ blobs \subseteq Digest
    /\ tags \in [Tag -> Entry \cup {NoEntry}]
    /\ \A t \in Tag : tags[t].got <= tags[t].at /\ tags[t].at <= now
    /\ cache \in Cached
    /\ allowed \subseteq Plugin
    /\ job \in [Worker -> Job]
    /\ answer \in Answer
    /\ export \in [on : BOOLEAN, todo : SUBSET Digest, have : SUBSET Digest, arts : [Tag -> Top \cup {Absent}]]
    /\ bundle \in Bundle
    /\ import \in [on : BOOLEAN, todo : SUBSET Digest, tags : SUBSET Tag, of : Bundle]
    /\ unwritten \subseteq Digest /\ misnamed \subseteq Digest /\ pulled \subseteq Digest
    /\ mix \in Mixes /\ work \in 0..MaxWork

Init ==
    /\ now = 0 /\ work = 0 /\ mix \in Mixes
    /\ up \in [Tag -> Top]
    /\ blobs = {} /\ tags = [t \in Tag |-> NoEntry] /\ cache = Nothing
    /\ allowed = Plugin
    /\ job = [w \in Worker |-> Idle] /\ answer = Silence
    /\ export = NoExport /\ bundle = NoBundle /\ import = NoImport
    /\ unwritten = {} /\ misnamed = {} /\ pulled = {}

-----------------------------------------------------------------------------
\* Steps of a worker.

Quiet == answer' = Silence

Starts(kind) == kind \in mix /\ work < MaxWork /\ work' = work + 1

Goes(w, j) == job' = [job EXCEPT ![w] = j]

At(w, stage) == job[w].stage = stage

\* PutBlob: its file is there already, or is written, or is not.
PutBlob(d, ok) ==
    /\ blobs' = IF ok THEN blobs \cup {d} ELSE blobs
    /\ unwritten' = IF ok THEN unwritten ELSE unwritten \cup {d}
    /\ ok \/ d \notin blobs

\* A worker answers what it was asked for with the contents c.
Answers(w, c) ==
    /\ answer' = [Silence EXCEPT !.to = job[w].do, !.digest = job[w].digest, !.content = c,
                                 !.got = job[w].got, !.how = job[w].how]
    /\ pulled' = pulled \cup {c}

\* The upstream sends c under a digest, which may be that of something else.
SentAs(name, c) ==
    \/ name = c /\ UNCHANGED <<misnamed, work>>
    \/ name # c /\ Starts("misname") /\ misnamed' = misnamed \cup {name}

\* A tag that is not older than its time to live is taken as it is.
FreshUpTo(e) == now - e.at <= TTL
Fresh(e) == now - e.at < TTL

Worth(e) == IF e.from = "bundle" THEN "bundle" ELSE "fresh"

Sent(j) == [j EXCEPT !.stage = "fetch", !.since = now]

\* A request for a tag of a repository that the policy lets through; the
\* first of two reads of its tag file.
AskTag(w, t) ==
    LET e == tags[t]
        j == [Idle EXCEPT !.do = "pull", !.tag = t, !.digest = e.digest, !.got = e.got]
    IN  /\ At(w, "idle") /\ Starts("pull")
        /\ Goes(w, IF e = NoEntry THEN Sent(j) ELSE [j EXCEPT !.stage = "read"])
        /\ Quiet /\ UNCHANGED <<world, files, airgap, unwritten, misnamed, pulled>>

\* The second read gives the time of the entry, and decides.  The digest is
\* that of the first read, even when the file was written in between.
CheckTag(w) ==
    LET e == tags[job[w].tag] IN
    /\ At(w, "read")
    /\ Goes(w, IF Fresh(e)
               THEN [job[w] EXCEPT !.stage = "serve", !.got = e.got,
                                   !.how = IF e.digest = job[w].digest THEN Worth(e) ELSE "old"]
               ELSE Sent(job[w]))
    /\ Quiet /\ UNCHANGED <<world, files, airgap, unwritten, misnamed, pulled, work>>

\* A rule of the schedule is due.
Sync(w, t) ==
    /\ At(w, "idle") /\ Starts("sync")
    /\ Goes(w, Sent([Idle EXCEPT !.do = "sync", !.tag = t]))
    /\ Quiet /\ UNCHANGED <<world, files, airgap, unwritten, misnamed, pulled>>

\* The upstream reads its tag; its answer is still to come.
Respond(w) ==
    /\ At(w, "fetch")
    /\ Goes(w, [job[w] EXCEPT !.stage = "coming", !.new = up[job[w].tag], !.got = now])
    /\ Quiet /\ UNCHANGED <<world, files, airgap, unwritten, misnamed, pulled, work>>

\* An upstream that is out of reach, refuses or is too late: a tag that is
\* known is served as it is, another one is not found; a sync gives up.
FetchFails(w) ==
    /\ At(w, "fetch") \/ At(w, "coming")
    /\ Goes(w, IF job[w].do = "pull" /\ job[w].digest # Absent
               THEN [job[w] EXCEPT !.stage = "serve", !.how = "old"] ELSE Idle)
    /\ Quiet /\ UNCHANGED <<world, files, airgap, unwritten, misnamed, pulled, work>>

\* The tag is written first, and the blob when it is served.
ReceiveTagFirst(w, ok, name) ==
    /\ At(w, "coming")
    /\ tags' = [tags EXCEPT ![job[w].tag] =
           [digest |-> job[w].new, at |-> now, got |-> job[w].got, from |-> "upstream"]]
    /\ Goes(w, [job[w] EXCEPT !.stage = "tag", !.digest = job[w].new, !.how = "fresh"])
    /\ Quiet /\ UNCHANGED <<world, blobs, cache, airgap, unwritten, misnamed, pulled, work>>

\* The manifest arrives and is stored by its contents.  A request goes on
\* without its blob, and with the digest that the header of the answer names;
\* a sync computes the digest.
Receive(w, ok, name) ==
    /\ At(w, "coming")
    /\ PutBlob(job[w].new, ok)
    /\ job[w].do = "sync" => name = job[w].new
    /\ SentAs(name, job[w].new)
    /\ Goes(w, IF job[w].do = "sync" /\ ~ok THEN Idle
               ELSE [job[w] EXCEPT !.stage = "tag", !.digest = name, !.how = "fresh"])
    /\ Quiet /\ UNCHANGED <<world, tags, cache, airgap, pulled>>

\* PutTag, which may fail as well.
StoreTag(w, ok) ==
    /\ At(w, "tag")
    /\ tags' = IF ok THEN [tags EXCEPT ![job[w].tag] =
                       [digest |-> job[w].digest, at |-> now, got |-> job[w].got, from |-> "upstream"]]
               ELSE tags
    /\ Goes(w, IF job[w].do = "sync" THEN Idle ELSE [job[w] EXCEPT !.stage = "serve"])
    /\ Quiet /\ UNCHANGED <<world, blobs, cache, airgap, unwritten, misnamed, pulled, work>>

\* A request for a blob or for a manifest by its digest.
AskDigest(w, d) ==
    /\ At(w, "idle") /\ Starts("blob")
    /\ Goes(w, [Idle EXCEPT !.do = "blob", !.digest = d, !.stage = "serve"])
    /\ Quiet /\ UNCHANGED <<world, files, airgap, unwritten, misnamed, pulled>>

\* What is held is served, the rest is asked for by its digest.
Serve(w) ==
    /\ At(w, "serve")
    /\ IF job[w].digest \in blobs
       THEN Answers(w, job[w].digest) /\ Goes(w, Idle)
       ELSE /\ Goes(w, [job[w] EXCEPT !.stage = "byDigest", !.since = now])
            /\ Quiet /\ UNCHANGED pulled
    /\ UNCHANGED <<world, files, airgap, unwritten, misnamed, work>>

\* What arrives is stored by its contents, and served as what was asked for.
ServeFetched(w, ok, c) ==
    /\ At(w, "byDigest")
    /\ PutBlob(c, ok) /\ SentAs(job[w].digest, c)
    /\ Answers(w, c) /\ Goes(w, Idle)
    /\ UNCHANGED <<world, tags, cache, airgap>>

NotFound(w) ==
    /\ At(w, "byDigest") /\ Goes(w, Idle)
    /\ Quiet /\ UNCHANGED <<world, files, airgap, unwritten, misnamed, pulled, work>>

-----------------------------------------------------------------------------
\* Searches of the marketplace.

\* What the policy leaves of search results; what does not parse as search
\* results is left as it is.
Filtered(found, parses) == IF parses THEN found \cap allowed ELSE found

Shows(found, parses) ==
    answer' = [Silence EXCEPT !.to = "search", !.shown = Filtered(found, parses), !.parses = parses]

\* A search is answered from the cache up to its time to live; all of the
\* results are cached, and the policy is asked for every answer.
Search(w) ==
    /\ At(w, "idle") /\ Starts("search")
    /\ IF cache.held /\ now - cache.at <= TTL
       THEN Shows(cache.shown, cache.parses) /\ UNCHANGED job
       ELSE Goes(w, [Idle EXCEPT !.do = "search", !.stage = "listing", !.since = now]) /\ Quiet
    /\ UNCHANGED <<world, files, airgap, unwritten, misnamed, pulled>>

\* The answer is search results, other JSON or no JSON at all, which cannot
\* be put into the file of the cache.
Body == {"results", "other", "none"}

Listed(w, ok, body) ==
    /\ At(w, "listing") /\ Goes(w, Idle)
    /\ cache' = IF ok /\ body # "none"
                THEN [shown |-> Plugin, at |-> now, parses |-> body = "results", held |-> TRUE] ELSE cache
    /\ Shows(Plugin, body = "results")
    /\ UNCHANGED <<world, blobs, tags, airgap, unwritten, misnamed, pulled, work>>

SearchFails(w) ==
    /\ At(w, "listing") /\ Goes(w, Idle)
    /\ Quiet /\ UNCHANGED <<world, files, airgap, unwritten, misnamed, pulled, work>>

-----------------------------------------------------------------------------
\* Export on the side of the upstream, and import on the other one.

\* What an export takes along of d: the least set that holds d and what is
\* chosen of every manifest in it.  An export that would have to stop above
\* its end, at the greatest depth of manifests, fails.
Closed(S) == \A x \in S : Chosen[x] \subseteq S

Tree(d) == {x \in Digest : \A S \in SUBSET Digest : d \in S /\ Closed(S) => x \in S}

StartExport ==
    /\ ~export.on /\ Starts("airgap")
    /\ export' = [NoExport EXCEPT !.on = TRUE]
    /\ Quiet /\ UNCHANGED <<world, files, job, bundle, import, unwritten, misnamed, pulled>>

\* The manifest of a tag, whatever the tag is now.
ExportTag(t) ==
    /\ export.on /\ export.todo = {} /\ export.arts[t] = Absent
    /\ export' = [export EXCEPT !.todo = {up[t]}, !.arts = [@ EXCEPT ![t] = up[t]]]
    /\ Quiet /\ UNCHANGED <<world, files, job, bundle, import, unwritten, misnamed, pulled, work>>

\* A digest that has been found in a manifest, and what it refers to.
ExportDigest(d) ==
    /\ export.on /\ d \in export.todo
    /\ export' = [export EXCEPT !.have = @ \cup {d}, !.todo = (@ \cup Chosen[d]) \ (export.have \cup {d})]
    /\ Quiet /\ UNCHANGED <<world, files, job, bundle, import, unwritten, misnamed, pulled, work>>

\* The file is written at the end; any error is the end without a file.
FinishExport ==
    /\ export.on /\ export.todo = {} /\ \A t \in Tag : export.arts[t] # Absent
    /\ bundle' = [blobs |-> export.have, bad |-> {}, arts |-> export.arts]
    /\ export' = NoExport
    /\ Quiet /\ UNCHANGED <<world, files, job, import, unwritten, misnamed, pulled, work>>

ExportFails ==
    /\ export.on /\ export' = NoExport
    /\ Quiet /\ UNCHANGED <<world, files, job, bundle, import, unwritten, misnamed, pulled, work>>

\* A blob is damaged on the way (bound: one of a bundle); once it is unpacked
\* that matters no more.
Damage(d) ==
    /\ d \in bundle.blobs /\ bundle.bad = {} /\ ~import.on
    /\ bundle' = [bundle EXCEPT !.bad = @ \cup {d}]
    /\ Quiet /\ UNCHANGED <<world, files, job, export, import, unwritten, misnamed, pulled, work>>

\* All of the bundle is unpacked first.
StartImport ==
    /\ ~import.on /\ bundle # NoBundle /\ Starts("airgap")
    /\ import' = [on |-> TRUE, todo |-> bundle.blobs, tags |-> Tag, of |-> bundle]
    /\ Quiet /\ UNCHANGED <<world, files, job, export, bundle, unwritten, misnamed, pulled>>

\* A blob is stored when its contents have the digest it is named by.
ImportBlob(d) ==
    /\ import.on /\ d \in import.todo \ import.of.bad
    /\ blobs' = blobs \cup {d}
    /\ import' = [import EXCEPT !.todo = @ \ {d}]
    /\ Quiet /\ UNCHANGED <<world, tags, cache, job, export, bundle, unwritten, misnamed, pulled, work>>

\* Tags come after all blobs.
Ready == import.todo = {}

ImportTag(t) ==
    /\ import.on /\ Ready /\ t \in import.tags
    /\ import.of.arts[t] \in blobs
    /\ tags' = [tags EXCEPT ![t] = [digest |-> import.of.arts[t], at |-> now, got |-> 0, from |-> "bundle"]]
    /\ import' = [import EXCEPT !.tags = @ \ {t}]
    /\ Quiet /\ UNCHANGED <<world, blobs, cache, job, export, bundle, unwritten, misnamed, pulled, work>>

\* It is done, or a blob is damaged, a write fails, the process dies.
EndImport ==
    /\ import.on /\ import' = NoImport
    /\ Quiet /\ UNCHANGED <<world, files, job, export, bundle, unwritten, misnamed, pulled, work>>

-----------------------------------------------------------------------------
\* Upstream, the clock and the process.

Publish(t, d) ==
    /\ up[t] # d /\ Starts("publish")
    /\ up' = [up EXCEPT ![t] = d]
    /\ Quiet /\ UNCHANGED <<now, allowed, mix, files, job, airgap, unwritten, misnamed, pulled>>

\* A request that waits for the upstream ends by its timeout; all other
\* steps of a worker take no time worth counting.
Waits(w) == job[w].stage \in {"fetch", "coming", "byDigest", "listing"} /\ now < job[w].since + Patience

Tick ==
    /\ now < MaxTime /\ now' = now + 1
    /\ \A w \in Worker : At(w, "idle") \/ Waits(w)
    /\ Quiet /\ UNCHANGED <<up, allowed, mix, files, job, airgap, unwritten, misnamed, pulled, work>>

\* The server dies, and starts again with another policy file.
Restart ==
    /\ job' = [w \in Worker |-> Idle]
    /\ \E policy \in SUBSET Plugin : allowed' = policy /\ (policy = allowed \/ "policy" \in mix)
    /\ Quiet /\ UNCHANGED <<now, up, mix, files, airgap, unwritten, misnamed, pulled, work>>

Request(w) ==
    \/ \E t \in Tag : AskTag(w, t) \/ Sync(w, t)
    \/ \E d \in Digest : AskDigest(w, d)
    \/ CheckTag(w) \/ Respond(w) \/ FetchFails(w) \/ Serve(w) \/ NotFound(w)
    \/ \E ok \in BOOLEAN : StoreTag(w, ok) \/ \E body \in Body : Listed(w, ok, body)
    \/ \E ok \in BOOLEAN, d \in Digest : Receive(w, ok, d) \/ ServeFetched(w, ok, d)
    \/ Search(w) \/ SearchFails(w)

Airgap ==
    \/ StartExport \/ FinishExport \/ ExportFails \/ StartImport \/ EndImport
    \/ \E t \in Tag : ExportTag(t) \/ ImportTag(t)
    \/ \E d \in Digest : ExportDigest(d) \/ Damage(d) \/ ImportBlob(d)

Next ==
    \/ \E w \in Worker : Request(w)
    \/ Airgap
    \/ \E t \in Tag, d \in Top : Publish(t, d)
    \/ Tick \/ Restart

Spec == Init /\ [][Next]_vars

-----------------------------------------------------------------------------
(* What has gone through the mirror stays.  What a client has got is held    *)
(* under its own digest, and so is what every tag names, except where its    *)
(* writing failed or the upstream sent something else under that digest:     *)
(* then it is fetched again.  No request, sync, import or death in the middle *)
(* of one leaves a tag without its blob.                                     *)
(* (HandleManifest, HandleBlob, syncRule, Import)                            *)
PulledStays ==
    /\ pulled \subseteq blobs \cup unwritten
    /\ \A t \in Tag : tags[t] # NoEntry => tags[t].digest \in blobs \cup unwritten \cup misnamed

(* What a client gets under a digest, asked for or taken from a tag, has that *)
(* digest, also when it was stored by another request, a sync or an import,   *)
(* unless the upstream has once sent something else under it: what comes from *)
(* there is not compared.  (HandleManifest, HandleBlob, Import)               *)
ServedAsNamed ==
    answer.to \in {"pull", "blob"} => answer.content = answer.digest \/ answer.digest \in misnamed

(* An answer that is taken for fresh is what the upstream said no longer    *)
(* ago than a time to live and two timeouts, also when a slow request       *)
(* stores an old answer over a newer one.  Not so the tags of a bundle,     *)
(* what is served for want of an upstream, and a tag that is written        *)
(* between the two reads of its file.  (HandleManifest, oci.go:84-125)      *)
FreshAnswers ==
    answer.to = "pull" /\ answer.how = "fresh" => now - answer.got < TTL + 2 * Patience

(* A tag that was imported can be pulled without any upstream: everything   *)
(* that its export took along is held, whatever import, request or death    *)
(* came between.  (Export, Import)                                          *)
AirgapComplete ==
    \A t \in Tag : tags[t] # NoEntry /\ tags[t].from = "bundle" => Tree(tags[t].digest) \subseteq blobs

(* Search results show nothing that the present policy does not let through, *)
(* also when they were cached under another one.  Only an answer of the       *)
(* upstream that is not of their form goes out unfiltered, from the cache as  *)
(* well (marketplace.go:170-172).  (HandleSearch)                             *)
PolicyAtAnswer == answer.to = "search" /\ answer.parses => answer.shown \subseteq allowed

=============================================================================

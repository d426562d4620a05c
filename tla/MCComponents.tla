----------------------------- MODULE MCComponents -----------------------------
(* Instances of Components for TLC.                                        *)
EXTENDS ComponentsRefinement, TLC

CONSTANTS app, cache, db, log

\* app needs cache and db, cache needs db, log stands alone.
Needs == (app :> {cache, db}) @@ (cache :> {db}) @@ (db :> {}) @@ (log :> {})

MCComponent == {app, cache, db, log}

Plain == [names |-> MCComponent, mandatory |-> {}, deps |-> Needs]

\* A mandatory component in the middle of the chain.
Pinned == [Plain EXCEPT !.mandatory = {cache}]

\* Three versions of a smaller zhi.yaml: nothing mandatory; cache
\* mandatory; an older one without app, in which cache needed nothing and db
\* was mandatory.
ChainComponent == {app, cache, db}
ChainNeeds == (app :> {cache}) @@ (cache :> {db}) @@ (db :> {})
Chain == [names |-> ChainComponent, mandatory |-> {}, deps |-> ChainNeeds]
ChainPinned == [Chain EXCEPT !.mandatory = {cache}]
ChainEarly == [names |-> {cache, db}, mandatory |-> {db},
               deps |-> [ChainNeeds EXCEPT ![cache] = {}]]

\* A mandatory component at the end of the chain.
Floor == [Plain EXCEPT !.mandatory = {db}]

OneWorkspace == {Pinned}
EditedWorkspaces == {Chain, ChainPinned, ChainEarly}
FloorWorkspace == {Floor}
PlainWorkspace == {Plain}
=============================================================================

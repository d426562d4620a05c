--------------------------- MODULE EditingProofs ---------------------------
(***************************************************************************)
(* What holds of an editing session for any number of frontends, other     *)
(* processes, paths and values; of what is published and installed, for    *)
(* any publishers, builds, tags, policies and lock files; and of the       *)
(* requests and the browser of a web client, for any number of them.       *)
(***************************************************************************)
EXTENDS MCPublishing, MCWeb, FiniteSetTheorems, TLAPS

(* Functions with a value at every path.                                   *)
LEMMA UpdatedTree ==
    ASSUME NEW t \in Tree, NEW p \in Paths, NEW e \in Entry
    PROVE  [t EXCEPT ![p] = e] \in Tree
BY DEF Tree

LEMMA UpdatedValue ==
    ASSUME NEW e \in Entry, NEW v \in Values
    PROVE  /\ [e EXCEPT !.val = v] \in Entry
           /\ [e EXCEPT !.val = v].val = v
BY DEF Entry

LEMMA ConfigTree == FromConfig \in Tree
BY EditingAssumption DEF FromConfig, Tree, Entry

LEMMA StorableTree ==
    ASSUME NEW t \in Tree
    PROVE  /\ Storable(t) \in Tree
           /\ \A p \in Paths : Storable(t)[p].val = AfterSave[p][t[p].val]
<1>1. \A p \in Paths : t[p] \in Entry /\ t[p].val \in Values
  BY DEF Tree, Entry
<1>2. \A p \in Paths : AfterSave[p][t[p].val] \in Values
  BY <1>1, EditingAssumption
<1>3. ASSUME NEW p \in Paths
      PROVE  /\ Storable(t)[p] \in Entry
             /\ Storable(t)[p].val = AfterSave[p][t[p].val]
  BY <1>1, <1>2, UpdatedValue DEF Storable
<1> QED BY <1>3 DEF Storable, Tree

LEMMA DisplayedTree ==
    ASSUME NEW t \in Tree
    PROVE  Displayed(t) \in Tree
<1>1. \A p \in Paths : t[p] \in Entry /\ t[p].val \in Values
  BY DEF Tree, Entry
<1>2. \A p \in Paths : BeforeDisplay[p][t[p].val] \in Values
  BY <1>1, EditingAssumption
<1>3. ASSUME NEW p \in Paths
      PROVE  Displayed(t)[p] \in Entry
  BY <1>1, <1>2, UpdatedValue DEF Displayed
<1> QED BY <1>3 DEF Displayed, Tree

LEMMA OverlaidTree ==
    ASSUME TypeOK, NEW t \in Tree
    PROVE  Overlaid(t) \in Tree
<1>1. ASSUME NEW p \in Paths
      PROVE  Overlaid(t)[p] \in Entry
  <2>1. t[p] \in Entry
    BY DEF Tree
  <2>2. Readable(p) => store[p].val \in Values
    BY DEF TypeOK, Readable, Entry
  <2> QED BY <2>1, <2>2, UpdatedValue DEF Overlaid
<1> QED BY <1>1 DEF Overlaid, Tree

LEMMA LoadedTree ==
    ASSUME TypeOK
    PROVE  Loaded \in Tree
<1>1. Displayed(Overlaid(config)) \in Tree
  BY OverlaidTree, DisplayedTree DEF TypeOK
<1>2. tree # Nothing => tree \in Tree
  BY DEF TypeOK
<1> QED BY <1>1, <1>2 DEF Loaded, Tree

LEMMA SetTree ==
    ASSUME TypeOK, NEW p \in Paths, NEW v \in Values
    PROVE  SetOn(p, v) \in Tree
<1>1. ASSUME NEW t \in Tree
      PROVE  Given(t, p, v) \in Tree
  <2>1. [val |-> v, labelled |-> FALSE] \in Entry
    BY DEF Entry
  <2> QED BY <2>1, UpdatedTree DEF Given
<1> QED BY <1>1, ConfigTree, OverlaidTree DEF SetOn

LEMMA WrittenTree ==
    ASSUME TypeOK, NEW t \in Tree, NEW done \in SUBSET Paths
    PROVE  Written(t, done) \in [Paths -> Entry \cup {Nothing}]
BY DEF TypeOK, Tree, Written

-----------------------------------------------------------------------------
(* Type correctness.                                                       *)

LEMMA TypeOKInit == Init => TypeOK
BY ConfigTree DEF Init, TypeOK

LEMMA TriedPaths == TypeOK => Tried \subseteq Paths
BY DEF TypeOK, Tried, RequestType

LEMMA TypeOKStep == TypeOK /\ [Next]_vars => TypeOK'
<1> SUFFICES ASSUME TypeOK, [Next]_vars
             PROVE  TypeOK'
  OBVIOUS
<1>1. ASSUME NEW c \in Clients, Load(c)
      PROVE  TypeOK'
  BY <1>1, LoadedTree DEF TypeOK, Load
<1>2. ASSUME NEW c \in Clients, Tell(c)
      PROVE  TypeOK'
  <2> DEFINE r == client[c]
  <2>1. r \in RequestType
    BY <1>2 DEF Tell, TypeOK
  <2>2. r.path \in Paths /\ r.new \in Entry /\ r.old \in Entry
    BY <2>1 DEF RequestType
  <2>3. config' \in Tree
    BY <1>2, <2>2, UpdatedTree DEF TypeOK, Tell, Told
  <2>4. [r EXCEPT !.at = IF r.at = "tell" THEN "set" ELSE "unset"] \in RequestType
    BY <2>1 DEF RequestType
  <2>5. client' \in [Clients -> RequestType \cup {Idle}]
    BY <1>2, <2>4 DEF TypeOK, Tell
  <2> QED BY <1>2, <2>3, <2>5 DEF TypeOK, Tell
<1>3. ASSUME NEW c \in Clients, Set(c)
      PROVE  TypeOK'
  <2> DEFINE r == client[c]
             e == IF r.at = "set" THEN r.new ELSE r.old
  <2>1. r \in RequestType
    BY <1>3 DEF Set, TypeOK
  <2>2. r.path \in Paths /\ e \in Entry /\ e.val \in Values
    BY <2>1 DEF RequestType, Entry
  <2>3. tree' \in Tree \cup {Nothing}
    BY <1>3, <2>2, UpdatedTree DEF TypeOK, Set
  <2>4. [r EXCEPT !.at = "judge"] \in RequestType
    BY <2>1 DEF RequestType
  <2>5. client' \in [Clients -> RequestType \cup {Idle}]
    BY <1>3, <2>4 DEF TypeOK, Set
  <2>6. pending' \in [Paths -> Values \cup {Nothing}]
    BY <1>3, <2>2 DEF TypeOK, Set
  <2>7. dirty' \subseteq Paths
    BY <1>3, <2>2 DEF TypeOK, Set, Mark
  <2> QED BY <1>3, <2>3, <2>5, <2>6, <2>7 DEF TypeOK, Set
<1>4. ASSUME NEW c \in Clients, Judge(c)
      PROVE  TypeOK'
  <2>1. client[c] \in RequestType
    BY <1>4 DEF Judge, TypeOK
  <2>2. [client[c] EXCEPT !.at = "untell"] \in RequestType
    BY <2>1 DEF RequestType
  <2>3. client' \in [Clients -> RequestType \cup {Idle}]
    BY <1>4, <2>2 DEF TypeOK, Judge
  <2>4. slipped' \subseteq Paths
    BY <1>4, <2>1 DEF TypeOK, Judge, RequestType
  <2> QED BY <1>4, <2>3, <2>4 DEF TypeOK, Judge
<1>5. ASSUME NEW c \in Clients, Save(c)
      PROVE  TypeOK'
  <2>1. tree' \in Tree /\ store' = tree'
    BY <1>5, StorableTree DEF TypeOK, Save, Writers
  <2>2. store' \in [Paths -> Entry \cup {Nothing}]
    BY <2>1 DEF Tree
  <2> QED BY <1>5, <2>1, <2>2, TriedPaths DEF TypeOK, Save, Writers
<1>6. ASSUME NEW c \in Clients, SaveFails(c)
      PROVE  TypeOK'
  <2>1. tree' \in Tree
    BY <1>6, StorableTree DEF TypeOK, SaveFails
  <2>2. store' \in [Paths -> Entry \cup {Nothing}]
    BY <1>6, <2>1, WrittenTree, EditingAssumption DEF SaveFails
  <2> QED BY <1>6, <2>1, <2>2, TriedPaths DEF TypeOK, SaveFails, Writers
<1>7. ASSUME NEW c \in Clients, NEW p \in Paths, NEW v \in Values, NEW kind \in Kinds,
             Open(c, kind, p, v)
      PROVE  TypeOK'
  <2> DEFINE old == Loaded[p]
  <2>1. Loaded \in Tree /\ old \in Entry
    BY LoadedTree DEF Tree
  <2>2. [kind |-> kind, at |-> "tell", path |-> p,
         new |-> [old EXCEPT !.val = v], old |-> old] \in RequestType
    BY <2>1, UpdatedValue DEF RequestType
  <2>3. client' \in [Clients -> RequestType \cup {Idle}]
    BY <1>7, <2>2 DEF TypeOK, Open
  <2> QED BY <1>7, <2>1, <2>3 DEF TypeOK, Open
<1>8. ASSUME NEW c \in Clients, NEW p \in Paths, NEW v \in Values, NEW kind \in Kinds,
             Direct(c, kind, p, v)
      PROVE  TypeOK'
  <2> DEFINE e == IF kind = "commit" THEN [tree[p] EXCEPT !.val = v]
                  ELSE [val |-> v, labelled |-> FALSE]
  <2>3. e \in Entry
    <3>1. kind = "commit" => [tree[p] EXCEPT !.val = v] \in Entry
      <4> SUFFICES ASSUME kind = "commit"
                   PROVE  [tree[p] EXCEPT !.val = v] \in Entry
        OBVIOUS
      <4>1. tree[p] \in Entry
        BY <1>8 DEF Direct, TypeOK, Tree
      <4> QED BY <4>1, UpdatedValue
    <3>2. [val |-> v, labelled |-> FALSE] \in Entry
      BY DEF Entry
    <3> QED BY <3>1, <3>2
  <2>4. [kind |-> kind, at |-> "tell", path |-> p, new |-> e, old |-> e] \in RequestType
    BY <2>3 DEF RequestType
  <2>5. client' \in [Clients -> RequestType \cup {Idle}]
    BY <1>8, <2>4 DEF TypeOK, Direct
  <2> QED BY <1>8, <2>5 DEF TypeOK, Direct
<1>9. CASE Exit
  BY <1>9, ConfigTree DEF TypeOK, Exit
<1>10. ASSUME NEW k \in Commands, NEW p \in Paths, NEW v \in Values, CommandRead(k, p, v)
       PROVE  TypeOK'
  <2>1. [path |-> p, tree |-> Storable(SetOn(p, v))] \in CommandType
    BY SetTree, StorableTree DEF CommandType
  <2> QED BY <1>10, <2>1 DEF TypeOK, CommandRead, session
<1>11. ASSUME NEW k \in Commands, CommandWrite(k)
       PROVE  TypeOK'
  <2>1. command[k].tree \in Tree
    BY <1>11 DEF CommandWrite, TypeOK, CommandType
  <2>2. store' \in [Paths -> Entry \cup {Nothing}]
    BY <1>11, <2>1 DEF CommandWrite, Tree
  <2> QED BY <1>11, <2>2 DEF TypeOK, CommandWrite, session
<1>12. ASSUME NEW k \in Commands, CommandFails(k)
       PROVE  TypeOK'
  <2>1. command[k].tree \in Tree
    BY <1>12 DEF CommandFails, TypeOK, CommandType
  <2>2. store' \in [Paths -> Entry \cup {Nothing}]
    BY <1>12, <2>1, WrittenTree, EditingAssumption DEF CommandFails
  <2> QED BY <1>12, <2>2 DEF TypeOK, CommandFails, session
<1>13. CASE UNCHANGED vars
  BY <1>13 DEF TypeOK, vars
<1>14. ASSUME NEW c \in Clients, TellFails(c)
       PROVE  TypeOK'
  <2> DEFINE r == client[c]
  <2>1. r \in RequestType
    BY <1>14 DEF TellFails, TypeOK
  <2>2. r.path \in Paths /\ r.new \in Entry /\ r.old \in Entry
    BY <2>1 DEF RequestType
  <2>3. config' \in Tree /\ slipped' \subseteq Paths
    BY <1>14, <2>2, UpdatedTree DEF TypeOK, TellFails, Told
  <2> QED BY <1>14, <2>3 DEF TypeOK, TellFails
<1>15. ASSUME NEW c \in Clients, TransformFails(c)
       PROVE  TypeOK'
  <2>1. tree \in Tree /\ Storable(tree) \in Tree
    BY <1>15, StorableTree DEF TransformFails, TypeOK
  <2>2. tree' \in Tree
    BY <1>15, <2>1 DEF TransformFails, Tree
  <2> QED BY <1>15, <2>2 DEF TypeOK, TransformFails
<1> QED
  BY <1>1, <1>2, <1>3, <1>4, <1>5, <1>6, <1>7, <1>8, <1>9, <1>10, <1>11,
     <1>12, <1>13, <1>14, <1>15 DEF Next

\* Every reachable state is well typed: no load, transform or half-finished
\* save leaves a path of the cached tree or of a pending write without a value.
THEOREM TypeCorrect == Spec => []TypeOK
BY TypeOKInit, TypeOKStep, PTL DEF Spec

-----------------------------------------------------------------------------
(* Edits survive.  The frontends of these theorems load before they set,   *)
(* and the transforms to storage do nothing the second time.               *)

\* A request is under way only in a session that has loaded; what was set
\* since the last save is marked dirty, which is what makes loads keep it.
EditsInv ==
    /\ \A c \in Clients : client[c] # Idle => tree # Nothing
    /\ \A p \in Paths : pending[p] # Nothing => p \in dirty /\ tree # Nothing
    /\ EditsSurvive

LEMMA EditsInvInit == Init => EditsInv
BY DEF Init, EditsInv, EditsSurvive

LEMMA EditsInvStep ==
    ASSUME "set" \notin Requests, SaveIsIdempotent
    PROVE  TypeOK /\ EditsInv /\ [Next]_vars => EditsInv'
<1> SUFFICES ASSUME TypeOK, EditsInv, [Next]_vars
             PROVE  EditsInv'
  OBVIOUS
<1> USE DEF EditsInv, EditsSurvive
<1>a. Loaded # Nothing /\ \A p \in Paths : pending[p] # Nothing => Loaded[p] = tree[p]
  BY LoadedTree, EditingAssumption DEF Loaded
<1>b. tree # Nothing => Storable(tree) # Nothing
  BY StorableTree, EditingAssumption DEF TypeOK
<1>1. ASSUME NEW c \in Clients, Load(c)
      PROVE  EditsInv'
  BY <1>1, <1>a DEF Load
<1>2. ASSUME NEW c \in Clients, Tell(c)
      PROVE  EditsInv'
  <2>1. \A d \in Clients : client'[d] # Idle => client[d] # Idle
    BY <1>2 DEF Tell, TypeOK
  <2> QED BY <1>2, <2>1 DEF Tell
<1>3. ASSUME NEW c \in Clients, Set(c)
      PROVE  EditsInv'
  <2> DEFINE r == client[c]
             e == IF r.at = "set" THEN r.new ELSE r.old
  <2>1. r \in RequestType /\ tree # Nothing /\ tree \in Tree
    BY <1>3 DEF Set, TypeOK
  <2>2. r.path \in Paths /\ e \in Entry
    BY <2>1 DEF RequestType
  <2>3. /\ tree' = [tree EXCEPT ![r.path] = e]
        /\ dirty' = dirty \cup {r.path}
        /\ pending' = [pending EXCEPT ![r.path] = e.val]
    BY <1>3, <2>1 DEF Set, Mark
  <2>4. tree' # Nothing
    BY <2>1, <2>2, <2>3, UpdatedTree, EditingAssumption
  <2>5. \A p \in Paths : p # r.path => tree'[p] = tree[p] /\ pending'[p] = pending[p]
    BY <2>1, <2>3 DEF TypeOK, Tree
  <2>6. tree'[r.path] = e /\ pending'[r.path] = e.val /\ r.path \in dirty'
    BY <2>1, <2>2, <2>3 DEF TypeOK, Tree
  <2> QED BY <2>3, <2>4, <2>5, <2>6
<1>4. ASSUME NEW c \in Clients, Judge(c)
      PROVE  EditsInv'
  <2>1. \A d \in Clients : client'[d] # Idle => client[d] # Idle
    BY <1>4 DEF Judge, TypeOK
  <2> QED BY <1>4, <2>1 DEF Judge
<1>5. ASSUME NEW c \in Clients, Save(c)
      PROVE  EditsInv'
  BY <1>5, <1>b DEF Save
<1>6. ASSUME NEW c \in Clients, SaveFails(c)
      PROVE  EditsInv'
  <2>1. tree' # Nothing /\ tree \in Tree
    BY <1>6, <1>b DEF SaveFails, TypeOK
  <2>2. \A p \in Paths : tree'[p].val = AfterSave[p][tree[p].val]
    BY <1>6, <2>1, StorableTree DEF SaveFails
  <2>3. ASSUME NEW p \in Paths, pending[p] # Nothing
        PROVE  tree'[p].val = AfterSave[p][pending[p]]
    <3>1. pending[p] \in Values
      BY <2>3 DEF TypeOK
    <3>2. AfterSave[p][AfterSave[p][pending[p]]] = AfterSave[p][pending[p]]
      BY <3>1 DEF SaveIsIdempotent
    <3>3. tree[p].val \in {pending[p], AfterSave[p][pending[p]]}
      BY <2>3
    <3> QED BY <2>2, <3>2, <3>3
  <2> QED BY <1>6, <2>1, <2>3 DEF SaveFails
<1>7. ASSUME NEW c \in Clients, NEW p \in Paths, NEW v \in Values, NEW kind \in Kinds,
             Open(c, kind, p, v)
      PROVE  EditsInv'
  BY <1>7, <1>a DEF Open
<1>8. ASSUME NEW c \in Clients, NEW p \in Paths, NEW v \in Values, NEW kind \in Kinds,
             Direct(c, kind, p, v)
      PROVE  EditsInv'
  <2>1. tree # Nothing
    BY <1>8 DEF Direct
  <2> QED BY <1>8, <2>1 DEF Direct
<1>9. CASE Exit
  BY <1>9 DEF Exit
<1>10. ASSUME NEW k \in Commands, NEW p \in Paths, NEW v \in Values, CommandRead(k, p, v)
       PROVE  EditsInv'
  BY <1>10 DEF CommandRead, session
<1>11. ASSUME NEW k \in Commands, CommandWrite(k)
       PROVE  EditsInv'
  BY <1>11 DEF CommandWrite, session
<1>12. ASSUME NEW k \in Commands, CommandFails(k)
       PROVE  EditsInv'
  BY <1>12 DEF CommandFails, session
<1>13. CASE UNCHANGED vars
  BY <1>13 DEF vars
<1>14. ASSUME NEW c \in Clients, TellFails(c)
       PROVE  EditsInv'
  <2>1. \A d \in Clients : client'[d] # Idle => client[d] # Idle
    BY <1>14 DEF TellFails, TypeOK
  <2> QED BY <1>14, <2>1 DEF TellFails
<1>15. ASSUME NEW c \in Clients, TransformFails(c)
       PROVE  EditsInv'
  <2>1. /\ tree # Nothing /\ tree \in Tree /\ Storable(tree) \in Tree
        /\ UNCHANGED <<dirty, client, pending>>
    BY <1>15, StorableTree DEF TransformFails, TypeOK
  <2>2. \A p \in Paths : Storable(tree)[p].val = AfterSave[p][tree[p].val]
    BY <2>1, StorableTree
  <2>3. PICK turned \in SUBSET Paths :
           tree' = [p \in Paths |-> IF p \in turned THEN Storable(tree)[p] ELSE tree[p]]
    BY <1>15 DEF TransformFails
  <2>4. tree' # Nothing
    BY <2>1, <2>3, EditingAssumption DEF Tree
  <2>5. ASSUME NEW p \in Paths, pending[p] # Nothing
        PROVE  tree'[p].val \in {pending[p], AfterSave[p][pending[p]]}
    <3>1. pending[p] \in Values
      BY <2>5 DEF TypeOK
    <3>2. AfterSave[p][AfterSave[p][pending[p]]] = AfterSave[p][pending[p]]
      BY <3>1 DEF SaveIsIdempotent
    <3>3. tree[p].val \in {pending[p], AfterSave[p][pending[p]]}
      BY <2>1, <2>5
    <3>4. tree'[p] \in {Storable(tree)[p], tree[p]}
      BY <2>3
    <3> QED BY <2>2, <3>2, <3>3, <3>4
  <2> QED BY <2>1, <2>4, <2>5
<1> QED
  BY <1>1, <1>2, <1>3, <1>4, <1>5, <1>6, <1>7, <1>8, <1>9, <1>10, <1>11, <1>12, <1>13, <1>14, <1>15
     DEF Next

\* What SetValue accepted stays what the session shows until it is saved or
\* set again, for any number of frontends, requests and other processes.
THEOREM EditsAreKept ==
    ASSUME "set" \notin Requests, SaveIsIdempotent
    PROVE  Spec => []EditsSurvive
<1>1. EditsInv => EditsSurvive
  BY DEF EditsInv
<1> QED BY <1>1, EditsInvInit, EditsInvStep, TypeCorrect, PTL DEF Spec

LEMMA SaveStoresEdits ==
    ASSUME SaveIsIdempotent
    PROVE  TypeOK /\ EditsInv /\ [Next]_vars => PersistsEdits
<1> SUFFICES ASSUME TypeOK, EditsInv, [Next]_vars, NEW p \in Paths, SaveOf(p)
             PROVE  store'[p] # Nothing /\ store'[p].val = AfterSave[p][pending[p]]
  BY DEF PersistsEdits
<1>1. pending[p] \in Values /\ pending[p] # Nothing /\ pending'[p] = Nothing /\ tree' # Nothing
  BY DEF SaveOf, TypeOK
<1>2. ASSUME NEW c \in Clients, Save(c)
      PROVE  store'[p] # Nothing /\ store'[p].val = AfterSave[p][pending[p]]
  <2>1. tree \in Tree /\ store' = Storable(tree)
    BY <1>2 DEF Save, TypeOK
  <2>2. store'[p] \in Entry /\ store'[p].val = AfterSave[p][tree[p].val]
    BY <2>1, StorableTree DEF Tree
  <2>3. tree[p].val \in {pending[p], AfterSave[p][pending[p]]}
    BY <1>1, <1>2 DEF EditsInv, EditsSurvive, Save
  <2> QED BY <1>1, <2>2, <2>3, EditingAssumption DEF SaveIsIdempotent
<1>3. ASSUME NEW c \in Clients, Set(c)
      PROVE  FALSE
  <2> DEFINE r == client[c]
             e == IF r.at = "set" THEN r.new ELSE r.old
  <2>1. r \in RequestType
    BY <1>3 DEF Set, TypeOK
  <2>2. r.path \in Paths /\ e.val \in Values
    BY <2>1 DEF RequestType, Entry
  <2>3. pending'[p] = IF p = r.path THEN e.val ELSE pending[p]
    BY <1>3, <2>2 DEF Set, TypeOK
  <2> QED BY <1>1, <2>2, <2>3, EditingAssumption
<1>4. ASSUME UNCHANGED pending
      PROVE  FALSE
  BY <1>1, <1>4
<1>5. CASE Exit
  BY <1>1, <1>5 DEF Exit
<1>6. ASSUME NEW c \in Clients,
             \/ Load(c) \/ Tell(c) \/ TellFails(c) \/ Judge(c) \/ SaveFails(c) \/ TransformFails(c)
             \/ \E q \in Paths, v \in Values, kind \in Kinds : Open(c, kind, q, v) \/ Direct(c, kind, q, v)
      PROVE  FALSE
  BY <1>4, <1>6 DEF Load, Tell, TellFails, Judge, SaveFails, TransformFails, Open, Direct
<1>7. ASSUME NEW k \in Commands,
             \/ \E q \in Paths, v \in Values : CommandRead(k, q, v)
             \/ CommandWrite(k) \/ CommandFails(k)
      PROVE  FALSE
  BY <1>4, <1>7 DEF CommandRead, CommandWrite, CommandFails, session
<1>8. CASE UNCHANGED vars
  BY <1>4, <1>8 DEF vars
<1> QED
  BY <1>2, <1>3, <1>5, <1>6, <1>7, <1>8 DEF Next

\* A save that reports success has stored, in its stored form, everything set
\* since the last one.
THEOREM SavesAreComplete ==
    ASSUME "set" \notin Requests, SaveIsIdempotent
    PROVE  Spec => SavePersistsEdits
BY EditsInvInit, EditsInvStep, TypeCorrect, SaveStoresEdits, PTL DEF Spec, SavePersistsEdits

-----------------------------------------------------------------------------
(* The values in a tree that the engine has put together.                   *)

LEMMA TransformedValues ==
    ASSUME NEW t \in Tree, NEW p \in Paths
    PROVE  /\ Storable(t)[p].val = AfterSave[p][t[p].val]
           /\ Storable(t)[p].labelled = t[p].labelled
           /\ Displayed(t)[p].val = BeforeDisplay[p][t[p].val]
           /\ Displayed(t)[p].labelled = t[p].labelled
<1>1. t[p] \in Entry
  BY DEF Tree
<1> QED BY <1>1 DEF Storable, Displayed, Entry

LEMMA OverlaidValue ==
    ASSUME TypeOK, NEW t \in Tree, NEW p \in Paths
    PROVE  /\ Overlaid(t)[p].val = IF Readable(p) THEN store[p].val ELSE t[p].val
           /\ Overlaid(t)[p].labelled = t[p].labelled
<1>1. t[p] \in Entry
  BY DEF Tree
<1> QED BY <1>1 DEF Overlaid, Entry

LEMMA LoadedValue ==
    ASSUME TypeOK, NEW p \in Paths
    PROVE  /\ tree # Nothing /\ p \in dirty => Loaded[p] = tree[p]
           /\ ~(tree # Nothing /\ p \in dirty) =>
                 /\ Loaded[p].val = BeforeDisplay[p][IF Readable(p) THEN store[p].val ELSE config[p].val]
                 /\ Loaded[p].labelled = config[p].labelled
<1>1. config \in Tree /\ Overlaid(config) \in Tree
  BY OverlaidTree DEF TypeOK
<1>2. /\ Displayed(Overlaid(config))[p].val = BeforeDisplay[p][Overlaid(config)[p].val]
      /\ Displayed(Overlaid(config))[p].labelled = Overlaid(config)[p].labelled
  BY <1>1, TransformedValues
<1>3. /\ Overlaid(config)[p].val = IF Readable(p) THEN store[p].val ELSE config[p].val
      /\ Overlaid(config)[p].labelled = config[p].labelled
  BY <1>1, OverlaidValue
<1> QED BY <1>2, <1>3 DEF Loaded

LEMMA SetOnValue ==
    ASSUME TypeOK, NEW p \in Paths, NEW v \in Values, NEW q \in Paths
    PROVE  /\ q = p => SetOn(p, v)[q] = [val |-> v, labelled |-> FALSE]
           /\ q # p => /\ SetOn(p, v)[q].val = IF Readable(q) THEN store[q].val ELSE Defaults[q]
                       /\ SetOn(p, v)[q].labelled <=> q \in WriteOnly
<1> DEFINE t == Given(FromConfig, p, v)
<1>1. FromConfig \in Tree /\ [val |-> v, labelled |-> FALSE] \in Entry
  BY ConfigTree DEF Entry
<1>2. t \in Tree /\ (q # p => t[q] = FromConfig[q])
  BY <1>1, UpdatedTree DEF Given, Tree
<1>3. FromConfig[q].val = Defaults[q] /\ (FromConfig[q].labelled <=> q \in WriteOnly)
  BY DEF FromConfig
<1>4. SetOn(p, v) = Given(Overlaid(t), p, v)
  BY DEF SetOn
<1> HIDE DEF t
<1>5. Overlaid(t) \in Tree
  BY <1>2, OverlaidTree
<1>6. SetOn(p, v)[q] = IF q = p THEN [val |-> v, labelled |-> FALSE] ELSE Overlaid(t)[q]
  BY <1>4, <1>5 DEF Given, Tree
<1> QED BY <1>2, <1>3, <1>6, OverlaidValue

-----------------------------------------------------------------------------
(* Labels, where no path is write-only.                                     *)

Unlabelled(t) == \A p \in Paths : ~t[p].labelled

\* Nothing carries the label of a write-only path, so every stored value is read.
LabelsInv ==
    /\ Unlabelled(config) /\ (tree # Nothing => Unlabelled(tree))
    /\ \A p \in Paths : store[p] # Nothing => ~store[p].labelled
    /\ \A c \in Clients : client[c] # Idle => ~client[c].new.labelled /\ ~client[c].old.labelled
    /\ \A k \in Commands : command[k] # Idle => Unlabelled(command[k].tree)

LEMMA LabelsInvInit == WriteOnly = {} /\ Init => LabelsInv
<1> SUFFICES ASSUME WriteOnly = {}, Init PROVE LabelsInv
  OBVIOUS
<1>1. \A p \in Paths : ~FromConfig[p].labelled
  BY DEF FromConfig
<1> QED BY <1>1 DEF Init, LabelsInv, Unlabelled

\* The labels are those of the config plugin's entries and of the requests.
LEMMA LabelsInvStep ==
    ASSUME WriteOnly = {}, TypeOK, LabelsInv, [Next]_vars
    PROVE  LabelsInv'
<1> USE DEF Unlabelled
<1>1. Loaded \in Tree /\ Loaded # Nothing /\ Unlabelled(Loaded)
  BY LoadedTree, LoadedValue, EditingAssumption DEF LabelsInv
<1>2. tree # Nothing => /\ tree \in Tree /\ Storable(tree) \in Tree
                        /\ \A p \in Paths : ~Storable(tree)[p].labelled
  BY StorableTree, TransformedValues DEF LabelsInv, TypeOK
<1>3. ASSUME NEW t \in Tree, Unlabelled(t), NEW done \in SUBSET Paths, NEW p \in Paths,
             Written(t, done)[p] # Nothing
      PROVE  ~Written(t, done)[p].labelled
  BY <1>3 DEF LabelsInv, Written
<1>4. \A c \in Clients : client[c] # Idle =>
         /\ client[c] \in RequestType /\ ~client[c].new.labelled /\ ~client[c].old.labelled
  BY DEF LabelsInv, TypeOK
<1>5. ASSUME NEW c \in Clients, Load(c)
      PROVE  LabelsInv'
  BY <1>1, <1>5 DEF Load, LabelsInv
<1>6. ASSUME NEW c \in Clients, Tell(c)
      PROVE  LabelsInv'
  <2> DEFINE r == client[c]
             k == [r EXCEPT !.at = IF r.at = "tell" THEN "set" ELSE "unset"]
  <2>1. /\ r \in RequestType /\ ~r.new.labelled /\ ~r.old.labelled
        /\ config' = [config EXCEPT ![r.path] = IF r.at = "tell" THEN r.new ELSE r.old]
        /\ client' = [client EXCEPT ![c] = k] /\ UNCHANGED <<store, tree, command>>
    BY <1>4, <1>6 DEF Tell, Told
  <2>2. \A p \in Paths : ~config'[p].labelled
    BY <2>1 DEF TypeOK, Tree, RequestType, LabelsInv
  <2>3. k.new = r.new /\ k.old = r.old
    BY <2>1 DEF RequestType
  <2> HIDE DEF k
  <2>4. \A d \in Clients : client'[d] # Idle => ~client'[d].new.labelled /\ ~client'[d].old.labelled
    BY <1>4, <2>1, <2>3 DEF TypeOK
  <2> QED BY <2>1, <2>2, <2>4 DEF LabelsInv
<1>7. ASSUME NEW c \in Clients, Set(c)
      PROVE  LabelsInv'
  <2> DEFINE r == client[c]
             e == IF r.at = "set" THEN r.new ELSE r.old
             k == [r EXCEPT !.at = "judge"]
  <2>1. /\ r \in RequestType /\ ~e.labelled /\ e \in Entry /\ r.path \in Paths
        /\ ~r.new.labelled /\ ~r.old.labelled
        /\ tree' = IF tree = Nothing THEN Nothing ELSE [tree EXCEPT ![r.path] = e]
        /\ client' = [client EXCEPT ![c] = k] \/ client' = [client EXCEPT ![c] = Idle]
        /\ UNCHANGED <<store, config, command>>
    BY <1>4, <1>7 DEF Set, RequestType
  <2>2. tree' # Nothing => \A p \in Paths : ~tree'[p].labelled
    BY <2>1 DEF TypeOK, Tree, LabelsInv
  <2>3. k.new = r.new /\ k.old = r.old
    BY <2>1 DEF RequestType
  <2> HIDE DEF k
  <2>4. \A d \in Clients : client'[d] # Idle => ~client'[d].new.labelled /\ ~client'[d].old.labelled
    BY <1>4, <2>1, <2>3 DEF TypeOK
  <2> QED BY <2>1, <2>2, <2>4 DEF LabelsInv
<1>8. ASSUME NEW c \in Clients, Judge(c)
      PROVE  LabelsInv'
  <2> DEFINE r == client[c]
             k == [r EXCEPT !.at = "untell"]
  <2>1. /\ r \in RequestType /\ ~r.new.labelled /\ ~r.old.labelled
        /\ client' = [client EXCEPT ![c] = k] \/ client' = [client EXCEPT ![c] = Idle]
        /\ UNCHANGED <<store, config, tree, command>>
    BY <1>4, <1>8 DEF Judge
  <2>2. k.new = r.new /\ k.old = r.old
    BY <2>1 DEF RequestType
  <2> HIDE DEF k
  <2>3. \A d \in Clients : client'[d] # Idle => ~client'[d].new.labelled /\ ~client'[d].old.labelled
    BY <1>4, <2>1, <2>2 DEF TypeOK
  <2> QED BY <2>1, <2>3 DEF LabelsInv
<1>9. ASSUME NEW c \in Clients, Save(c)
      PROVE  LabelsInv'
  BY <1>2, <1>9 DEF Save, LabelsInv
<1>10. ASSUME NEW c \in Clients, SaveFails(c)
       PROVE  LabelsInv'
  <2>1. /\ tree' = Storable(tree) /\ tree # Nothing /\ UNCHANGED <<config, client, command>>
    BY <1>10 DEF SaveFails
  <2>2. PICK done \in SUBSET Paths : store' = Written(tree', done)
    BY <1>10, EditingAssumption DEF SaveFails
  <2> QED BY <1>2, <1>3, <2>1, <2>2 DEF LabelsInv
<1>11. ASSUME NEW c \in Clients, NEW p \in Paths, NEW v \in Values, NEW kind \in Kinds,
              Open(c, kind, p, v)
       PROVE  LabelsInv'
  <2> DEFINE e == Loaded[p]
             k == [kind |-> kind, at |-> "tell", path |-> p, new |-> [e EXCEPT !.val = v], old |-> e]
  <2>1. /\ tree' = Loaded /\ client' = [client EXCEPT ![c] = k] /\ UNCHANGED <<store, config, command>>
    BY <1>11 DEF Open
  <2>2. e \in Entry /\ ~e.labelled
    BY <1>1 DEF Tree
  <2>3. ~k.new.labelled /\ ~k.old.labelled
    BY <2>2 DEF Entry
  <2> HIDE DEF k
  <2>4. \A d \in Clients : client'[d] # Idle => ~client'[d].new.labelled /\ ~client'[d].old.labelled
    BY <1>4, <2>1, <2>3 DEF TypeOK
  <2> QED BY <1>1, <2>1, <2>4 DEF LabelsInv
<1>12. ASSUME NEW c \in Clients, NEW p \in Paths, NEW v \in Values, NEW kind \in Kinds,
              Direct(c, kind, p, v)
       PROVE  LabelsInv'
  <2> DEFINE e == IF kind = "commit" THEN [tree[p] EXCEPT !.val = v]
                  ELSE [val |-> v, labelled |-> FALSE]
             k == [kind |-> kind, at |-> "tell", path |-> p, new |-> e, old |-> e]
  <2>1. /\ client' = [client EXCEPT ![c] = k] /\ UNCHANGED <<store, config, tree, command>>
        /\ kind = "commit" => tree # Nothing
    BY <1>12 DEF Direct
  <2>2. kind = "commit" => tree[p] \in Entry /\ ~tree[p].labelled
    BY <1>2, <2>1 DEF Tree, LabelsInv
  <2>3. ~e.labelled
    BY <2>2 DEF Entry
  <2> HIDE DEF e
  <2>4. ~k.new.labelled /\ ~k.old.labelled
    BY <2>3
  <2> HIDE DEF k
  <2>5. \A d \in Clients : client'[d] # Idle => ~client'[d].new.labelled /\ ~client'[d].old.labelled
    BY <1>4, <2>1, <2>4 DEF TypeOK
  <2> QED BY <2>1, <2>5 DEF LabelsInv
<1>13. CASE Exit
  BY <1>13 DEF Exit, LabelsInv, FromConfig
<1>14. ASSUME NEW k \in Commands, NEW p \in Paths, NEW v \in Values, CommandRead(k, p, v)
       PROVE  LabelsInv'
  <2>1. /\ UNCHANGED <<store, config, tree, client>>
        /\ command' = [command EXCEPT ![k] = [path |-> p, tree |-> Storable(SetOn(p, v))]]
    BY <1>14 DEF CommandRead, session
  <2>2. Unlabelled(Storable(SetOn(p, v)))
    <3>1. SetOn(p, v) \in Tree
      BY SetTree
    <3>2. \A q \in Paths : ~SetOn(p, v)[q].labelled
      <4> SUFFICES ASSUME NEW q \in Paths PROVE ~SetOn(p, v)[q].labelled
        OBVIOUS
      <4>1. CASE q = p
        <5>1. SetOn(p, v)[q] = [val |-> v, labelled |-> FALSE]
          BY <4>1, SetOnValue
        <5> QED BY <5>1
      <4>2. CASE q # p
        BY <4>2, SetOnValue
      <4> QED BY <4>1, <4>2
    <3> QED BY <3>1, <3>2, TransformedValues
  <2>3. \A l \in Commands : command'[l] # Idle => Unlabelled(command'[l].tree)
    BY <2>1, <2>2 DEF LabelsInv, TypeOK
  <2> QED BY <2>1, <2>3 DEF LabelsInv
<1>15. ASSUME NEW k \in Commands, CommandWrite(k) \/ CommandFails(k)
       PROVE  LabelsInv'
  <2>1. /\ UNCHANGED <<config, tree, client>> /\ command' = [command EXCEPT ![k] = Idle]
        /\ command[k].tree \in Tree /\ Unlabelled(command[k].tree)
    BY <1>15 DEF CommandWrite, CommandFails, session, LabelsInv, TypeOK, CommandType
  <2>2. store' = command[k].tree \/ \E done \in SUBSET Paths : store' = Written(command[k].tree, done)
    BY <1>15, EditingAssumption DEF CommandWrite, CommandFails
  <2>3. \A p \in Paths : store'[p] # Nothing => ~store'[p].labelled
    BY <1>3, <2>1, <2>2
  <2> QED BY <2>1, <2>3 DEF LabelsInv, TypeOK
<1>16. CASE UNCHANGED vars
  BY <1>16 DEF vars, LabelsInv
<1>17. ASSUME NEW c \in Clients, TellFails(c)
       PROVE  LabelsInv'
  <2> DEFINE r == client[c]
  <2>1. /\ r \in RequestType /\ ~r.new.labelled /\ ~r.old.labelled
        /\ config' \in {config, [config EXCEPT ![r.path] = IF r.at = "tell" THEN r.new ELSE r.old]}
        /\ client' = [client EXCEPT ![c] = Idle] /\ UNCHANGED <<store, tree, command>>
    BY <1>4, <1>17 DEF TellFails, Told
  <2>2. \A p \in Paths : ~config'[p].labelled
    BY <2>1 DEF TypeOK, Tree, RequestType, LabelsInv
  <2>3. \A d \in Clients : client'[d] # Idle => ~client'[d].new.labelled /\ ~client'[d].old.labelled
    BY <1>4, <2>1 DEF TypeOK
  <2> QED BY <2>1, <2>2, <2>3 DEF LabelsInv
<1>18. ASSUME NEW c \in Clients, TransformFails(c)
       PROVE  LabelsInv'
  <2>1. /\ tree # Nothing /\ UNCHANGED <<store, config, client, command>>
        /\ \A p \in Paths : tree'[p] \in {Storable(tree)[p], tree[p]}
    BY <1>18 DEF TransformFails
  <2>2. \A p \in Paths : ~tree'[p].labelled
    BY <1>2, <2>1 DEF LabelsInv
  <2> QED BY <2>1, <2>2 DEF LabelsInv
<1> QED
  BY <1>5, <1>6, <1>7, <1>8, <1>9, <1>10, <1>11, <1>12, <1>13, <1>14, <1>15, <1>16, <1>17, <1>18 DEF Next

-----------------------------------------------------------------------------
(* Rejected values.  Transforms make no Blocking value of another one, the  *)
(* defaults are harmless, and no path is write-only.                        *)

TransformsMakeNoneBlocking ==
    \A p \in Paths : \A v \in Values \ Blocking :
        BeforeDisplay[p][v] \notin Blocking /\ AfterSave[p][v] \notin Blocking

\* A stored value, one that a command is about to write and one that a
\* request would go back to are Blocking only where they slipped.
CommandSlips ==
    \A k \in Commands : command[k] # Idle =>
        \A p \in Paths : command[k].tree[p].val \in Blocking => p \in slipped

\* What is set replaces what the config plugin says of the path.
Covered(p) == (p \in dirty /\ tree # Nothing) \/ store[p] # Nothing

RequestSlips ==
    \A c \in Clients : client[c] # Idle =>
        LET r == client[c] IN
        /\ r.old.val \in Blocking => r.path \in slipped
        /\ r.path \in slipped \/ (r.kind \in {"edit", "preview"} /\ tree # Nothing)
        /\ r.at \in {"judge", "untell", "unset"} => r.path \in slipped \/ Covered(r.path)

\* In the config plugin, where nothing covers it, and in the tree a Blocking
\* value has slipped or is being tried.
SessionSlips ==
    \A p \in Paths :
        /\ config[p].val \in Blocking => p \in slipped \cup Tried \/ Covered(p)
        /\ tree # Nothing /\ tree[p].val \in Blocking => p \in slipped \cup Tried

RejectInv == LabelsInv /\ BlockingNeverStored /\ CommandSlips /\ RequestSlips /\ SessionSlips

LEMMA RejectInvInit ==
    ASSUME WriteOnly = {}, \A p \in Paths : Defaults[p] \notin Blocking
    PROVE  Init => RejectInv
<1> SUFFICES ASSUME Init PROVE RejectInv
  OBVIOUS
<1>1. LabelsInv
  BY LabelsInvInit
<1>2. \A p \in Paths : config[p].val \notin Blocking
  BY DEF Init, FromConfig
<1> QED
  BY <1>1, <1>2 DEF Init, RejectInv, BlockingNeverStored, CommandSlips, RequestSlips, SessionSlips

\* A step of one request leaves alone what the others try.
LEMMA TriedStays ==
    ASSUME TypeOK, NEW c \in Clients, NEW k, client' = [client EXCEPT ![c] = k]
    PROVE  /\ \A d \in Clients : client'[d] = IF d = c THEN k ELSE client[d]
           /\ \A p \in Tried : p \in Tried' \/ (client[c] # Idle /\ client[c].at # "tell" /\ client[c].path = p)
           /\ k # Idle /\ k.at # "tell" => k.path \in Tried'
<1>1. \A d \in Clients : client'[d] = IF d = c THEN k ELSE client[d]
  BY DEF TypeOK
<1>2. ASSUME NEW p \in Tried
      PROVE  p \in Tried' \/ (client[c] # Idle /\ client[c].at # "tell" /\ client[c].path = p)
  <2>1. PICK d \in Clients : client[d] # Idle /\ client[d].at # "tell" /\ client[d].path = p
    BY <1>2 DEF Tried
  <2>2. CASE d = c
    BY <2>1, <2>2
  <2>3. CASE d # c
    <3>1. client'[d] = client[d]
      BY <1>1, <2>3
    <3> QED BY <2>1, <3>1 DEF Tried
  <2> QED BY <2>2, <2>3
<1>3. ASSUME k # Idle, k.at # "tell" PROVE k.path \in Tried'
  <2>1. client'[c] = k
    BY <1>1
  <2> QED BY <1>3, <2>1 DEF Tried
<1> QED BY <1>1, <1>2, <1>3

\* What a load shows, and what a save would store.
LEMMA ShownSlips ==
    ASSUME TransformsMakeNoneBlocking, TypeOK, RejectInv
    PROVE  /\ Loaded # Nothing /\ \A p \in Paths : Loaded[p].val \in Blocking => p \in slipped \cup Tried
           /\ tree # Nothing =>
                 /\ Storable(tree) \in Tree /\ Storable(tree) # Nothing
                 /\ \A p \in Paths : Storable(tree)[p].val \in Blocking => p \in slipped \cup Tried
<1>1. \A p \in Paths, v \in Values \ Blocking :
         BeforeDisplay[p][v] \notin Blocking /\ AfterSave[p][v] \notin Blocking
  BY DEF TransformsMakeNoneBlocking
<1>2. ASSUME NEW p \in Paths, Loaded[p].val \in Blocking PROVE p \in slipped \cup Tried
  <2>1. CASE tree # Nothing /\ p \in dirty
    BY <1>2, <2>1, LoadedValue DEF RejectInv, SessionSlips
  <2>2. CASE ~(tree # Nothing /\ p \in dirty)
    <3> DEFINE v == IF Readable(p) THEN store[p].val ELSE config[p].val
    <3>1. v \in Values
      BY DEF TypeOK, Readable, Entry, Tree
    <3>2. Loaded[p].val = BeforeDisplay[p][v]
      BY <2>2, LoadedValue
    <3>3. v \in Blocking
      BY <1>1, <1>2, <3>1, <3>2
    <3>4. CASE Readable(p)
      BY <3>3, <3>4 DEF Readable, RejectInv, BlockingNeverStored
    <3>5. CASE ~Readable(p)
      <4>1. store[p] = Nothing
        BY <3>5 DEF Readable, RejectInv, LabelsInv
      <4> QED BY <2>2, <3>3, <3>5, <4>1 DEF RejectInv, SessionSlips, Covered
    <3> QED BY <3>4, <3>5
  <2> QED BY <2>1, <2>2
<1>3. ASSUME tree # Nothing
      PROVE  /\ Storable(tree) \in Tree /\ Storable(tree) # Nothing
             /\ \A p \in Paths : Storable(tree)[p].val \in Blocking => p \in slipped \cup Tried
  <2>1. tree \in Tree /\ \A p \in Paths : tree[p].val \in Values
    BY <1>3 DEF TypeOK, Tree, Entry
  <2>2. Storable(tree) \in Tree /\ \A p \in Paths : Storable(tree)[p].val = AfterSave[p][tree[p].val]
    BY <2>1, StorableTree
  <2>3. \A p \in Paths : tree[p].val \in Blocking => p \in slipped \cup Tried
    BY <1>3 DEF RejectInv, SessionSlips
  <2> QED BY <1>1, <2>1, <2>2, <2>3, EditingAssumption
<1>4. Loaded # Nothing
  BY LoadedTree, EditingAssumption
<1> QED BY <1>2, <1>3, <1>4

LEMMA RejectInvStep ==
    ASSUME WriteOnly = {}, TransformsMakeNoneBlocking, \A p \in Paths : Defaults[p] \notin Blocking,
           TypeOK, TypeOK', RejectInv, [Next]_vars
    PROVE  RejectInv'
<1>1. LabelsInv'
  BY LabelsInvStep DEF RejectInv
<1>2. ASSUME store' = store, slipped \subseteq slipped' PROVE BlockingNeverStored'
  BY <1>2 DEF RejectInv, BlockingNeverStored
<1>3. ASSUME command' = command, slipped \subseteq slipped' PROVE CommandSlips'
  BY <1>3 DEF RejectInv, CommandSlips
<1>4. ASSUME client' = client, slipped \subseteq slipped', tree # Nothing => tree' # Nothing,
             \A p \in Paths : Covered(p) => Covered(p)'
      PROVE  RequestSlips'
  <2> SUFFICES ASSUME NEW c \in Clients, client[c] # Idle
               PROVE  /\ client[c].old.val \in Blocking => client[c].path \in slipped'
                      /\ \/ client[c].path \in slipped'
                         \/ client[c].kind \in {"edit", "preview"} /\ tree' # Nothing
                      /\ client[c].at \in {"judge", "untell", "unset"} =>
                            client[c].path \in slipped' \/ Covered(client[c].path)'
    BY <1>4 DEF RequestSlips
  <2>1. client[c].path \in Paths
    BY DEF TypeOK, RequestType
  <2> QED BY <1>4, <2>1 DEF RejectInv, RequestSlips
<1>5. Tried' = Tried \/ client' # client
  BY DEF Tried
\* A request ends or goes on, and the others are where they were.
<1>6. ASSUME NEW c \in Clients, NEW k, client' = [client EXCEPT ![c] = k], slipped \subseteq slipped',
             tree # Nothing => tree' # Nothing, \A p \in Paths : Covered(p) => Covered(p)',
             k # Idle =>
                /\ k.old.val \in Blocking => k.path \in slipped'
                /\ k.path \in slipped' \/ (k.kind \in {"edit", "preview"} /\ tree' # Nothing)
                /\ k.at \in {"judge", "untell", "unset"} => k.path \in slipped' \/ Covered(k.path)'
      PROVE  RequestSlips'
  <2>1. \A d \in Clients : client'[d] = IF d = c THEN k ELSE client[d]
    BY <1>6, TriedStays
  <2> SUFFICES ASSUME NEW d \in Clients, d # c, client[d] # Idle
               PROVE  /\ client[d].old.val \in Blocking => client[d].path \in slipped'
                      /\ \/ client[d].path \in slipped'
                         \/ client[d].kind \in {"edit", "preview"} /\ tree' # Nothing
                      /\ client[d].at \in {"judge", "untell", "unset"} =>
                            client[d].path \in slipped' \/ Covered(client[d].path)'
    BY <1>6, <2>1 DEF RequestSlips
  <2>2. client[d].path \in Paths
    BY DEF TypeOK, RequestType
  <2> QED BY <1>6, <2>2 DEF RejectInv, RequestSlips
<1>7. ASSUME NEW c \in Clients, Load(c)
      PROVE  RejectInv'
  <2>1. /\ tree' = Loaded /\ UNCHANGED <<store, config, dirty, client, command, slipped>>
    BY <1>7 DEF Load
  <2>2. \A p \in Paths : Covered(p) => Covered(p)'
    BY <2>1, ShownSlips DEF Covered
  <2>3. SessionSlips'
    BY <1>5, <2>1, <2>2, ShownSlips DEF RejectInv, SessionSlips
  <2> QED BY <1>1, <1>2, <1>3, <1>4, <2>1, <2>2, <2>3, ShownSlips DEF RejectInv
<1>8. ASSUME NEW c \in Clients, Tell(c)
      PROVE  RejectInv'
  <2>0. PICK r, k : r = client[c] /\ k = [r EXCEPT !.at = IF r.at = "tell" THEN "set" ELSE "unset"]
    OBVIOUS
  <2>1. /\ r \in RequestType /\ r.at \in {"tell", "untell"} /\ r # Idle
        /\ config' = [config EXCEPT ![r.path] = IF r.at = "tell" THEN r.new ELSE r.old]
        /\ client' = [client EXCEPT ![c] = k]
        /\ UNCHANGED <<store, tree, dirty, command, slipped>>
    BY <1>8, <2>0 DEF Tell, Told, TypeOK
  <2>2. /\ k \in RequestType /\ k # Idle /\ k.path = r.path /\ k.kind = r.kind /\ k.old = r.old
        /\ k.at = IF r.at = "tell" THEN "set" ELSE "unset"
    BY <2>0, <2>1, EditingAssumption DEF RequestType
  <2>3. \A p \in Paths : Covered(p) => Covered(p)'
    BY <2>1 DEF Covered
  <2>4. r.path \in Paths /\ \A p \in Paths : p # r.path => config'[p] = config[p]
    BY <2>1 DEF TypeOK, Tree, RequestType
  <2>5. r.path \in Tried' /\ \A p \in Tried : p \in Tried'
    <3>1. /\ \A p \in Tried : p \in Tried' \/ (client[c] # Idle /\ client[c].at # "tell" /\ client[c].path = p)
          /\ k # Idle /\ k.at # "tell" => k.path \in Tried'
      BY <2>1, TriedStays
    <3> QED BY <2>0, <2>1, <2>2, <3>1
  <2>6. SessionSlips'
    BY <2>0, <2>1, <2>3, <2>4, <2>5 DEF RejectInv, SessionSlips
  <2>7. /\ r.old.val \in Blocking => r.path \in slipped
        /\ r.path \in slipped \/ (r.kind \in {"edit", "preview"} /\ tree # Nothing)
        /\ r.at = "untell" => r.path \in slipped \/ Covered(r.path)
    BY <2>0, <2>1 DEF RejectInv, RequestSlips
  <2>8. RequestSlips'
    <3>1. k.at \in {"judge", "untell", "unset"} => k.path \in slipped' \/ Covered(k.path)'
      BY <2>1, <2>2, <2>3, <2>4, <2>7
    <3> QED BY <1>6, <2>1, <2>2, <2>3, <2>7, <3>1
  <2> QED BY <1>1, <1>2, <1>3, <2>1, <2>6, <2>8 DEF RejectInv
<1>9. ASSUME NEW c \in Clients, TellFails(c)
      PROVE  RejectInv'
  <2>0. PICK r : r = client[c]
    OBVIOUS
  <2>1. /\ r \in RequestType /\ r.at \in {"tell", "untell"} /\ r # Idle
        /\ config' \in {config, [config EXCEPT ![r.path] = IF r.at = "tell" THEN r.new ELSE r.old]}
        /\ client' = [client EXCEPT ![c] = Idle] /\ UNCHANGED <<store, tree, dirty, command>>
        /\ slipped' = IF r.at = "untell" \/ config' # config THEN slipped \cup {r.path} ELSE slipped
    BY <1>9, <2>0 DEF TellFails, Told, TypeOK
  <2>2. slipped \subseteq slipped' /\ \A p \in Paths : Covered(p) => Covered(p)'
    BY <2>1 DEF Covered
  <2>3. \A p \in Tried : p \in Tried' \/ p \in slipped'
    BY <2>0, <2>1, TriedStays
  <2>4. \A p \in Paths : config'[p] # config[p] => p \in slipped'
    BY <2>1 DEF TypeOK, Tree, RequestType
  <2>5. SessionSlips'
    BY <2>1, <2>2, <2>3, <2>4 DEF RejectInv, SessionSlips
  <2>6. RequestSlips'
    BY <1>6, <2>1, <2>2
  <2> QED BY <1>1, <1>2, <1>3, <2>1, <2>2, <2>5, <2>6 DEF RejectInv
<1>10. ASSUME NEW c \in Clients, Set(c)
       PROVE  RejectInv'
  <2>0. PICK r, k : r = client[c] /\ k = [r EXCEPT !.at = "judge"]
    OBVIOUS
  <2> DEFINE e == IF r.at = "set" THEN r.new ELSE r.old
             tries == r.at = "set" /\ r.kind \in {"edit", "preview"}
  <2>1. /\ r \in RequestType /\ r.at \in {"set", "unset"} /\ r # Idle
        /\ tree' = IF tree = Nothing THEN Nothing ELSE [tree EXCEPT ![r.path] = e]
        /\ dirty' = dirty \cup {r.path}
        /\ client' = [client EXCEPT ![c] = IF tries THEN k ELSE Idle]
        /\ UNCHANGED <<store, config, command, slipped>>
    BY <1>10, <2>0 DEF Set, Mark, TypeOK
  <2>2. /\ k \in RequestType /\ k # Idle /\ k.path = r.path /\ k.kind = r.kind /\ k.old = r.old
        /\ k.at = "judge"
    BY <2>0, <2>1, EditingAssumption DEF RequestType
  <2>3. r.path \in Paths /\ e \in Entry
    BY <2>1 DEF RequestType
  <2>4. /\ tree # Nothing => tree' # Nothing
        /\ tree' # Nothing => /\ tree # Nothing
                              /\ \A p \in Paths : tree'[p] = IF p = r.path THEN e ELSE tree[p]
    <3> HIDE DEF e
    <3>1. CASE tree = Nothing
      BY <2>1, <3>1
    <3>2. CASE tree # Nothing
      <4>1. tree \in Tree /\ tree' = [tree EXCEPT ![r.path] = e]
        BY <2>1, <3>2 DEF TypeOK
      <4>2. tree' \in Tree
        BY <2>3, <4>1, UpdatedTree
      <4>3. tree' # Nothing
        BY <4>2, EditingAssumption
      <4> QED BY <2>3, <3>2, <4>1, <4>3 DEF Tree
    <3> QED BY <3>1, <3>2
  <2>5. \A p \in Paths : Covered(p) => Covered(p)'
    BY <2>1, <2>4 DEF Covered
  <2>6. /\ r.old.val \in Blocking => r.path \in slipped
        /\ r.path \in slipped \/ (r.kind \in {"edit", "preview"} /\ tree # Nothing)
    BY <2>0, <2>1 DEF RejectInv, RequestSlips
  <2>7. r.path \in slipped \/ Covered(r.path)'
    BY <2>1, <2>4, <2>6 DEF Covered
  <2>8. RequestSlips'
    <3> DEFINE n == IF tries THEN k ELSE Idle
    <3>1. /\ n # Idle => n = k
          /\ k.at \in {"judge", "untell", "unset"} => k.path \in slipped' \/ Covered(k.path)'
      BY <2>1, <2>2, <2>7
    <3>2. client' = [client EXCEPT ![c] = n]
      BY <2>1
    <3> HIDE DEF n
    <3> QED BY <1>6, <2>1, <2>2, <2>4, <2>5, <2>6, <3>1, <3>2
  <2>9. \A p \in Tried : p \in Tried' \/ p = r.path
    BY <2>0, <2>1, TriedStays
  <2>10. tries => r.path \in Tried'
    BY <2>0, <2>1, <2>2, TriedStays
  <2>11. e.val \in Blocking /\ ~tries => r.path \in slipped
    BY <2>1, <2>6
  <2> HIDE DEF e, tries
  <2>12. SessionSlips'
    <3> SUFFICES ASSUME NEW p \in Paths
                 PROVE  /\ config'[p].val \in Blocking => p \in slipped' \cup Tried' \/ Covered(p)'
                        /\ tree' # Nothing /\ tree'[p].val \in Blocking => p \in slipped' \cup Tried'
      BY DEF SessionSlips
    <3>1. CASE p = r.path
      BY <2>1, <2>4, <2>7, <2>10, <2>11, <3>1
    <3>2. CASE p # r.path
      BY <2>1, <2>4, <2>5, <2>9, <3>2 DEF RejectInv, SessionSlips
    <3> QED BY <3>1, <3>2
  <2> QED BY <1>1, <1>2, <1>3, <2>1, <2>8, <2>12 DEF RejectInv
<1>11. ASSUME NEW c \in Clients, Judge(c)
       PROVE  RejectInv'
  <2>0. PICK r, k : r = client[c] /\ k = [r EXCEPT !.at = "untell"]
    OBVIOUS
  <2>1. PICK answered \in BOOLEAN :
           /\ r \in RequestType /\ r.at = "judge" /\ r # Idle
           /\ client' = [client EXCEPT ![c] = IF Rejected(r, answered) THEN k ELSE Idle]
           /\ slipped' = IF answered \/ r.kind = "preview" THEN slipped ELSE slipped \cup {r.path}
           /\ UNCHANGED <<store, config, tree, dirty, command>>
    BY <1>11, <2>0 DEF Judge, TypeOK
  <2>2. /\ k \in RequestType /\ k # Idle /\ k.path = r.path /\ k.kind = r.kind /\ k.old = r.old
        /\ k.at = "untell"
    BY <2>0, <2>1, EditingAssumption DEF RequestType
  <2>3. r.path \in Paths /\ slipped \subseteq slipped' /\ \A p \in Paths : Covered(p) => Covered(p)'
    BY <2>1 DEF RequestType, Covered
  <2>4. /\ r.old.val \in Blocking => r.path \in slipped
        /\ r.path \in slipped \/ (r.kind \in {"edit", "preview"} /\ tree # Nothing)
        /\ r.path \in slipped \/ Covered(r.path)
    BY <2>0, <2>1 DEF RejectInv, RequestSlips
  <2> DEFINE n == IF Rejected(r, answered) THEN k ELSE Idle
  <2>5. /\ client' = [client EXCEPT ![c] = n] /\ (n # Idle => n = k)
        /\ Rejected(r, answered) => n = k
    BY <2>1
  <2> HIDE DEF n
  <2>6. RequestSlips'
    <3>1. k.at \in {"judge", "untell", "unset"} => k.path \in slipped' \/ Covered(k.path)'
      BY <2>2, <2>3, <2>4
    <3>2. /\ k.old.val \in Blocking => k.path \in slipped'
          /\ k.path \in slipped' \/ (k.kind \in {"edit", "preview"} /\ tree' # Nothing)
      BY <2>1, <2>2, <2>3, <2>4
    <3>3. tree # Nothing => tree' # Nothing
      BY <2>1
    <3> QED BY <1>6, <2>3, <2>5, <3>1, <3>2, <3>3
  <2>7. /\ \A p \in Tried : p \in Tried' \/ p = r.path
        /\ Rejected(r, answered) => r.path \in Tried'
    <3>1. /\ \A p \in Tried : p \in Tried' \/ (client[c] # Idle /\ client[c].at # "tell" /\ client[c].path = p)
          /\ n # Idle /\ n.at # "tell" => n.path \in Tried'
      BY <2>5, TriedStays
    <3> QED BY <2>0, <2>2, <2>5, <3>1
  <2>9. ~Rejected(r, answered) => r.path \in slipped' \/ tree[r.path].val \notin Blocking
    BY <2>1 DEF Rejected
  <2>10. SessionSlips'
    <3> SUFFICES ASSUME NEW p \in Paths
                 PROVE  /\ config'[p].val \in Blocking => p \in slipped' \cup Tried' \/ Covered(p)'
                        /\ tree' # Nothing /\ tree'[p].val \in Blocking => p \in slipped' \cup Tried'
      BY DEF SessionSlips
    <3>1. CASE p = r.path
      BY <2>1, <2>3, <2>4, <2>7, <2>9, <3>1
    <3>2. CASE p # r.path
      BY <2>1, <2>3, <2>7, <3>2 DEF RejectInv, SessionSlips
    <3> QED BY <3>1, <3>2
  <2> QED BY <1>1, <1>2, <1>3, <2>1, <2>3, <2>6, <2>10 DEF RejectInv
<1>12. ASSUME NEW c \in Clients, Save(c) \/ SaveFails(c)
       PROVE  RejectInv'
  <2>1. /\ tree # Nothing /\ tree' = Storable(tree) /\ slipped' = slipped \cup Tried
        /\ UNCHANGED <<config, client, command>>
    BY <1>12 DEF Save, SaveFails
  <2>2. tree' # Nothing /\ \A p \in Paths : tree'[p].val \in Blocking => p \in slipped'
    BY <2>1, ShownSlips
  <2>3. \A p \in Paths : store'[p] \in {tree'[p], store[p]}
    BY <1>12 DEF Save, SaveFails, Written
  <2>4. \A p \in Paths : tree'[p] # Nothing
    BY <2>1, <2>2, EditingAssumption DEF TypeOK, Tree
  <2>5. \A p \in Paths : Covered(p) => Covered(p)'
    <3>1. \A p \in Paths : store[p] # Nothing => store'[p] # Nothing
      BY <2>3, <2>4
    <3>2. CASE dirty' = dirty
      BY <2>2, <3>1, <3>2 DEF Covered
    <3>3. CASE store' = tree'
      BY <2>4, <3>3 DEF Covered
    <3> QED BY <1>12, <3>2, <3>3 DEF Save, SaveFails
  <2>6. BlockingNeverStored'
    BY <2>1, <2>2, <2>3 DEF RejectInv, BlockingNeverStored
  <2>7. SessionSlips'
    BY <1>5, <2>1, <2>2, <2>5 DEF RejectInv, SessionSlips
  <2> QED BY <1>1, <1>3, <1>4, <2>1, <2>2, <2>5, <2>6, <2>7 DEF RejectInv
<1>13. ASSUME NEW c \in Clients, TransformFails(c)
       PROVE  RejectInv'
  <2>1. /\ tree # Nothing /\ tree' # Nothing /\ UNCHANGED <<store, config, dirty, client, command, slipped>>
        /\ \A p \in Paths : tree'[p] \in {Storable(tree)[p], tree[p]}
    <3>1. /\ tree # Nothing /\ UNCHANGED <<store, config, dirty, client, command, slipped>>
      BY <1>13 DEF TransformFails
    <3>2. PICK turned \in SUBSET Paths :
             tree' = [p \in Paths |-> IF p \in turned THEN Storable(tree)[p] ELSE tree[p]]
      BY <1>13 DEF TransformFails
    <3>3. tree' \in Tree
      BY <3>1, <3>2, ShownSlips DEF TypeOK, Tree
    <3> QED BY <3>1, <3>2, <3>3, EditingAssumption
  <2>2. \A p \in Paths : Covered(p) => Covered(p)'
    BY <2>1 DEF Covered
  <2>3. \A p \in Paths : tree'[p].val \in Blocking => p \in slipped \cup Tried
    BY <2>1, ShownSlips DEF RejectInv, SessionSlips
  <2>4. SessionSlips'
    BY <1>5, <2>1, <2>2, <2>3 DEF RejectInv, SessionSlips
  <2> QED BY <1>1, <1>2, <1>3, <1>4, <2>1, <2>2, <2>4 DEF RejectInv
<1>14. ASSUME NEW c \in Clients, NEW p \in Paths, NEW v \in Values, NEW kind \in Kinds,
              Open(c, kind, p, v)
       PROVE  RejectInv'
  <2> DEFINE e == Loaded[p]
             k == [kind |-> kind, at |-> "tell", path |-> p, new |-> [e EXCEPT !.val = v], old |-> e]
  <2>1. /\ client[c] = Idle /\ kind \in {"edit", "preview"} /\ tree' = Loaded
        /\ client' = [client EXCEPT ![c] = k] /\ slipped' = slipped \cup ({p} \cap Tried)
        /\ UNCHANGED <<store, config, dirty, command>>
    BY <1>14 DEF Open
  <2>2. Loaded # Nothing /\ \A q \in Paths : Loaded[q].val \in Blocking => q \in slipped \cup Tried
    BY ShownSlips
  <2>3. k.kind = kind /\ k.at = "tell" /\ k.old = e /\ k.path = p /\ (e.val \in Blocking => p \in slipped')
    BY <2>1, <2>2
  <2>4. slipped \subseteq slipped' /\ \A q \in Paths : Covered(q) => Covered(q)'
    BY <2>1, <2>2 DEF Covered
  <2> HIDE DEF e, k
  <2>5. RequestSlips'
    BY <1>6, <2>1, <2>2, <2>3, <2>4
  <2>6. \A q \in Tried : q \in Tried'
    BY <2>1, TriedStays
  <2>7. SessionSlips'
    BY <2>1, <2>2, <2>4, <2>6 DEF RejectInv, SessionSlips
  <2> QED BY <1>1, <1>2, <1>3, <2>1, <2>4, <2>5, <2>7 DEF RejectInv
<1>15. ASSUME NEW c \in Clients, NEW p \in Paths, NEW v \in Values, NEW kind \in Kinds,
              Direct(c, kind, p, v)
       PROVE  RejectInv'
  <2> DEFINE e == IF kind = "commit" THEN [tree[p] EXCEPT !.val = v]
                  ELSE [val |-> v, labelled |-> FALSE]
             k == [kind |-> kind, at |-> "tell", path |-> p, new |-> e, old |-> e]
  <2>1. /\ client[c] = Idle /\ client' = [client EXCEPT ![c] = k] /\ slipped' = slipped \cup {p}
        /\ UNCHANGED <<store, config, tree, dirty, command>>
    BY <1>15 DEF Direct
  <2>2. k.path \in slipped' /\ k.at = "tell"
    BY <2>1
  <2>3. slipped \subseteq slipped' /\ \A q \in Paths : Covered(q) => Covered(q)'
    BY <2>1 DEF Covered
  <2> HIDE DEF e, k
  <2>4. RequestSlips'
    BY <1>6, <2>1, <2>2, <2>3
  <2>5. \A q \in Tried : q \in Tried'
    BY <2>1, TriedStays
  <2>6. SessionSlips'
    BY <2>1, <2>3, <2>5 DEF RejectInv, SessionSlips
  <2> QED BY <1>1, <1>2, <1>3, <2>1, <2>3, <2>4, <2>6 DEF RejectInv
<1>16. CASE Exit
  <2>1. /\ config' = FromConfig /\ tree' = Nothing /\ UNCHANGED <<store, command, slipped>>
        /\ \A d \in Clients : client'[d] = Idle
    BY <1>16 DEF Exit
  <2>2. \A p \in Paths : config'[p].val \notin Blocking
    BY <2>1 DEF FromConfig
  <2>3. RequestSlips' /\ SessionSlips'
    BY <2>1, <2>2 DEF RequestSlips, SessionSlips
  <2> QED BY <1>1, <1>2, <1>3, <2>1, <2>3 DEF RejectInv
\* Other processes change neither what the session has nor its requests.
<1>17. ASSUME UNCHANGED session, slipped \subseteq slipped', \A p \in Paths : store[p] # Nothing => store'[p] # Nothing
       PROVE  RequestSlips' /\ SessionSlips'
  <2>1. \A p \in Paths : Covered(p) => Covered(p)'
    BY <1>17 DEF Covered, session
  <2>2. SessionSlips'
    BY <1>5, <1>17, <2>1 DEF RejectInv, SessionSlips, session
  <2> QED BY <1>4, <1>17, <2>1, <2>2 DEF session
<1>18. ASSUME NEW k \in Commands, NEW p \in Paths, NEW v \in Values, CommandRead(k, p, v)
       PROVE  RejectInv'
  <2>1. /\ UNCHANGED <<store, session>>
        /\ Validated => \A q \in Paths : SetOn(p, v)[q].val \notin Blocking
        /\ slipped' = IF Validated THEN slipped ELSE slipped \cup {p}
        /\ command' = [command EXCEPT ![k] = [path |-> p, tree |-> Storable(SetOn(p, v))]]
    BY <1>18 DEF CommandRead
  <2>2. SetOn(p, v) \in Tree /\ \A q \in Paths : SetOn(p, v)[q].val \in Values
    BY SetTree DEF Tree, Entry
  <2>3. ASSUME NEW q \in Paths, SetOn(p, v)[q].val \in Blocking PROVE q \in slipped'
    <3>1. ~Validated
      BY <2>1, <2>3
    <3>2. q # p => SetOn(p, v)[q].val = IF Readable(q) THEN store[q].val ELSE Defaults[q]
      BY SetOnValue
    <3>3. q = p => q \in slipped'
      BY <2>1, <3>1
    <3> QED BY <2>1, <2>3, <3>2, <3>3 DEF Readable, RejectInv, BlockingNeverStored
  <2>4. \A q \in Paths : Storable(SetOn(p, v))[q].val \in Blocking => q \in slipped'
    BY <2>2, <2>3, StorableTree DEF TransformsMakeNoneBlocking
  <2>5. CommandSlips'
    BY <2>1, <2>4 DEF RejectInv, CommandSlips, TypeOK
  <2> QED BY <1>1, <1>2, <1>17, <2>1, <2>5 DEF RejectInv
<1>19. ASSUME NEW k \in Commands, CommandWrite(k) \/ CommandFails(k)
       PROVE  RejectInv'
  <2>1. /\ UNCHANGED <<session, slipped>> /\ command[k] # Idle
        /\ command' = [command EXCEPT ![k] = Idle]
        /\ \A p \in Paths : store'[p] \in {command[k].tree[p], store[p]}
    BY <1>19 DEF CommandWrite, CommandFails, Written
  <2>2. \A p \in Paths : command[k].tree[p] \in Entry
    BY <2>1 DEF TypeOK, CommandType, Tree
  <2>3. CommandSlips'
    BY <2>1 DEF RejectInv, CommandSlips, TypeOK
  <2>4. BlockingNeverStored'
    BY <2>1 DEF RejectInv, BlockingNeverStored, CommandSlips
  <2>5. \A p \in Paths : store[p] # Nothing => store'[p] # Nothing
    BY <2>1, <2>2, EditingAssumption
  <2> QED BY <1>1, <1>17, <2>1, <2>3, <2>4, <2>5 DEF RejectInv
<1>20. CASE UNCHANGED vars
  BY <1>1, <1>2, <1>3, <1>17, <1>20 DEF vars, session, RejectInv
<1> QED
  BY <1>7, <1>8, <1>9, <1>10, <1>11, <1>12, <1>13, <1>14, <1>15, <1>16, <1>18, <1>19, <1>20 DEF Next

(* A Blocking value is stored only where it slipped, for any number of      *)
(* requests at once and of other processes, whatever fails: where nobody    *)
(* asked for a check, or the form's was not answered, could not be undone   *)
(* or was overlapped by another request.  No path is write-only, and the    *)
(* transforms and the defaults are harmless.                                *)
THEOREM RejectedNeverStored ==
    ASSUME WriteOnly = {}, TransformsMakeNoneBlocking, \A p \in Paths : Defaults[p] \notin Blocking
    PROVE  Spec => []BlockingNeverStored
<1>1. RejectInv => BlockingNeverStored
  BY DEF RejectInv
<1>2. TypeOK /\ TypeOK' /\ RejectInv /\ [Next]_vars => RejectInv'
  BY RejectInvStep
<1> QED BY <1>1, <1>2, RejectInvInit, TypeCorrect, PTL DEF Spec

-----------------------------------------------------------------------------
(* Fresh writers.  No path is write-only, and the transforms give back what *)
(* is stored: neither storing it again nor showing it and storing it then   *)
(* changes it.                                                              *)

DisplayIsUndone ==
    \A p \in Paths, v \in Values :
        AfterSave[p][BeforeDisplay[p][AfterSave[p][v]]] = AfterSave[p][v]

\* v is a form in which a value of p is stored.
Stored(p, v) == AfterSave[p][v] = v /\ AfterSave[p][BeforeDisplay[p][v]] = v

\* What a fresh session or command would write over a path it was not asked
\* to set is what is there.
FreshInv ==
    /\ LabelsInv
    /\ \A p \in dirty : pending[p] # Nothing
    /\ \A p \in Paths : store[p] # Nothing => Stored(p, store[p].val)
    /\ \A k \in Commands : command[k] # Idle => \A p \in Paths : Stored(p, command[k].tree[p].val)
    /\ tree # Nothing /\ Session \notin stale =>
          \A p \in Paths : pending[p] = Nothing /\ store[p] # Nothing =>
              AfterSave[p][tree[p].val] = store[p].val
    /\ \A k \in Commands \ stale : command[k] # Idle =>
          \A p \in Paths \ {command[k].path} :
              store[p] # Nothing => command[k].tree[p].val = store[p].val

LEMMA FreshInvInit == WriteOnly = {} /\ Init => FreshInv
BY LabelsInvInit DEF Init, FreshInv

LEMMA FreshInvStep ==
    ASSUME WriteOnly = {}, SaveIsIdempotent, DisplayIsUndone,
           TypeOK, TypeOK', FreshInv, [Next]_vars
    PROVE  FreshInv'
<1>1. LabelsInv' /\ LabelsInv
  BY LabelsInvStep DEF FreshInv
<1>2. ASSUME NEW p \in Paths, NEW v \in Values PROVE Stored(p, AfterSave[p][v])
  BY EditingAssumption DEF Stored, SaveIsIdempotent, DisplayIsUndone
<1>3. ASSUME tree # Nothing
      PROVE  /\ \A p \in Paths : tree[p].val \in Values
             /\ Storable(tree) \in Tree
             /\ \A p \in Paths : /\ Storable(tree)[p].val = AfterSave[p][tree[p].val]
                                 /\ Stored(p, Storable(tree)[p].val)
  <2>1. tree \in Tree /\ \A p \in Paths : tree[p].val \in Values
    BY <1>3 DEF TypeOK, Tree, Entry
  <2> QED BY <1>2, <2>1, StorableTree, TransformedValues
\* A load shows what is stored wherever nothing is pending.
<1>4. \A p \in Paths : pending[p] = Nothing /\ store[p] # Nothing =>
         AfterSave[p][Loaded[p].val] = store[p].val
  <2> SUFFICES ASSUME NEW p \in Paths, pending[p] = Nothing, store[p] # Nothing
               PROVE  AfterSave[p][Loaded[p].val] = store[p].val
    OBVIOUS
  <2>1. p \notin dirty /\ Stored(p, store[p].val)
    BY DEF FreshInv
  <2>2. Readable(p)
    BY <1>1 DEF LabelsInv, Readable
  <2>3. Loaded[p].val = BeforeDisplay[p][store[p].val]
    BY <2>1, <2>2, LoadedValue
  <2> QED BY <2>1, <2>3 DEF Stored
\* Steps that touch neither the store nor the commands, and leave the session
\* as fresh as it was or load.
<1>5. ASSUME UNCHANGED <<store, command>>, \A p \in dirty' : pending'[p] # Nothing,
             stale' \in {stale, stale \ {Session}},
             tree' # Nothing /\ Session \notin stale' =>
                \A p \in Paths : pending'[p] = Nothing /\ store[p] # Nothing =>
                    AfterSave[p][tree'[p].val] = store[p].val
      PROVE  FreshInv'
  <2>1. \A k \in Commands : k \notin stale' => k \notin stale
    BY <1>5, EditingAssumption
  <2>2. \A p \in Paths : store'[p] # Nothing => Stored(p, store'[p].val)
    BY <1>5 DEF FreshInv
  <2>3. \A k \in Commands : command'[k] # Idle => \A p \in Paths : Stored(p, command'[k].tree[p].val)
    BY <1>5 DEF FreshInv
  <2>4. \A k \in Commands \ stale' : command'[k] # Idle =>
           \A p \in Paths \ {command'[k].path} : store'[p] # Nothing => command'[k].tree[p].val = store'[p].val
    BY <1>5, <2>1 DEF FreshInv
  <2> QED BY <1>1, <1>5, <2>2, <2>3, <2>4 DEF FreshInv, Stored
<1>6. ASSUME NEW c \in Clients, Load(c) \/ \E p \in Paths, v \in Values, kind \in Kinds : Open(c, kind, p, v)
      PROVE  FreshInv'
  <2>1. /\ tree' = Loaded /\ stale' = stale \ {Session} /\ UNCHANGED <<store, dirty, command, pending>>
    BY <1>6 DEF Load, Open
  <2> QED BY <1>4, <1>5, <2>1 DEF FreshInv
<1>7. ASSUME UNCHANGED <<store, tree, dirty, command, pending, stale>>
      PROVE  FreshInv'
  BY <1>5, <1>7 DEF FreshInv
<1>8. ASSUME NEW c \in Clients, Set(c)
      PROVE  FreshInv'
  <2> DEFINE r == client[c]
             e == IF r.at = "set" THEN r.new ELSE r.old
  <2>1. /\ r.path \in Paths /\ e \in Entry
        /\ tree' = IF tree = Nothing THEN Nothing ELSE [tree EXCEPT ![r.path] = e]
        /\ dirty' = dirty \cup {r.path} /\ pending' = [pending EXCEPT ![r.path] = e.val]
        /\ UNCHANGED <<store, command, stale>>
    BY <1>8 DEF Set, Mark, TypeOK, RequestType
  <2>2. \A p \in Paths : pending'[p] = IF p = r.path THEN e.val ELSE pending[p]
    BY <2>1 DEF TypeOK
  <2>3. e.val # Nothing
    BY <2>1, EditingAssumption DEF Entry
  <2>4. tree # Nothing => \A p \in Paths : tree'[p] = IF p = r.path THEN e ELSE tree[p]
    BY <2>1 DEF TypeOK, Tree
  <2> HIDE DEF e
  <2>5. \A p \in dirty' : pending'[p] # Nothing
    BY <2>1, <2>2, <2>3 DEF FreshInv, TypeOK
  <2>6. tree' # Nothing /\ Session \notin stale' =>
           \A p \in Paths : pending'[p] = Nothing /\ store[p] # Nothing =>
               AfterSave[p][tree'[p].val] = store[p].val
    BY <2>1, <2>2, <2>3, <2>4 DEF FreshInv
  <2> QED BY <1>5, <2>1, <2>5, <2>6
<1>9. CASE Exit
  BY <1>5, <1>9 DEF Exit
\* Steps that write the store: what they write is in stored form, and those
\* that stay fresh would write it again.
<1>10. ASSUME NEW c \in Clients, Save(c)
       PROVE  FreshInv'
  <2>1. /\ tree # Nothing /\ tree' = Storable(tree) /\ store' = tree' /\ dirty' = {}
        /\ stale' = Commands /\ UNCHANGED command
    BY <1>10 DEF Save
  <2>2. \A p \in Paths : Stored(p, store'[p].val)
    BY <1>3, <2>1
  <2>3. \A k \in Commands : command[k] # Idle => \A p \in Paths : Stored(p, command[k].tree[p].val)
    BY DEF FreshInv
  <2> QED BY <1>1, <2>1, <2>2, <2>3 DEF FreshInv, Stored
<1>11. ASSUME NEW c \in Clients, SaveFails(c)
       PROVE  FreshInv'
  <2>1. /\ tree # Nothing /\ tree' = Storable(tree) /\ stale' = stale \cup Commands
        /\ UNCHANGED <<dirty, command, pending>>
    BY <1>11 DEF SaveFails
  <2>2. PICK done \in SUBSET Paths : store' = Written(tree', done)
    BY <1>11, EditingAssumption DEF SaveFails
  <2>3. \A p \in Paths : store'[p] = IF p \in done THEN tree'[p] ELSE store[p]
    BY <2>2 DEF Written
  <2>4. \A p \in Paths : store'[p] # Nothing => Stored(p, store'[p].val)
    BY <1>3, <2>1, <2>3 DEF FreshInv
  <2>5. ASSUME Session \notin stale', NEW p \in Paths, pending[p] = Nothing, store'[p] # Nothing
        PROVE  AfterSave[p][tree'[p].val] = store'[p].val
    <3>1. Stored(p, tree'[p].val) /\ tree'[p].val = AfterSave[p][tree[p].val]
      BY <1>3, <2>1
    <3>2. CASE p \in done
      BY <2>3, <3>1, <3>2 DEF Stored
    <3>3. CASE p \notin done
      BY <2>1, <2>3, <2>5, <3>1, <3>3 DEF FreshInv, Stored
    <3> QED BY <3>2, <3>3
  <2>6. \A k \in Commands : command[k] # Idle => \A p \in Paths : Stored(p, command[k].tree[p].val)
    BY DEF FreshInv
  <2> QED BY <1>1, <2>1, <2>4, <2>5, <2>6 DEF FreshInv, Stored
<1>12. ASSUME NEW k \in Commands, NEW p \in Paths, NEW v \in Values, CommandRead(k, p, v)
       PROVE  FreshInv'
  <2> DEFINE t == SetOn(p, v)
  <2>1. /\ command' = [command EXCEPT ![k] = [path |-> p, tree |-> Storable(t)]]
        /\ stale' = stale \ {k} /\ UNCHANGED <<store, tree, dirty, pending>>
    BY <1>12 DEF CommandRead, session
  <2>2. t \in Tree /\ \A q \in Paths : t[q].val \in Values
    BY SetTree DEF Tree, Entry
  <2>3. \A q \in Paths : Storable(t)[q].val = AfterSave[q][t[q].val]
    BY <2>2, StorableTree
  <2>4. \A q \in Paths : Stored(q, Storable(t)[q].val)
    BY <1>2, <2>2, <2>3
  <2>5. \A q \in Paths \ {p} : store[q] # Nothing => Storable(t)[q].val = store[q].val
    <3> SUFFICES ASSUME NEW q \in Paths, q # p, store[q] # Nothing
                 PROVE  Storable(t)[q].val = store[q].val
      OBVIOUS
    <3>1. Readable(q) /\ Stored(q, store[q].val)
      BY <1>1 DEF LabelsInv, Readable, FreshInv
    <3>2. t[q].val = store[q].val
      BY <3>1, SetOnValue
    <3> QED BY <2>3, <3>1, <3>2 DEF Stored
  <2> HIDE DEF t
  <2>6. \A l \in Commands : command'[l] = IF l = k THEN [path |-> p, tree |-> Storable(t)] ELSE command[l]
    BY <2>1 DEF TypeOK
  <2>7. \A l \in Commands : command'[l] # Idle => \A q \in Paths : Stored(q, command'[l].tree[q].val)
    BY <2>4, <2>6 DEF FreshInv
  <2>8. \A l \in Commands \ stale' : command'[l] # Idle =>
           \A q \in Paths \ {command'[l].path} : store'[q] # Nothing => command'[l].tree[q].val = store'[q].val
    BY <2>1, <2>5, <2>6 DEF FreshInv
  <2>9. k # Session
    BY EditingAssumption
  <2>10. tree' # Nothing /\ Session \notin stale' =>
            \A q \in Paths : pending'[q] = Nothing /\ store'[q] # Nothing =>
                AfterSave[q][tree'[q].val] = store'[q].val
    BY <2>1, <2>9 DEF FreshInv
  <2>11. \A q \in Paths : store'[q] # Nothing => Stored(q, store'[q].val)
    BY <2>1 DEF FreshInv
  <2>12. \A q \in dirty' : pending'[q] # Nothing
    BY <2>1 DEF FreshInv
  <2> QED BY <1>1, <2>7, <2>8, <2>10, <2>11, <2>12 DEF FreshInv, Stored
<1>13. ASSUME NEW k \in Commands, CommandWrite(k) \/ CommandFails(k)
       PROVE  FreshInv'
  <2>1. /\ command[k] # Idle /\ command' = [command EXCEPT ![k] = Idle] /\ stale' = Writers \ {k}
        /\ UNCHANGED <<tree, dirty, pending>>
    BY <1>13 DEF CommandWrite, CommandFails, session
  <2>2. store' = command[k].tree \/ \E done \in SUBSET Paths : store' = Written(command[k].tree, done)
    BY <1>13, EditingAssumption DEF CommandWrite, CommandFails
  <2>3. \A p \in Paths : store'[p] = command[k].tree[p] \/ store'[p] = store[p]
    BY <2>2 DEF Written
  <2>4. \A p \in Paths : store'[p] # Nothing => Stored(p, store'[p].val)
    BY <2>1, <2>3 DEF FreshInv
  <2>5. \A l \in Commands : command'[l] # Idle => l # k /\ command'[l] = command[l] /\ l \in stale'
    BY <2>1 DEF TypeOK, Writers
  <2>6. Session \in stale'
    BY <2>1, EditingAssumption DEF Writers
  <2>7. \A l \in Commands : command'[l] # Idle => \A q \in Paths : Stored(q, command'[l].tree[q].val)
    BY <2>5 DEF FreshInv
  <2>8. \A q \in dirty' : pending'[q] # Nothing
    BY <2>1 DEF FreshInv
  <2>9. \A l \in Commands \ stale' : command'[l] = Idle
    BY <2>5
  <2> QED BY <1>1, <2>4, <2>6, <2>7, <2>8, <2>9 DEF FreshInv, Stored
<1>14. ASSUME NEW c \in Clients, TransformFails(c)
       PROVE  FreshInv'
  <2>1. /\ tree # Nothing /\ UNCHANGED <<store, dirty, command, pending, stale>>
        /\ \A p \in Paths : tree'[p] \in {Storable(tree)[p], tree[p]}
    BY <1>14 DEF TransformFails
  <2>2. \A p \in Paths : AfterSave[p][tree'[p].val] = AfterSave[p][tree[p].val]
    BY <1>3, <2>1 DEF SaveIsIdempotent
  <2> QED BY <1>5, <2>1, <2>2 DEF FreshInv
<1> QED
  BY <1>6, <1>7, <1>8, <1>9, <1>10, <1>11, <1>12, <1>13, <1>14
     DEF Next, vars, Tell, TellFails, Judge, Direct

LEMMA FreshStep ==
    ASSUME TypeOK, FreshInv, [Next]_vars
    PROVE  OthersUntouchedWhenFresh
<1> SUFFICES ASSUME Writer \notin stale, NEW p \in Paths, \A w \in Writers : ~Asked(w, p),
                    store[p] # Nothing
             PROVE  store'[p].val = store[p].val
  BY DEF OthersUntouchedWhenFresh, OthersUntouched, Untouched
<1>1. CASE store' = store
  BY <1>1
<1>2. ASSUME NEW c \in Clients, Save(c) \/ SaveFails(c)
      PROVE  store'[p].val = store[p].val
  <2>1. tree # Nothing /\ tree' = Storable(tree) /\ command' = command
    BY <1>2 DEF Save, SaveFails
  <2>2. Session \notin stale /\ pending[p] = Nothing
    BY <2>1 DEF Writer, Asked, Writers
  <2>3. tree'[p].val = AfterSave[p][tree[p].val]
    BY <2>1, TransformedValues DEF TypeOK
  <2>4. store'[p] \in {tree'[p], store[p]}
    BY <1>2 DEF Save, SaveFails, Written
  <2> QED BY <2>1, <2>2, <2>3, <2>4 DEF FreshInv
<1>3. ASSUME NEW k \in Commands, CommandWrite(k) \/ CommandFails(k)
      PROVE  store'[p].val = store[p].val
  <2>1. command[k] # Idle /\ command' = [command EXCEPT ![k] = Idle]
    BY <1>3 DEF CommandWrite, CommandFails
  <2>2. /\ command'[k] = Idle /\ command' # command
        /\ \A l \in Commands : command'[l] # command[l] => l = k
    BY <2>1 DEF TypeOK
  <2>3. Writer = k
    BY <2>1, <2>2 DEF Writer
  <2>4. k \in Writers /\ k # Session
    BY EditingAssumption DEF Writers
  <2>5. command[k].path # p
    BY <2>1, <2>2, <2>4 DEF Asked
  <2>6. command[k].tree[p].val = store[p].val
    BY <2>1, <2>3, <2>5 DEF FreshInv
  <2>7. store'[p] \in {command[k].tree[p], store[p]}
    BY <1>3 DEF CommandWrite, CommandFails, Written
  <2> QED BY <2>6, <2>7
<1>4. ASSUME NEW c \in Clients,
             \/ Load(c) \/ Tell(c) \/ TellFails(c) \/ Set(c) \/ Judge(c) \/ TransformFails(c)
             \/ \E q \in Paths, v \in Values, kind \in Kinds : Open(c, kind, q, v) \/ Direct(c, kind, q, v)
      PROVE  store' = store
  BY <1>4 DEF Load, Tell, TellFails, Set, Judge, TransformFails, Open, Direct
<1>5. CASE Exit
  BY <1>1, <1>5 DEF Exit
<1>6. ASSUME NEW k \in Commands, NEW q \in Paths, NEW v \in Values, CommandRead(k, q, v)
      PROVE  store' = store
  BY <1>6 DEF CommandRead
<1>7. CASE UNCHANGED vars
  BY <1>1, <1>7 DEF vars
<1> QED
  BY <1>1, <1>2, <1>3, <1>4, <1>5, <1>6, <1>7 DEF Next

(* A writer that has read the store since its last write, a session or a    *)
(* `zhi set`, changes no stored value it was not asked to set, as long as   *)
(* no path is write-only and the transforms give back what is stored.       *)
THEOREM FreshWritersMindOthers ==
    ASSUME WriteOnly = {}, SaveIsIdempotent, DisplayIsUndone
    PROVE  Spec => FreshWritersOnlySet
<1>1. Init => FreshInv
  BY FreshInvInit
<1>2. TypeOK /\ TypeOK' /\ FreshInv /\ [Next]_vars => FreshInv'
  BY FreshInvStep
<1>3. TypeOK /\ FreshInv /\ [Next]_vars => OthersUntouchedWhenFresh
  BY FreshStep
<1> QED BY <1>1, <1>2, <1>3, TypeCorrect, PTL DEF Spec, FreshWritersOnlySet

-----------------------------------------------------------------------------
(* The registries somebody is logged in to. *)

\* While nothing was disturbed, one command at most runs, and what it has in
\* memory is what the file says.
LoginsInv ==
    /\ Known!TypeOK
    /\ ~disturbed =>
         /\ file = asked
         /\ \A p \in Process : memory[p] # None => memory[p] = file
         /\ \A p, q \in Process : memory[p] # None /\ memory[q] # None => p = q

LEMMA LoginsInit == ASSUME Known!Init PROVE LoginsInv
BY DEF Known!Init, LoginsInv, Known!TypeOK, Known!Logins

LEMMA LoginsStep == ASSUME LoginsInv, [Known!Next]_knownVars PROVE LoginsInv'
<1>1. ASSUME NEW p \in Process, Known!NewStore(p) PROVE LoginsInv'
  <2>1. Known!TypeOK'
    BY <1>1 DEF Known!NewStore, LoginsInv, Known!TypeOK
  <2>2. ASSUME ~disturbed' PROVE ~disturbed /\ \A q \in Process : memory[q] = None
    BY <1>1, <2>2 DEF Known!NewStore, LoginsInv, Known!TypeOK
  <2>q. QED BY <1>1, <2>1, <2>2 DEF Known!NewStore, LoginsInv, Known!TypeOK
<1>2. ASSUME NEW p \in Process, Known!Command(p) PROVE LoginsInv'
  <2>1. PICK r \in Registry, user \in User \cup {None} :
          /\ memory[p] # None
          /\ file' = [memory[p] EXCEPT ![r] = user] /\ asked' = [asked EXCEPT ![r] = user]
          /\ memory' = [memory EXCEPT ![p] = None] /\ disturbed' = disturbed
    BY <1>2 DEF Known!Command, Known!Save
  <2>2. memory[p] \in Known!Logins /\ asked \in Known!Logins
    BY <2>1 DEF LoginsInv, Known!TypeOK
  <2>3. file' \in Known!Logins /\ asked' \in Known!Logins
    BY <2>1, <2>2 DEF Known!Logins
  <2>4. memory' \in [Process -> Known!Logins \cup {None}] /\ disturbed' \in BOOLEAN
    BY <2>1 DEF LoginsInv, Known!TypeOK
  <2>5. ASSUME ~disturbed'
        PROVE  file' = asked' /\ \A q \in Process : memory'[q] = None
    BY <2>1, <2>5 DEF LoginsInv, Known!TypeOK
  <2>q. QED BY <2>3, <2>4, <2>5 DEF LoginsInv, Known!TypeOK
<1>3. ASSUME NEW p \in Process, Known!Refuse(p) PROVE LoginsInv'
  BY <1>3 DEF Known!Refuse, LoginsInv, Known!TypeOK
<1>4. ASSUME NEW p \in Process, Known!Die(p) PROVE LoginsInv'
  <2>1. PICK r \in Registry, user \in User, kept \in SUBSET Registry :
          /\ memory[p] # None
          /\ file' = [q \in Registry |-> IF q \in kept THEN [memory[p] EXCEPT ![r] = user][q] ELSE None]
          /\ memory' = [memory EXCEPT ![p] = None] /\ disturbed' = TRUE /\ asked' = asked
    BY <1>4 DEF Known!Die, Known!Save
  <2>2. memory[p] \in Known!Logins
    BY <2>1 DEF LoginsInv, Known!TypeOK
  <2>3. [memory[p] EXCEPT ![r] = user] \in Known!Logins
    BY <2>2 DEF Known!Logins
  <2> DEFINE written == [memory[p] EXCEPT ![r] = user]
  <2> HIDE DEF written
  <2>4. file' \in Known!Logins
    BY <2>1, <2>3 DEF Known!Logins, written
  <2>q. QED BY <2>1, <2>4 DEF LoginsInv, Known!TypeOK
<1>5. CASE UNCHANGED knownVars
  BY <1>5 DEF knownVars, LoginsInv, Known!TypeOK
<1>q. QED BY <1>1, <1>2, <1>3, <1>4, <1>5 DEF Known!Next

-----------------------------------------------------------------------------
(* The registry and who publishes. *)

Called(root) == About[root.build].name

AtWork == [step : {"idle", "copy", "tag", "sign", "done"}, root : Shared!AllRoots \cup {None},
           tags : Seq(Tags), told : Seq(Tags), sign : BOOLEAN, bundle : Shared!AllRoots \cup {None}]

\* What a tag says that publisher x has put at its artifact.
Led(x, root, t, at) ==
    at[<<Called(root), t>>] # None /\ (at[<<Called(root), t>>].by = x => at[<<Called(root), t>>].root = root)

\* A publish p of x: the tags that are left are the last of those it was
\* told, and the others lead to the artifact, or were moved by somebody else.
PublishKept(p, x, there, at) ==
    /\ p \in AtWork
    /\ p.step # "idle" =>
         /\ p.root \in Shared!AllRoots
         /\ Len(p.tags) <= Len(p.told)
         /\ \A i \in 1 .. Len(p.tags) : p.tags[i] = p.told[Len(p.told) - Len(p.tags) + i]
         /\ \A i \in 1 .. Len(p.told) - Len(p.tags) : Led(x, p.root, p.told[i], at)
    /\ p.step \in {"tag", "sign", "done"} => p.root \in there
    /\ p.step \in {"copy", "tag"} => p.tags # <<>>
    /\ p.step \in {"sign", "done"} => p.tags = <<>>
    /\ p.step = "done" /\ p.sign => p.bundle = p.root

TagsKept(at, there) ==
    /\ at \in [Shared!Names \X Tags -> Shared!Tagged \cup {None}]
    /\ \A n \in Shared!Names, t \in Tags :
         at[<<n, t>>] # None => at[<<n, t>>].root \in there /\ Called(at[<<n, t>>].root) = n

RegistryInv ==
    /\ held \subseteq Shared!AllRoots
    /\ TagsKept(tags, held)
    /\ push = [x \in Publishers |-> push[x]]
    /\ \A x \in Publishers : PublishKept(push[x], x, held, tags)

LEMMA BuildsOfRoots ==
    /\ \A r \in Shared!AllRoots : r.build \in Builds /\ Called(r) \in Shared!Names
    /\ \A b \in Builds : \A r \in Shared!Roots(b) : r \in Shared!AllRoots
    /\ \A b \in Builds : [build |-> b, order |-> 1] \in Shared!AllRoots
    /\ Shared!Plugins \subseteq Shared!Names
BY DEF Shared!AllRoots, Shared!Roots, Shared!Names, Shared!Plugins, Called

LEMMA RegistryInit == ASSUME Shared!Init PROVE RegistryInv
<1>1. held = {[build |-> b, order |-> 1] : b \in Earlier} /\ push = [x \in Publishers |-> Shared!IdlePush]
  BY DEF Shared!Init
<1>2. held \subseteq Shared!AllRoots
  BY <1>1, BuildsOfRoots, PublishingAssumption
<1>3. TagsKept(tags, held)
  <2>1. tags = [at \in Shared!Names \X Tags |->
                  IF \E b \in Earlier : About[b].name = at[1]
                  THEN [root |-> CHOOSE r \in held : About[r.build].name = at[1], by |-> None] ELSE None]
    BY DEF Shared!Init
  <2>2. ASSUME NEW n \in Shared!Names, NEW t \in Tags, tags[<<n, t>>] # None
        PROVE  /\ tags[<<n, t>>] \in Shared!Tagged
               /\ tags[<<n, t>>].root \in held /\ Called(tags[<<n, t>>].root) = n
    <3>1. PICK b \in Earlier : About[b].name = n
      BY <2>1, <2>2
    <3>2. [build |-> b, order |-> 1] \in held
      BY <1>1
    <3>3. \E r \in held : About[r.build].name = n
      BY <3>1, <3>2
    <3>4. PICK r \in held : About[r.build].name = n /\ tags[<<n, t>>] = [root |-> r, by |-> None]
      BY <2>1, <3>1, <3>3
    <3>q. QED BY <1>2, <3>4 DEF Called, Shared!Tagged
  <2>3. tags \in [Shared!Names \X Tags -> Shared!Tagged \cup {None}]
    <3>1. \A at \in Shared!Names \X Tags : tags[at] \in Shared!Tagged \cup {None}
      BY <2>2
    <3>2. tags = [at \in Shared!Names \X Tags |-> tags[at]]
      BY <2>1
    <3>q. QED BY <3>1, <3>2
  <2>q. QED BY <2>2, <2>3 DEF TagsKept
<1>4. ASSUME NEW x \in Publishers PROVE PublishKept(push[x], x, held, tags)
  <2>1. push[x] = Shared!IdlePush
    BY <1>1
  <2>2. /\ Shared!IdlePush.step = "idle" /\ Shared!IdlePush \in AtWork
    BY DEF Shared!IdlePush, AtWork
  <2>q. QED BY <2>1, <2>2 DEF PublishKept
<1>q. QED BY <1>1, <1>2, <1>3, <1>4 DEF RegistryInv

\* What is kept of a publish is kept while artifacts and others' tags come.
LEMMA PublishStays ==
    ASSUME NEW p, NEW x, NEW there, NEW more, there \subseteq more, NEW at, NEW later,
           \A n \in Shared!Names, t \in Tags :
             /\ at[<<n, t>>] # None => later[<<n, t>>] # None
             /\ later[<<n, t>>] = at[<<n, t>>] \/ later[<<n, t>>].by # x,
           PublishKept(p, x, there, at)
    PROVE  PublishKept(p, x, more, later)
<1>1. SUFFICES ASSUME p.step # "idle", NEW i \in 1 .. Len(p.told) - Len(p.tags)
               PROVE  Led(x, p.root, p.told[i], later)
  BY DEF PublishKept
<1>2. Led(x, p.root, p.told[i], at) /\ p.root \in Shared!AllRoots /\ p.told \in Seq(Tags) /\ p.tags \in Seq(Tags)
  BY <1>1 DEF PublishKept, AtWork
<1>3. p.told[i] \in Tags /\ Called(p.root) \in Shared!Names
  <2>1. Len(p.told) \in Nat /\ Len(p.tags) \in Nat
    BY <1>2
  <2> DEFINE all == Len(p.told)
             left == Len(p.tags)
  <2>2. i \in 1 .. all - left /\ all \in Nat /\ left \in Nat
    BY <1>1, <2>1
  <2> HIDE DEF all, left
  <2>3. i \in 1 .. all
    BY <2>2
  <2>q. QED BY <1>2, <2>3, BuildsOfRoots DEF all
<1>q. QED BY <1>2, <1>3 DEF Led

\* One publish goes on, with what the registry has.
LEMMA OneGoesOn ==
    ASSUME RegistryInv, NEW x \in Publishers, NEW p, push' = [push EXCEPT ![x] = p],
           held' = held, tags' = tags, PublishKept(p, x, held, tags)
    PROVE  RegistryInv'
<1>1. \A y \in Publishers : push'[y] = IF y = x THEN p ELSE push[y]
  BY DEF RegistryInv
<1>2. \A y \in Publishers : PublishKept(push'[y], y, held', tags')
  <2>1. SUFFICES ASSUME NEW y \in Publishers PROVE PublishKept(push'[y], y, held', tags')
    OBVIOUS
  <2>2. PublishKept(push[y], y, held, tags)
    BY DEF RegistryInv
  <2>q. QED BY <1>1, <2>2
<1>3. push' = [y \in Publishers |-> push'[y]]
  BY DEF RegistryInv
<1>q. QED BY <1>2, <1>3 DEF RegistryInv

LEMMA PublishStep == ASSUME RegistryInv, NEW x \in Publishers, Shared!Publish(x) PROVE RegistryInv'
<1>1. PICK b \in Builds \ Earlier : \E root \in Shared!Roots(b), way \in Ways :
        push' = [push EXCEPT ![x] =
              [step |-> "copy", root |-> root, sign |-> way.sign, bundle |-> None,
               tags |-> <<VersionTag[About[b].version]>> \o way.more,
               told |-> <<VersionTag[About[b].version]>> \o way.more]]
  BY DEF Shared!Publish
<1>2. PICK root \in Shared!Roots(b), way \in Ways :
        push' = [push EXCEPT ![x] =
              [step |-> "copy", root |-> root, sign |-> way.sign, bundle |-> None,
               tags |-> <<VersionTag[About[b].version]>> \o way.more,
               told |-> <<VersionTag[About[b].version]>> \o way.more]]
  BY <1>1
<1> DEFINE told == <<VersionTag[About[b].version]>> \o way.more
<1>3. told \in Seq(Tags) /\ told # <<>> /\ Len(told) \in Nat
  <2>1. VersionTag[About[b].version] \in Tags /\ way.more \in Seq(Tags)
    BY PublishingAssumption
  <2>2. <<VersionTag[About[b].version]>> \in Seq(Tags) /\ Len(<<VersionTag[About[b].version]>>) = 1
    BY <2>1
  <2> DEFINE first == <<VersionTag[About[b].version]>>
  <2> HIDE DEF first
  <2>3. first \o way.more \in Seq(Tags) /\ Len(first \o way.more) = Len(first) + Len(way.more)
    BY <2>1, <2>2 DEF first
  <2>4. Len(first \o way.more) # 0
    BY <2>1, <2>2, <2>3 DEF first
  <2>5. told = first \o way.more
    BY DEF first
  <2> HIDE DEF told
  <2>q. QED BY <2>3, <2>4, <2>5
<1> HIDE DEF told
<1>4. root \in Shared!AllRoots /\ way.sign \in BOOLEAN
  BY BuildsOfRoots, PublishingAssumption
<1> DEFINE p == [step |-> "copy", root |-> root, sign |-> way.sign, bundle |-> None, tags |-> told, told |-> told]
<1>5. PublishKept(p, x, held, tags)
  <2>1. p \in AtWork
    BY <1>3, <1>4 DEF AtWork
  <2>2. p.step = "copy" /\ p.root = root /\ p.tags = told /\ p.told = told
    OBVIOUS
  <2> HIDE DEF p
  <2>q. QED BY <1>3, <1>4, <2>1, <2>2 DEF PublishKept
<1>6. push' = [push EXCEPT ![x] = p] /\ held' = held /\ tags' = tags
  BY <1>2 DEF Shared!Publish, told
<1> HIDE DEF p
<1>q. QED BY <1>5, <1>6, OneGoesOn

LEMMA CopyStep == ASSUME RegistryInv, NEW x \in Publishers, Shared!CopyContent(x) PROVE RegistryInv'
<1> DEFINE q == [push[x] EXCEPT !.step = "tag"]
<1>1. /\ push[x].step = "copy" /\ held' = held \cup {push[x].root} /\ tags' = tags
      /\ push' = [push EXCEPT ![x] = q]
  BY DEF Shared!CopyContent
<1>2. PublishKept(push[x], x, held, tags) /\ push[x] \in AtWork /\ push[x].root \in Shared!AllRoots
  BY <1>1 DEF RegistryInv, PublishKept
<1>3. /\ q \in AtWork /\ q.step = "tag" /\ q.root = push[x].root /\ q.tags = push[x].tags
      /\ q.told = push[x].told
  BY <1>2 DEF AtWork
<1> HIDE DEF q
<1>4. PublishKept(q, x, held', tags')
  BY <1>1, <1>2, <1>3 DEF PublishKept
<1>5. \A y \in Publishers : PublishKept(push'[y], y, held', tags')
  <2>1. SUFFICES ASSUME NEW y \in Publishers, y # x PROVE PublishKept(push'[y], y, held', tags')
    BY <1>1, <1>4 DEF RegistryInv
  <2>2. PublishKept(push[y], y, held, tags) /\ push'[y] = push[y]
    BY <1>1, <2>1 DEF RegistryInv
  <2>3. held \subseteq held'
    BY <1>1
  <2>4. PublishKept(push[y], y, held', tags)
    BY <2>2, <2>3, PublishStays
  <2>q. QED BY <1>1, <2>2, <2>4
<1>6. TagsKept(tags', held') /\ held' \subseteq Shared!AllRoots
  BY <1>1, <1>2 DEF RegistryInv, TagsKept
<1>7. push' = [y \in Publishers |-> push'[y]]
  BY <1>1 DEF RegistryInv
<1>q. QED BY <1>5, <1>6, <1>7 DEF RegistryInv

\* The last ones of u, without the first of them.
LEMMA LastOnes ==
    ASSUME NEW S, NEW s \in Seq(S), s # <<>>, NEW u \in Seq(S), Len(s) <= Len(u),
           \A i \in 1 .. Len(s) : s[i] = u[Len(u) - Len(s) + i]
    PROVE  /\ \A i \in 1 .. Len(u) - Len(Tail(s)) : i \in 1 .. Len(u) - Len(s) \/ u[i] = Head(s)
           /\ \A i \in 1 .. Len(Tail(s)) : Tail(s)[i] = u[Len(u) - Len(Tail(s)) + i]
<1>1. /\ Len(s) \in Nat \ {0} /\ Len(u) \in Nat /\ Len(Tail(s)) = Len(s) - 1 /\ Head(s) = s[1]
      /\ \A i \in 1 .. Len(Tail(s)) : Tail(s)[i] = s[i + 1]
  OBVIOUS
<1>2. ASSUME NEW i \in 1 .. Len(u) - Len(Tail(s)), i \notin 1 .. Len(u) - Len(s) PROVE u[i] = Head(s)
  <2> DEFINE k == Len(u) - Len(s)
  <2>3. k \in Nat /\ Len(u) - Len(Tail(s)) = k + 1
    BY <1>1
  <2> HIDE DEF k
  <2>4. i = k + 1
    BY <1>2, <2>3 DEF k
  <2>1. i = Len(u) - Len(s) + 1 /\ 1 \in 1 .. Len(s)
    BY <1>1, <2>4 DEF k
  <2>2. s[1] = u[Len(u) - Len(s) + 1]
    BY <2>1
  <2>q. QED BY <1>1, <2>1, <2>2
<1>3. ASSUME NEW i \in 1 .. Len(Tail(s)) PROVE Tail(s)[i] = u[Len(u) - Len(Tail(s)) + i]
  <2>1. i + 1 \in 1 .. Len(s) /\ Len(u) - Len(Tail(s)) + i = Len(u) - Len(s) + (i + 1)
    BY <1>1, <1>3
  <2>2. s[i + 1] = u[Len(u) - Len(s) + (i + 1)]
    BY <2>1
  <2>q. QED BY <1>1, <1>3, <2>1, <2>2
<1>q. QED BY <1>2, <1>3

LEMMA TagStep == ASSUME RegistryInv, NEW x \in Publishers, Shared!PushTag(x) PROVE RegistryInv'
<1> DEFINE p == push[x]
           t == Head(p.tags)
           rest == Tail(p.tags)
           step == IF rest # <<>> THEN "tag" ELSE IF p.sign THEN "sign" ELSE "done"
           entry == [root |-> p.root, by |-> x]
           q == [p EXCEPT !.tags = rest, !.step = step]
<1>1. /\ p.step = "tag" /\ held' = held
      /\ tags' = [tags EXCEPT ![<<Called(p.root), t>>] = entry]
      /\ push' = [push EXCEPT ![x] = q]
  BY DEF Shared!PushTag, Shared!TagRoot, Called
<1>2. /\ PublishKept(p, x, held, tags) /\ p \in AtWork /\ p.root \in Shared!AllRoots /\ p.root \in held
      /\ p.tags # <<>> /\ p.tags \in Seq(Tags) /\ p.told \in Seq(Tags) /\ Len(p.tags) <= Len(p.told)
      /\ \A i \in 1 .. Len(p.tags) : p.tags[i] = p.told[Len(p.told) - Len(p.tags) + i]
      /\ \A i \in 1 .. Len(p.told) - Len(p.tags) : Led(x, p.root, p.told[i], tags)
  BY <1>1 DEF RegistryInv, PublishKept, AtWork
<1>3. /\ t \in Tags /\ t = p.tags[1] /\ rest \in Seq(Tags) /\ Len(rest) = Len(p.tags) - 1
      /\ \A i \in 1 .. Len(rest) : rest[i] = p.tags[i + 1]
      /\ Len(p.tags) \in Nat \ {0} /\ Len(p.told) \in Nat
  BY <1>2
<1>4. entry \in Shared!Tagged /\ entry # None /\ Called(p.root) \in Shared!Names
  BY <1>2, PublishingAssumption, BuildsOfRoots DEF Shared!Tagged
<1>5. step \in {"tag", "sign", "done"}
  OBVIOUS
<1>6. /\ q \in AtWork /\ q.step = step /\ q.root = p.root /\ q.tags = rest /\ q.told = p.told
      /\ q.sign = p.sign
  BY <1>2, <1>3, <1>5 DEF AtWork
<1> HIDE DEF p, q
<1>7. TagsKept(tags', held')
  <2>1. tags \in [Shared!Names \X Tags -> Shared!Tagged \cup {None}]
    BY DEF RegistryInv, TagsKept
  <2>2. tags' \in [Shared!Names \X Tags -> Shared!Tagged \cup {None}]
    BY <1>1, <1>3, <1>4, <2>1
  <2>3. ASSUME NEW n \in Shared!Names, NEW s \in Tags, tags'[<<n, s>>] # None
        PROVE  tags'[<<n, s>>].root \in held' /\ Called(tags'[<<n, s>>].root) = n
    <3>1. CASE n = Called(p.root) /\ s = t
      <4>1. tags'[<<n, s>>] = entry
        BY <1>1, <1>3, <1>4, <2>1, <3>1
      <4>q. QED BY <1>1, <1>2, <3>1, <4>1
    <3>2. CASE ~(n = Called(p.root) /\ s = t)
      <4>1. tags'[<<n, s>>] = tags[<<n, s>>]
        BY <1>1, <2>1, <3>2
      <4>q. QED BY <1>1, <2>3, <4>1 DEF RegistryInv, TagsKept
    <3>q. QED BY <3>1, <3>2
  <2>q. QED BY <2>2, <2>3 DEF TagsKept
<1>8. \A n \in Shared!Names, s \in Tags :
        tags'[<<n, s>>] = IF n = Called(p.root) /\ s = t THEN entry ELSE tags[<<n, s>>]
  BY <1>1 DEF RegistryInv, TagsKept
<1>9. PublishKept(q, x, held', tags')
  <2>1. \A s \in Tags : Led(x, p.root, s, tags) \/ s = t => Led(x, p.root, s, tags')
    BY <1>4, <1>8 DEF Led
  <2>0. /\ \A i \in 1 .. Len(p.told) - Len(rest) : i \in 1 .. Len(p.told) - Len(p.tags) \/ p.told[i] = t
        /\ \A i \in 1 .. Len(rest) : rest[i] = p.told[Len(p.told) - Len(rest) + i]
    <3>1. /\ p.tags # <<>> /\ p.tags \in Seq(Tags) /\ p.told \in Seq(Tags) /\ Len(p.tags) <= Len(p.told)
          /\ \A i \in 1 .. Len(p.tags) : p.tags[i] = p.told[Len(p.told) - Len(p.tags) + i]
      BY <1>2
    <3> DEFINE left == p.tags
               all == p.told
    <3>2. /\ left # <<>> /\ left \in Seq(Tags) /\ all \in Seq(Tags) /\ Len(left) <= Len(all)
          /\ \A i \in 1 .. Len(left) : left[i] = all[Len(all) - Len(left) + i]
      BY <3>1
    <3> HIDE DEF left, all
    <3>3. /\ \A i \in 1 .. Len(all) - Len(Tail(left)) : i \in 1 .. Len(all) - Len(left) \/ all[i] = Head(left)
          /\ \A i \in 1 .. Len(Tail(left)) : Tail(left)[i] = all[Len(all) - Len(Tail(left)) + i]
      BY <3>2, LastOnes
    <3>q. QED BY <3>3 DEF left, all
  <2>2. \A i \in 1 .. Len(p.told) - Len(rest) : Led(x, p.root, p.told[i], tags) \/ p.told[i] = t
    BY <1>2, <2>0
  <2>3. \A i \in 1 .. Len(p.told) - Len(rest) : Led(x, p.root, p.told[i], tags') /\ p.told[i] \in Tags
    BY <1>2, <1>3, <2>1, <2>2
  <2>4. \A i \in 1 .. Len(rest) : rest[i] = p.told[Len(p.told) - Len(rest) + i]
    BY <2>0
  <2>5. (step = "tag" => rest # <<>>) /\ (step \in {"sign", "done"} => rest = <<>>) /\ step # "copy" /\ step # "idle"
        /\ (step = "done" => ~p.sign)
    OBVIOUS
  <2>6. Len(rest) <= Len(p.told)
    BY <1>2, <1>3
  <2> HIDE DEF step, rest, t
  <2>q. QED BY <1>1, <1>2, <1>6, <2>3, <2>4, <2>5, <2>6 DEF PublishKept
<1>10. \A y \in Publishers : PublishKept(push'[y], y, held', tags')
  <2>1. SUFFICES ASSUME NEW y \in Publishers, y # x PROVE PublishKept(push'[y], y, held', tags')
    BY <1>1, <1>9 DEF RegistryInv
  <2>2. PublishKept(push[y], y, held, tags) /\ push'[y] = push[y]
    BY <1>1, <2>1 DEF RegistryInv
  <2>3. \A n \in Shared!Names, s \in Tags :
          /\ tags[<<n, s>>] # None => tags'[<<n, s>>] # None
          /\ tags'[<<n, s>>] = tags[<<n, s>>] \/ tags'[<<n, s>>].by # y
    <3>1. entry.by = x
      OBVIOUS
    <3> HIDE DEF entry
    <3>q. QED BY <1>4, <1>8, <2>1, <3>1
  <2>4. PublishKept(push[y], y, held, tags')
    BY <2>2, <2>3, PublishStays
  <2>q. QED BY <1>1, <2>2, <2>4
<1>11. push' = [y \in Publishers |-> push'[y]]
  BY <1>1 DEF RegistryInv
<1>q. QED BY <1>1, <1>7, <1>10, <1>11 DEF RegistryInv

LEMMA SignStep == ASSUME RegistryInv, NEW x \in Publishers, Shared!SignArtifact(x) PROVE RegistryInv'
<1> DEFINE q == [push[x] EXCEPT !.step = "done", !.bundle = push[x].root]
<1>1. push[x].step = "sign" /\ held' = held /\ tags' = tags /\ push' = [push EXCEPT ![x] = q]
  BY DEF Shared!SignArtifact
<1>2. PublishKept(push[x], x, held, tags) /\ push[x] \in AtWork
  BY DEF RegistryInv, PublishKept
<1>3. /\ q \in AtWork /\ q.step = "done" /\ q.root = push[x].root /\ q.tags = push[x].tags
      /\ q.told = push[x].told /\ q.bundle = push[x].root
  BY <1>2 DEF AtWork
<1> HIDE DEF q
<1>4. PublishKept(q, x, held, tags)
  BY <1>1, <1>2, <1>3 DEF PublishKept
<1>q. QED BY <1>1, <1>4, OneGoesOn

LEMMA FailStep == ASSUME RegistryInv, NEW x \in Publishers, Shared!PublishFails(x) PROVE RegistryInv'
<1>1. held' = held /\ tags' = tags /\ push' = [push EXCEPT ![x] = Shared!IdlePush]
  BY DEF Shared!PublishFails
<1>2. Shared!IdlePush.step = "idle" /\ Shared!IdlePush \in AtWork
  BY DEF Shared!IdlePush, AtWork
<1>3. PublishKept(Shared!IdlePush, x, held, tags)
  BY <1>2 DEF PublishKept
<1>q. QED BY <1>1, <1>3, OneGoesOn

LEMMA RegistryStep ==
    ASSUME RegistryInv, NEW x \in Publishers,
           \/ Shared!Publish(x) \/ Shared!CopyContent(x) \/ Shared!PushTag(x)
           \/ Shared!SignArtifact(x) \/ Shared!PublishFails(x)
    PROVE  RegistryInv' /\ held \subseteq held' /\ UNCHANGED <<installed, lock, cmd, commands, moved, policy>>
<1>1. held \subseteq held' /\ UNCHANGED <<installed, lock, cmd, commands, moved, policy>>
  BY DEF Shared!Publish, Shared!CopyContent, Shared!PushTag, Shared!SignArtifact, Shared!PublishFails, Shared!machine
<1>q. QED BY <1>1, PublishStep, CopyStep, TagStep, SignStep, FailStep

-----------------------------------------------------------------------------
(* The machine and what is installed there. *)

Reference == {Shared!AtTag(t) : t \in Tags} \cup {Shared!AtDigest(root) : root \in Shared!AllRoots}
Wanted == [name : Shared!Plugins, at : Reference, force : BOOLEAN, optional : BOOLEAN]
AnyFiles == SUBSET UNION {About[b].files : b \in Builds}
AnyCommand == [kind : {"none", "install", "workspace", "files", "setup"},
               step : {"idle", "open", "pull", "copy", "done"}, queue : Seq(Wanted),
               seen : Shared!AllRoots \cup {None}, skip : BOOLEAN, platform : Shared!Platforms,
               root : Shared!AllRoots \cup {None}, dir : AnyFiles]

\* A note i of plugin n, gone when its tag moved while it was installed.
NoteKept(i, n, pol, there, gone) ==
    /\ i \in Shared!Note /\ About[i.build].name = n
    /\ ~i.local =>
         /\ i.digest \in there /\ Called(i.digest) = n
         /\ i.platform \in Shared!ResolvePlatform(i.build, i.noted)
         /\ Shared!VerifyArtifact(pol, Path[n], i.skipped).ok
         /\ ~gone => i.digest.build = i.build
    /\ i.local => i.digest = None

\* An entry l of the lock file for plugin n.
EntryKept(l, n, there) ==
    l.digest # None =>
        /\ l.digest \in there /\ Called(l.digest) = n
        /\ ~l.moved => l.digest.build = l.build

InstalledInv ==
    /\ installed = [n \in Shared!Plugins |-> installed[n]] /\ moved \subseteq Shared!Plugins
    /\ \A n \in Shared!Plugins :
         installed[n] # None => NoteKept(installed[n], n, policy, held, n \in moved)
    /\ lock # None =>
         DOMAIN lock \subseteq Shared!Plugins /\ \A n \in DOMAIN lock : EntryKept(lock[n], n, held)

\* What a command has still to install.
QueueKept(q, there) ==
    \A i \in 1 .. Len(q) :
        q[i].at.root # None => q[i].at.root \in there /\ Called(q[i].at.root) = q[i].name

\* What it found for the first of them.
AheadKept(c, pol, there) ==
    c.step = "copy" =>
        /\ c.queue # <<>> /\ c.seen \in there /\ Called(c.seen) = c.queue[1].name
        /\ c.queue[1].at.root # None => c.seen = c.queue[1].at.root
        /\ Shared!VerifyArtifact(pol, Path[c.queue[1].name], c.skip).ok

\* Plugin note i is what the digest of entry l of a lock file stands for.
AsLocked(l, i) ==
    i # None /\ ~i.local /\ i.build = l.digest.build /\ i.platform \in Shared!ResolvePlatform(i.build, Host)

Loads(l) == l # None /\ \A n \in DOMAIN l : l[n].digest # None

\* A setup from lock file l: what is not as it says is still to come.
SetupKept(c, l, notes) ==
    c.kind = "setup" =>
        /\ c.step \in {"pull", "copy", "done"} /\ Loads(l) /\ c.platform = Host
        /\ c.step # "done" =>
             \A i \in 1 .. Len(c.queue) :
                  /\ c.queue[i].name \in DOMAIN l /\ c.queue[i].at = Shared!Pinned(l[c.queue[i].name])
                  /\ c.queue[i].force /\ ~c.queue[i].optional
        /\ \A n \in DOMAIN l :
             AsLocked(l[n], notes[n]) \/ \E i \in 1 .. Len(c.queue) : c.queue[i].name = n

\* A workspace: its files are there, and what it needs or is still to come.
SpaceKept(c, notes) ==
    c.kind \in {"workspace", "files"} =>
        /\ c.root \in Shared!AllRoots
        /\ c.step # "open" =>
             /\ Shared!BundleOf(c.root.build) \subseteq c.dir
             /\ c.kind = "workspace" =>
                  \A i \in DOMAIN About[c.root.build].deps :
                    LET dep == About[c.root.build].deps[i]
                    IN  \/ dep.optional \/ notes[dep.name] # None
                        \/ \E j \in 1 .. Len(c.queue) : c.queue[j].name = dep.name /\ ~c.queue[j].optional

CommandKept(c, l, notes, pol, there) ==
    /\ c \in AnyCommand
    /\ c.step = "open" => c.kind \in {"workspace", "files"}
    /\ c.step = "done" => c.queue = <<>>
    /\ QueueKept(c.queue, there) /\ AheadKept(c, pol, there)
    /\ SetupKept(c, l, notes) /\ SpaceKept(c, notes)

MachineInv == InstalledInv /\ CommandKept(cmd, lock, installed, policy, held)

LEMMA MachineStays ==
    ASSUME MachineInv, held \subseteq held', UNCHANGED <<installed, lock, cmd, commands, moved, policy>>
    PROVE  MachineInv'
<1>1. InstalledInv'
  BY DEF MachineInv, InstalledInv, NoteKept, EntryKept
<1>2. QueueKept(cmd.queue, held')
  BY DEF MachineInv, CommandKept, QueueKept
<1>3. AheadKept(cmd, policy, held')
  BY DEF MachineInv, CommandKept, AheadKept
<1>q. QED BY <1>1, <1>2, <1>3 DEF MachineInv, CommandKept

\* When no command runs nothing is to come.
LEMMA IdleKept ==
    ASSUME NEW l, NEW notes, NEW pol, NEW there PROVE CommandKept(Shared!IdleCmd, l, notes, pol, there)
<1> DEFINE c == Shared!IdleCmd
<1>1. c \in AnyCommand /\ c.kind = "none" /\ c.step = "idle" /\ c.queue = <<>>
  BY DEF Shared!IdleCmd, AnyCommand, AnyFiles, Shared!Platforms
<1> HIDE DEF c
<1>2. QueueKept(c.queue, there)
  BY <1>1 DEF QueueKept
<1>q. QED BY <1>1, <1>2 DEF CommandKept, AheadKept, SetupKept, SpaceKept, c

LEMMA MachineInit == ASSUME Shared!Init PROVE MachineInv
<1>1. /\ installed = [n \in Shared!Plugins |-> None] /\ lock = None /\ cmd = Shared!IdleCmd /\ moved = {}
  BY DEF Shared!Init
<1>2. InstalledInv
  BY <1>1 DEF InstalledInv
<1>q. QED BY <1>1, <1>2, IdleKept DEF MachineInv

-----------------------------------------------------------------------------
(* What single commands do. *)

LEMMA Records ==
    /\ \A t \in Tags : Shared!AtTag(t) \in Reference /\ Shared!AtTag(t).root = None
    /\ \A root \in Shared!AllRoots : Shared!AtDigest(root) \in Reference /\ Shared!AtDigest(root).root = root
    /\ \A q \in Seq(Wanted) : q # <<>> =>
         /\ Head(q) = q[1] /\ Head(q) \in Wanted /\ Tail(q) \in Seq(Wanted) /\ Len(q) \in Nat \ {0}
         /\ Len(Tail(q)) = Len(q) - 1 /\ \A i \in 1 .. Len(Tail(q)) : Tail(q)[i] = q[i + 1]
BY DEF Reference, Shared!AtTag, Shared!AtDigest

\* What the registry finds is there, under the name that was asked for.
LEMMA Found ==
    ASSUME RegistryInv, NEW n \in Shared!Names, NEW at \in Reference,
           at.root # None => at.root \in held /\ Called(at.root) = n,
           Shared!Resolve(n, at) # None
    PROVE  LET root == Shared!Resolve(n, at)
           IN  root \in held /\ Called(root) = n /\ (at.root # None => root = at.root)
<1>1. CASE at.root # None
  BY <1>1 DEF Shared!Resolve
<1>2. CASE at.root = None
  <2>1. at.tag # None /\ tags[<<n, at.tag>>] # None /\ Shared!Resolve(n, at) = tags[<<n, at.tag>>].root
    BY <1>2 DEF Shared!Resolve
  <2>2. at.tag \in Tags
    BY <1>2, <2>1 DEF Reference, Shared!AtTag, Shared!AtDigest
  <2>q. QED BY <1>2, <2>1, <2>2 DEF RegistryInv, TagsKept
<1>q. QED BY <1>1, <1>2

\* What is taken of an artifact is for the platform that is wanted, or all
\* there is.
LEMMA OwnPlatform ==
    ASSUME NEW b \in Builds, NEW wanted, NEW x \in Shared!ResolvePlatform(b, wanted)
    PROVE  /\ x \in Shared!Platforms
           /\ x = wanted \/ About[b].platforms = {x}
           /\ Shared!Cardinality(About[b].platforms) # 1 => x = wanted
<1>1. x \in About[b].platforms /\ x \in Shared!Platforms
  BY DEF Shared!ResolvePlatform, Shared!Platforms
<1>2. CASE Shared!Cardinality(About[b].platforms) = 1
  <2>1. Cardinality(About[b].platforms) = 1 /\ IsFiniteSet(About[b].platforms)
    <3>1. Shared!Cardinality(About[b].platforms) = Cardinality(About[b].platforms)
      BY Zenon DEF Shared!Cardinality, Cardinality
    <3>q. QED BY <1>2, <3>1, PublishingAssumption
  <2>2. PICK z : About[b].platforms = {z}
    BY <2>1, FS_Singleton
  <2>q. QED BY <1>1, <1>2, <2>2
<1>3. CASE Shared!Cardinality(About[b].platforms) # 1
  BY <1>1, <1>3 DEF Shared!ResolvePlatform
<1>q. QED BY <1>2, <1>3

\* The command goes on to the next plugin.
LEMMA NextKept ==
    ASSUME NEW c, NEW l, NEW notes, NEW later, NEW pol, NEW there,
           CommandKept(c, l, notes, pol, there), c.queue # <<>>, c.step \in {"pull", "copy"},
           \A n \in Shared!Plugins : n # c.queue[1].name => later[n] = notes[n],
           l # None => DOMAIN l \subseteq Shared!Plugins,
           \A n \in Shared!Plugins : notes[n] # None => later[n] # None,
           c.queue[1].optional \/ later[c.queue[1].name] # None,
           c.kind = "setup" => AsLocked(l[c.queue[1].name], later[c.queue[1].name])
    PROVE  CommandKept([c EXCEPT !.step = "pull", !.queue = Tail(@)], l, later, pol, there)
<1> DEFINE d == [c EXCEPT !.step = "pull", !.queue = Tail(@)]
           q == c.queue
           r == Tail(q)
<1>1. c \in AnyCommand /\ q \in Seq(Wanted) /\ q # <<>>
  BY DEF CommandKept, AnyCommand
<1>2. /\ q[1] = Head(q) /\ q[1] \in Wanted /\ r \in Seq(Wanted) /\ Len(q) \in Nat \ {0}
      /\ Len(r) = Len(q) - 1 /\ \A i \in 1 .. Len(r) : r[i] = q[i + 1]
  BY <1>1, Records
<1>3. /\ d \in AnyCommand /\ d.step = "pull" /\ d.queue = r /\ d.kind = c.kind /\ d.root = c.root /\ d.dir = c.dir
      /\ d.platform = c.platform
  BY <1>1, <1>2 DEF AnyCommand
<1>4. \A i \in 1 .. Len(r) : i + 1 \in 1 .. Len(q) /\ r[i] = q[i + 1]
  BY <1>2
<1>5. \A i \in 1 .. Len(q) : i # 1 => i - 1 \in 1 .. Len(r) /\ r[i - 1] = q[i]
  <2>1. SUFFICES ASSUME NEW i \in 1 .. Len(q), i # 1 PROVE i - 1 \in 1 .. Len(r) /\ r[i - 1] = q[i]
    OBVIOUS
  <2>2. i - 1 \in 1 .. Len(r) /\ (i - 1) + 1 = i
    <3>1. Len(q) \in Nat \ {0} /\ Len(r) = Len(q) - 1
      BY <1>2
    <3> HIDE DEF q, r
    <3>q. QED BY <2>1, <3>1
  <2>q. QED BY <1>4, <2>2
<1> HIDE DEF d, r
<1>6. QueueKept(r, there)
  BY <1>4 DEF QueueKept, CommandKept
<1>7. SetupKept(d, l, later)
  <2>1. SUFFICES ASSUME c.kind = "setup" PROVE SetupKept(d, l, later)
    BY <1>3 DEF SetupKept
  <2>2. /\ Loads(l) /\ c.platform = Host /\ l # None /\ DOMAIN l \subseteq Shared!Plugins
        /\ \A i \in 1 .. Len(q) :
             q[i].name \in DOMAIN l /\ q[i].at = Shared!Pinned(l[q[i].name]) /\ q[i].force /\ ~q[i].optional
        /\ \A n \in DOMAIN l : AsLocked(l[n], notes[n]) \/ \E i \in 1 .. Len(q) : q[i].name = n
    BY <2>1 DEF CommandKept, SetupKept, Loads
  <2>3. \A i \in 1 .. Len(r) :
          r[i].name \in DOMAIN l /\ r[i].at = Shared!Pinned(l[r[i].name]) /\ r[i].force /\ ~r[i].optional
    BY <1>4, <2>2
  <2>4. ASSUME NEW n \in DOMAIN l PROVE AsLocked(l[n], later[n]) \/ \E i \in 1 .. Len(r) : r[i].name = n
    <3>1. CASE n = q[1].name
      BY <2>1, <3>1
    <3>2. CASE n # q[1].name
      <4>1. later[n] = notes[n]
        BY <2>2, <2>4, <3>2
      <4>2. CASE \E i \in 1 .. Len(q) : q[i].name = n
        <5>1. PICK i \in 1 .. Len(q) : q[i].name = n
          BY <4>2
        <5>2. i - 1 \in 1 .. Len(r) /\ r[i - 1].name = n
          BY <1>5, <3>2, <5>1
        <5>3. PICK j : j = i - 1
          OBVIOUS
        <5>4. j \in 1 .. Len(r) /\ r[j].name = n
          BY <5>2, <5>3
        <5>q. QED BY <5>4
      <4>q. QED BY <2>2, <2>4, <4>1, <4>2
    <3>q. QED BY <3>1, <3>2
  <2>5. \A n \in DOMAIN l : AsLocked(l[n], later[n]) \/ \E i \in 1 .. Len(r) : r[i].name = n
    BY <2>4
  <2>q. QED BY <1>3, <2>2, <2>3, <2>5 DEF SetupKept
<1>8. SpaceKept(d, later)
  <2>1. SUFFICES ASSUME c.kind \in {"workspace", "files"} PROVE SpaceKept(d, later)
    BY <1>3 DEF SpaceKept
  <2>2. c.root \in Shared!AllRoots /\ Shared!BundleOf(c.root.build) \subseteq c.dir
    BY <2>1 DEF CommandKept, SpaceKept
  <2> DEFINE deps == About[c.root.build].deps
  <2>3. ASSUME c.kind = "workspace", NEW i \in DOMAIN deps
        PROVE  \/ deps[i].optional \/ later[deps[i].name] # None
               \/ \E j \in 1 .. Len(r) : r[j].name = deps[i].name /\ ~r[j].optional
    <3>0. deps[i].name \in Shared!Plugins
      <4>1. deps \in Seq(Shared!Dependency)
        BY <2>2, BuildsOfRoots, PublishingAssumption
      <4>2. deps[i] \in Shared!Dependency
        BY <2>3, <4>1
      <4>q. QED BY <4>2 DEF Shared!Dependency
    <3>1. \/ deps[i].optional \/ notes[deps[i].name] # None
          \/ \E j \in 1 .. Len(q) : q[j].name = deps[i].name /\ ~q[j].optional
      BY <2>1, <2>3 DEF CommandKept, SpaceKept
    <3>2. CASE \E j \in 1 .. Len(q) : q[j].name = deps[i].name /\ ~q[j].optional
      <4>1. PICK j \in 1 .. Len(q) : q[j].name = deps[i].name /\ ~q[j].optional
        BY <3>2
      <4>2. CASE j = 1
        BY <4>1, <4>2
      <4>3. CASE j # 1
        <5>1. j - 1 \in 1 .. Len(r) /\ r[j - 1] = q[j]
          BY <1>5, <4>3
        <5>q. QED BY <4>1, <5>1
      <4>q. QED BY <4>2, <4>3
    <3>q. QED BY <3>0, <3>1, <3>2
  <2>q. QED BY <1>3, <2>2, <2>3 DEF SpaceKept
<1>q. QED BY <1>3, <1>6, <1>7, <1>8 DEF CommandKept, AheadKept, d

\* A plugin is put in place with a note about it.
LEMMA NotesKept ==
    ASSUME InstalledInv, NEW n \in Shared!Plugins, NEW i, NEW gone \in BOOLEAN,
           NoteKept(i, n, policy, held, gone), installed' = [installed EXCEPT ![n] = i],
           moved' = IF gone THEN moved \cup {n} ELSE moved \ {n},
           lock' = lock, held' = held, policy' = policy
    PROVE  /\ InstalledInv' /\ installed'[n] = i /\ i # None
           /\ \A m \in Shared!Plugins : m # n => installed'[m] = installed[m]
<1>1. /\ installed'[n] = i /\ \A m \in Shared!Plugins : m # n => installed'[m] = installed[m]
      /\ installed' = [m \in Shared!Plugins |-> installed'[m]]
  BY DEF InstalledInv
<1>2. i # None
  BY PublishingAssumption DEF NoteKept
<1>3. ASSUME NEW m \in Shared!Plugins, installed'[m] # None
      PROVE  NoteKept(installed'[m], m, policy, held, m \in moved')
  <2>1. CASE m = n
    <3>1. (m \in moved') = gone
      BY <2>1
    <3>q. QED BY <1>1, <2>1, <3>1
  <2>2. CASE m # n
    <3>1. (m \in moved') = (m \in moved) /\ installed'[m] = installed[m]
      BY <1>1, <1>3, <2>2
    <3>q. QED BY <1>3, <3>1 DEF InstalledInv
  <2>q. QED BY <2>1, <2>2
<1>4. moved' \subseteq Shared!Plugins
  BY DEF InstalledInv
<1>q. QED BY <1>1, <1>2, <1>3, <1>4 DEF InstalledInv

LEMMA InstallStep == ASSUME MachineInv, Shared!Install PROVE MachineInv'
<1>1. PICK n \in Shared!Plugins, t \in Tags, flags \in Flags :
        cmd' = [kind |-> "install", step |-> "pull",
                queue |-> <<[name |-> n, at |-> Shared!AtTag(t), force |-> flags.force, optional |-> FALSE]>>,
                seen |-> None, skip |-> flags.skip, platform |-> Shared!EffectivePlatform(flags.platform),
                root |-> None, dir |-> {}]
  BY DEF Shared!Install, Shared!Start
<1>2. /\ held' = held /\ installed' = installed /\ lock' = lock /\ policy' = policy /\ moved' = moved
  BY DEF Shared!Install, Shared!registry
<1> DEFINE w == [name |-> n, at |-> Shared!AtTag(t), force |-> flags.force, optional |-> FALSE]
           platform == Shared!EffectivePlatform(flags.platform)
<1>3. w \in Wanted /\ w.at.root = None /\ flags.skip \in BOOLEAN
  BY PublishingAssumption, Records DEF Wanted
<1>4. cmd' = [kind |-> "install", step |-> "pull", queue |-> <<w>>,
              seen |-> None, skip |-> flags.skip, platform |-> platform, root |-> None, dir |-> {}]
  BY <1>1
<1>10. platform \in Shared!Platforms
  BY PublishingAssumption DEF Shared!EffectivePlatform, Shared!Platforms
<1> HIDE DEF w, platform
<1>5. <<w>> \in Seq(Wanted) /\ Len(<<w>>) = 1 /\ <<w>>[1] = w
  BY <1>3
<1>6. cmd'.kind = "install" /\ cmd'.step = "pull" /\ cmd'.queue = <<w>>
  BY <1>4
<1>7. cmd' \in AnyCommand
  BY <1>3, <1>4, <1>5, <1>10 DEF AnyCommand, AnyFiles
<1>8. QueueKept(cmd'.queue, held)
  BY <1>3, <1>5, <1>6 DEF QueueKept
<1>9. CommandKept(cmd', lock, installed, policy, held)
  BY <1>6, <1>7, <1>8 DEF CommandKept, AheadKept, SetupKept, SpaceKept
<1>q. QED BY <1>2, <1>9 DEF MachineInv, InstalledInv

LEMMA LocalStep == ASSUME MachineInv, Shared!InstallLocal PROVE MachineInv'
<1>1. PICK b \in Builds \ Earlier :
        /\ About[b].kind = "plugin" /\ Host \in About[b].platforms
        /\ installed' = [installed EXCEPT ![About[b].name] =
              [digest |-> None, build |-> b, platform |-> Host, noted |-> Host, skipped |-> FALSE,
               local |-> TRUE]]
        /\ moved' = moved \ {About[b].name}
  BY DEF Shared!InstallLocal
<1>2. held' = held /\ lock' = lock /\ policy' = policy /\ cmd' = Shared!IdleCmd
  BY DEF Shared!InstallLocal, Shared!registry
<1> DEFINE n == About[b].name
           i == [digest |-> None, build |-> b, platform |-> Host, noted |-> Host, skipped |-> FALSE,
                 local |-> TRUE]
<1>3. n \in Shared!Plugins
  BY <1>1 DEF Shared!Plugins, Shared!Names
<1>4. i \in Shared!Note /\ About[i.build].name = n /\ i.local = TRUE /\ i.digest = None
  BY <1>1 DEF Shared!Note, Shared!Platforms
<1> HIDE DEF i
<1>5. NoteKept(i, n, policy, held, FALSE)
  BY <1>4 DEF NoteKept
<1>6. installed' = [installed EXCEPT ![n] = i]
  BY <1>1 DEF i
<1> HIDE DEF n
<1>7. /\ InstalledInv' /\ installed'[n] = i /\ i # None
      /\ \A m \in Shared!Plugins : m # n => installed'[m] = installed[m]
  <2>1. moved' = moved \ {n} /\ InstalledInv /\ policy' = policy
    BY <1>1, <1>2 DEF MachineInv, n, Shared!InstallLocal, Shared!registry
  <2>q. QED BY <1>2, <1>3, <1>5, <1>6, <2>1, NotesKept
<1>q. QED BY <1>2, <1>7, IdleKept DEF MachineInv

LEMMA ResolveStep == ASSUME RegistryInv, MachineInv, Shared!ResolveRoot PROVE MachineInv'
<1> DEFINE w == Head(cmd.queue)
           root == Shared!Resolve(w.name, w.at)
           d == [cmd EXCEPT !.step = "copy", !.seen = root]
<1>1. /\ cmd.step = "pull" /\ cmd.queue # <<>>
      /\ Shared!VerifyArtifact(policy, Path[w.name], cmd.skip).ok
      /\ root # None /\ cmd' = d
      /\ held' = held /\ installed' = installed /\ lock' = lock /\ policy' = policy /\ moved' = moved
  BY DEF Shared!ResolveRoot, Shared!Ahead, Shared!registry
<1>2. CommandKept(cmd, lock, installed, policy, held) /\ cmd \in AnyCommand /\ cmd.queue \in Seq(Wanted)
  BY DEF MachineInv, CommandKept, AnyCommand
<1>3. w = cmd.queue[1] /\ w \in Wanted /\ 1 \in 1 .. Len(cmd.queue)
  BY <1>1, <1>2, Records
<1>4. w.name \in Shared!Plugins /\ w.at \in Reference /\ (w.at.root # None => w.at.root \in held /\ Called(w.at.root) = w.name)
  BY <1>2, <1>3 DEF Wanted, CommandKept, QueueKept
<1>5. root \in held /\ Called(root) = w.name /\ (w.at.root # None => root = w.at.root)
  BY <1>1, <1>4, Found, BuildsOfRoots
<1>6. root \in Shared!AllRoots
  BY <1>5 DEF RegistryInv
<1> HIDE DEF root, w
<1>7. /\ d \in AnyCommand /\ d.step = "copy" /\ d.seen = root /\ d.queue = cmd.queue /\ d.kind = cmd.kind
      /\ d.skip = cmd.skip /\ d.platform = cmd.platform /\ d.root = cmd.root /\ d.dir = cmd.dir
  BY <1>2, <1>6 DEF AnyCommand
<1> HIDE DEF d
<1>8. AheadKept(d, policy, held)
  BY <1>1, <1>3, <1>5, <1>7 DEF AheadKept
<1>9. SetupKept(d, lock, installed) /\ SpaceKept(d, installed)
  BY <1>1, <1>2, <1>7 DEF CommandKept, SetupKept, SpaceKept
<1>10. CommandKept(d, lock, installed, policy, held)
  BY <1>2, <1>7, <1>8, <1>9 DEF CommandKept
<1>q. QED BY <1>1, <1>10 DEF MachineInv, InstalledInv

LEMMA CopyAndInstallStep == ASSUME RegistryInv, MachineInv, Shared!CopyAndInstall PROVE MachineInv'
<1> DEFINE w == Head(cmd.queue)
           root == Shared!Resolve(w.name, w.at)
           n == w.name
           build == root.build
<1>1. /\ cmd.step = "copy" /\ root # None /\ cmd' = [cmd EXCEPT !.step = "pull", !.queue = Tail(@)]
      /\ held' = held /\ lock' = lock /\ policy' = policy
  BY DEF Shared!CopyAndInstall, Shared!Ahead, Shared!registry, Shared!PullDone
<1>2. /\ CommandKept(cmd, lock, installed, policy, held) /\ cmd \in AnyCommand /\ cmd.queue \in Seq(Wanted)
      /\ cmd.skip \in BOOLEAN /\ cmd.platform \in Shared!Platforms /\ InstalledInv
  BY DEF MachineInv, CommandKept, AnyCommand
<1>3. /\ cmd.queue # <<>> /\ cmd.seen \in held /\ Called(cmd.seen) = cmd.queue[1].name
      /\ cmd.queue[1].at.root # None => cmd.seen = cmd.queue[1].at.root
      /\ Shared!VerifyArtifact(policy, Path[cmd.queue[1].name], cmd.skip).ok
  BY <1>1, <1>2 DEF CommandKept, AheadKept
<1>4. w = cmd.queue[1] /\ w \in Wanted /\ 1 \in 1 .. Len(cmd.queue)
  BY <1>2, <1>3, Records
<1>5. n \in Shared!Plugins /\ w.at \in Reference /\ (w.at.root # None => w.at.root \in held /\ Called(w.at.root) = n)
  BY <1>2, <1>4 DEF Wanted, CommandKept, QueueKept
<1>6. root \in held /\ Called(root) = n /\ (w.at.root # None => root = w.at.root)
  BY <1>1, <1>5, Found, BuildsOfRoots
<1>7. root \in Shared!AllRoots /\ cmd.seen \in Shared!AllRoots /\ build \in Builds /\ About[build].name = n
  BY <1>3, <1>6, BuildsOfRoots DEF RegistryInv, Called
<1>8. PICK platform \in Shared!ResolvePlatform(build, cmd.platform) :
        IF Shared!AlreadyInstalled(build) THEN installed' = installed /\ moved' = moved
        ELSE /\ installed' = [installed EXCEPT ![About[build].name] =
                  [digest |-> cmd.seen, build |-> build, platform |-> platform,
                   noted |-> cmd.platform, skipped |-> cmd.skip, local |-> FALSE]]
             /\ moved' = IF root # cmd.seen THEN moved \cup {About[build].name} ELSE moved \ {About[build].name}
  BY DEF Shared!CopyAndInstall, Shared!Ahead
<1>9. Shared!AlreadyInstalled(build) => ~w.force /\ installed[n] # None
  BY <1>7 DEF Shared!AlreadyInstalled, Shared!Ahead
<1>10. cmd.kind = "setup" =>
         lock # None /\ n \in DOMAIN lock /\ lock[n].digest # None /\ w.at = Shared!Pinned(lock[n]) /\ w.force
           /\ cmd.platform = Host
  BY <1>1, <1>2, <1>4 DEF CommandKept, SetupKept, Loads
<1> HIDE DEF root, w, n, build
<1>11. /\ InstalledInv' /\ installed'[n] # None
       /\ \A m \in Shared!Plugins : m # n => installed'[m] = installed[m]
       /\ cmd.kind = "setup" => AsLocked(lock[n], installed'[n])
  <2>1. CASE Shared!AlreadyInstalled(build)
    <3>1. installed' = installed /\ moved' = moved
      BY <1>8, <2>1
    <3>2. InstalledInv'
      BY <1>1, <1>2, <3>1 DEF InstalledInv
    <3>q. QED BY <1>9, <1>10, <2>1, <3>1, <3>2
  <2>2. CASE ~Shared!AlreadyInstalled(build)
    <3> DEFINE i == [digest |-> cmd.seen, build |-> build, platform |-> platform,
                     noted |-> cmd.platform, skipped |-> cmd.skip, local |-> FALSE]
               gone == root # cmd.seen
    <3>1. installed' = [installed EXCEPT ![n] = i] /\ moved' = IF gone THEN moved \cup {n} ELSE moved \ {n}
      BY <1>7, <1>8, <2>2
    <3>2. platform \in Shared!Platforms
      BY <1>7, <1>8, OwnPlatform
    <3>3. /\ i \in Shared!Note /\ i.digest = cmd.seen /\ i.build = build /\ i.platform = platform
          /\ i.noted = cmd.platform /\ i.skipped = cmd.skip /\ i.local = FALSE
      BY <1>2, <1>7, <3>2 DEF Shared!Note
    <3> HIDE DEF i
    <3>4. ~gone => cmd.seen.build = build
      BY DEF build
    <3>5. gone \in BOOLEAN
      OBVIOUS
    <3> HIDE DEF gone
    <3>6. NoteKept(i, n, policy, held, gone)
      BY <1>3, <1>4, <1>7, <1>8, <3>3, <3>4 DEF NoteKept, n
    <3>7. /\ InstalledInv' /\ installed'[n] = i /\ i # None
          /\ \A m \in Shared!Plugins : m # n => installed'[m] = installed[m]
      BY <1>1, <1>2, <1>5, <3>1, <3>5, <3>6, NotesKept
    <3>8. ASSUME cmd.kind = "setup"
          PROVE  build = lock[n].digest.build /\ platform \in Shared!ResolvePlatform(build, Host)
      <4>1. EntryKept(lock[n], n, held) /\ lock[n].digest # None
        BY <1>2, <1>10, <3>8 DEF InstalledInv
      <4>2. lock[n].digest \in Shared!AllRoots
        BY <4>1 DEF EntryKept, RegistryInv
      <4>3. w.at.root = lock[n].digest
        BY <1>10, <3>8, <4>2, Records DEF Shared!Pinned
      <4>4. root = lock[n].digest
        BY <1>6, <4>1, <4>3
      <4>q. QED BY <1>8, <1>10, <3>8, <4>4 DEF build
    <3>q. QED BY <3>3, <3>7, <3>8 DEF AsLocked
  <2>q. QED BY <2>1, <2>2
<1>12. \A m \in Shared!Plugins : installed[m] # None => installed'[m] # None
  BY <1>11
<1>13. lock # None => DOMAIN lock \subseteq Shared!Plugins
  BY <1>2 DEF InstalledInv
<1>14. CommandKept([cmd EXCEPT !.step = "pull", !.queue = Tail(@)], lock, installed', policy, held)
  <2> DEFINE later == installed'
  <2>1. /\ \A m \in Shared!Plugins : m # cmd.queue[1].name => later[m] = installed[m]
        /\ \A m \in Shared!Plugins : installed[m] # None => later[m] # None
        /\ later[cmd.queue[1].name] # None
        /\ cmd.kind = "setup" => AsLocked(lock[cmd.queue[1].name], later[cmd.queue[1].name])
    BY <1>4, <1>11, <1>12 DEF n
  <2> HIDE DEF later
  <2>2. CommandKept([cmd EXCEPT !.step = "pull", !.queue = Tail(@)], lock, later, policy, held)
    BY <1>1, <1>2, <1>3, <1>13, <2>1, NextKept
  <2>q. QED BY <2>2 DEF later
<1>q. QED BY <1>1, <1>11, <1>14 DEF MachineInv

LEMMA FailsStep == ASSUME MachineInv, Shared!PullFails PROVE MachineInv'
<1> DEFINE w == Head(cmd.queue)
<1>1. /\ cmd.step \in {"pull", "copy"} /\ cmd.queue # <<>>
      /\ cmd' = IF w.optional THEN [cmd EXCEPT !.step = "pull", !.queue = Tail(@)] ELSE Shared!IdleCmd
      /\ held' = held /\ installed' = installed /\ lock' = lock /\ policy' = policy /\ moved' = moved
  BY DEF Shared!PullFails, Shared!Ahead, Shared!registry, Shared!PullDone
<1>2. /\ CommandKept(cmd, lock, installed, policy, held) /\ cmd.queue \in Seq(Wanted)
      /\ lock # None => DOMAIN lock \subseteq Shared!Plugins
  BY DEF MachineInv, CommandKept, AnyCommand, InstalledInv
<1>3. w = cmd.queue[1] /\ 1 \in 1 .. Len(cmd.queue)
  BY <1>1, <1>2, Records
<1>4. CommandKept(cmd', lock, installed, policy, held)
  <2>1. CASE w.optional
    <3>1. cmd.kind # "setup"
      BY <1>1, <1>2, <1>3, <2>1 DEF CommandKept, SetupKept
    <3>2. CommandKept([cmd EXCEPT !.step = "pull", !.queue = Tail(@)], lock, installed, policy, held)
      BY <1>1, <1>2, <1>3, <2>1, <3>1, NextKept
    <3>q. QED BY <1>1, <2>1, <3>2
  <2>2. CASE ~w.optional
    BY <1>1, <2>2, IdleKept
  <2>q. QED BY <2>1, <2>2
<1>q. QED BY <1>1, <1>4 DEF MachineInv, InstalledInv

LEMMA DoneStep == ASSUME MachineInv, Shared!CommandDone PROVE MachineInv'
<1> DEFINE d == [cmd EXCEPT !.step = "done", !.skip = FALSE, !.platform = Host]
<1>1. /\ cmd.step = "pull" /\ cmd.queue = <<>> /\ cmd' = d
      /\ held' = held /\ installed' = installed /\ lock' = lock /\ policy' = policy /\ moved' = moved
  BY DEF Shared!CommandDone, Shared!registry
<1>2. CommandKept(cmd, lock, installed, policy, held) /\ cmd \in AnyCommand
  BY DEF MachineInv, CommandKept
<1>3. /\ d \in AnyCommand /\ d.step = "done" /\ d.queue = cmd.queue /\ d.kind = cmd.kind
      /\ d.root = cmd.root /\ d.dir = cmd.dir /\ d.platform = Host
  BY <1>2 DEF AnyCommand, Shared!Platforms
<1> HIDE DEF d
<1>4. SetupKept(d, lock, installed) /\ SpaceKept(d, installed)
  BY <1>1, <1>2, <1>3 DEF CommandKept, SetupKept, SpaceKept
<1>5. CommandKept(d, lock, installed, policy, held)
  BY <1>1, <1>2, <1>3, <1>4 DEF CommandKept, AheadKept
<1>q. QED BY <1>1, <1>5 DEF MachineInv, InstalledInv

LEMMA FinitelyMany == IsFiniteSet(Shared!Plugins)
<1> DEFINE f == [b \in Builds |-> About[b].name]
<1>1. f \in [Builds -> Shared!Names] /\ \A n \in Shared!Names : \E b \in Builds : f[b] = n
  BY DEF Shared!Names
<1> HIDE DEF f
<1>2. f \in Surjection(Builds, Shared!Names)
  BY <1>1 DEF Surjection
<1>q. QED BY <1>2, FS_Surjection, FS_Subset, PublishingAssumption, BuildsOfRoots

LEMMA WorkspaceStep == ASSUME RegistryInv, MachineInv, Shared!WorkspaceInstall PROVE MachineInv'
<1>1. PICK n \in Shared!Names \ Shared!Plugins, t \in Tags, kind \in {"workspace", "files"} :
        /\ Shared!Resolve(n, Shared!AtTag(t)) # None
        /\ cmd' = [Shared!IdleCmd EXCEPT !.kind = kind, !.step = "open",
                                         !.root = Shared!Resolve(n, Shared!AtTag(t))]
  BY DEF Shared!WorkspaceInstall
<1>2. /\ held' = held /\ installed' = installed /\ lock' = lock /\ policy' = policy /\ moved' = moved
  BY DEF Shared!WorkspaceInstall, Shared!registry
<1> DEFINE root == Shared!Resolve(n, Shared!AtTag(t))
           d == [Shared!IdleCmd EXCEPT !.kind = kind, !.step = "open", !.root = root]
<1>3. root \in Shared!AllRoots
  BY <1>1, Found, Records DEF RegistryInv
<1>4. cmd' = d
  BY <1>1
<1> HIDE DEF root
<1>5. d \in AnyCommand /\ d.kind = kind /\ d.step = "open" /\ d.queue = <<>> /\ d.root = root
  <2> DEFINE idle == Shared!IdleCmd
  <2>1. idle \in AnyCommand /\ idle.queue = <<>>
    BY DEF Shared!IdleCmd, AnyCommand, AnyFiles, Shared!Platforms
  <2> HIDE DEF idle
  <2>2. d = [idle EXCEPT !.kind = kind, !.step = "open", !.root = root]
    BY DEF idle
  <2> HIDE DEF d
  <2>q. QED BY <1>3, <2>1, <2>2 DEF AnyCommand
<1> HIDE DEF d
<1>6. QueueKept(d.queue, held)
  BY <1>5 DEF QueueKept
<1>7. CommandKept(d, lock, installed, policy, held)
  BY <1>3, <1>5, <1>6 DEF CommandKept, AheadKept, SetupKept, SpaceKept
<1>q. QED BY <1>2, <1>4, <1>7 DEF MachineInv, InstalledInv

LEMMA ExtractStep == ASSUME MachineInv, Shared!ExtractBundle PROVE MachineInv'
<1>1. /\ cmd.step = "open"
      /\ held' = held /\ installed' = installed /\ lock' = lock /\ policy' = policy /\ moved' = moved
  BY DEF Shared!ExtractBundle, Shared!registry
<1> DEFINE b == cmd.root.build
           deps == About[b].deps
           queue == IF cmd.kind = "files" THEN <<>> ELSE Shared!Needed(b)
           d == [cmd EXCEPT !.step = "pull", !.dir = Shared!BundleOf(b), !.queue = queue]
<1>2. cmd' \in {Shared!IdleCmd, d}
  BY DEF Shared!ExtractBundle
<1>3. /\ CommandKept(cmd, lock, installed, policy, held) /\ cmd \in AnyCommand
      /\ cmd.kind \in {"workspace", "files"} /\ cmd.root \in Shared!AllRoots /\ b \in Builds
  BY <1>1, BuildsOfRoots DEF MachineInv, CommandKept, SpaceKept
<1> HIDE DEF b
<1>4. deps \in Seq(Shared!Dependency) /\ Len(deps) \in Nat /\ DOMAIN deps = 1 .. Len(deps)
  BY <1>3, PublishingAssumption
<1>5. Shared!Needed(b) = [i \in 1 .. Len(deps) |->
        [name |-> deps[i].name, at |-> Shared!AtTag(deps[i].tag), force |-> FALSE, optional |-> deps[i].optional]]
  BY <1>4 DEF Shared!Needed
<1>6. ASSUME NEW i \in 1 .. Len(deps)
      PROVE  [name |-> deps[i].name, at |-> Shared!AtTag(deps[i].tag), force |-> FALSE, optional |-> deps[i].optional]
               \in Wanted
  <2>1. deps[i] \in Shared!Dependency
    BY <1>4, <1>6
  <2>q. QED BY <2>1, Records DEF Shared!Dependency, Wanted
<1>7. /\ Shared!Needed(b) \in Seq(Wanted) /\ Len(Shared!Needed(b)) = Len(deps)
      /\ \A i \in 1 .. Len(deps) : /\ Shared!Needed(b)[i].name = deps[i].name
                                   /\ Shared!Needed(b)[i].optional = deps[i].optional
                                   /\ Shared!Needed(b)[i].at = Shared!AtTag(deps[i].tag)
                                   /\ deps[i].tag \in Tags
  <2>1. \A i \in 1 .. Len(deps) : deps[i].tag \in Tags
    <3>1. \A i \in 1 .. Len(deps) : deps[i] \in Shared!Dependency
      BY <1>4
    <3>q. QED BY <3>1 DEF Shared!Dependency
  <2> HIDE DEF deps
  <2>q. QED BY <1>4, <1>5, <1>6, <2>1
<1>8. QueueKept(queue, held) /\ queue \in Seq(Wanted)
  <2>1. QueueKept(<<>>, held)
    BY DEF QueueKept
  <2>2. QueueKept(Shared!Needed(b), held)
    BY <1>7, Records DEF QueueKept
  <2>q. QED BY <1>7, <2>1, <2>2
<1>9. Shared!BundleOf(b) \in AnyFiles
  BY <1>3 DEF Shared!BundleOf, AnyFiles
<1> HIDE DEF queue
<1>10. /\ d \in AnyCommand /\ d.step = "pull" /\ d.queue = queue /\ d.kind = cmd.kind /\ d.root = cmd.root
       /\ d.dir = Shared!BundleOf(b)
  BY <1>3, <1>8, <1>9 DEF AnyCommand
<1> HIDE DEF d, deps
<1>11. SpaceKept(d, installed)
  <2>1. ASSUME cmd.kind = "workspace", NEW i \in DOMAIN deps
        PROVE  deps[i].optional \/ \E j \in 1 .. Len(queue) : queue[j].name = deps[i].name /\ ~queue[j].optional
    BY <1>4, <1>7, <2>1 DEF queue
  <2>q. QED BY <1>3, <1>10, <2>1 DEF SpaceKept, deps, b
<1>12. CommandKept(d, lock, installed, policy, held)
  BY <1>3, <1>8, <1>10, <1>11 DEF CommandKept, AheadKept, SetupKept
<1>13. CommandKept(cmd', lock, installed, policy, held)
  BY <1>2, <1>12, IdleKept
<1>q. QED BY <1>1, <1>13 DEF MachineInv, InstalledInv

LEMMA LockStep == ASSUME MachineInv, Shared!Lock PROVE MachineInv'
<1>1. /\ lock' = [n \in {m \in Shared!Plugins : installed[m] # None} |->
                   [digest |-> installed[n].digest, build |-> installed[n].build, moved |-> n \in moved]]
      /\ held' = held /\ installed' = installed /\ policy' = policy /\ moved' = moved
      /\ cmd' = Shared!IdleCmd
  BY DEF Shared!Lock, Shared!registry
<1>2. ASSUME NEW n \in DOMAIN lock'
      PROVE  n \in Shared!Plugins /\ EntryKept(lock'[n], n, held)
  <2>1. n \in Shared!Plugins /\ installed[n] # None /\ NoteKept(installed[n], n, policy, held, n \in moved)
    BY <1>1, <1>2 DEF MachineInv, InstalledInv
  <2>2. lock'[n] = [digest |-> installed[n].digest, build |-> installed[n].build, moved |-> n \in moved]
    BY <1>1, <1>2
  <2>3. PICK digest, build : digest = installed[n].digest /\ build = installed[n].build
    OBVIOUS
  <2>4. lock'[n] = [digest |-> digest, build |-> build, moved |-> n \in moved]
    BY <2>2, <2>3
  <2>5. lock'[n].digest = digest /\ lock'[n].build = build /\ lock'[n].moved = (n \in moved)
    BY <2>4
  <2>6. installed[n].local \in BOOLEAN
    BY <2>1 DEF NoteKept, Shared!Note
  <2>q. QED BY <2>1, <2>3, <2>5, <2>6 DEF EntryKept, NoteKept
<1>3. InstalledInv'
  BY <1>1, <1>2 DEF MachineInv, InstalledInv
<1>q. QED BY <1>1, <1>3, IdleKept DEF MachineInv

LEMMA SetupStep == ASSUME RegistryInv, MachineInv, Shared!Setup PROVE MachineInv'
<1>1. PICK order \in Shared!Orders(DOMAIN lock) :
        cmd' = [kind |-> "setup", step |-> "pull",
                queue |-> [i \in DOMAIN order |->
                   [name |-> order[i], at |-> Shared!Pinned(lock[order[i]]), force |-> TRUE, optional |-> FALSE]],
                seen |-> None, skip |-> FALSE, platform |-> Host, root |-> None, dir |-> {}]
  BY DEF Shared!Setup, Shared!Start
<1>2. /\ Loads(lock)
      /\ held' = held /\ installed' = installed /\ lock' = lock /\ policy' = policy /\ moved' = moved
  BY DEF Shared!Setup, Shared!registry, Shared!LockLoads, Loads
<1> DEFINE S == DOMAIN lock
           k == Cardinality(S)
           queue == [i \in 1 .. k |->
                       [name |-> order[i], at |-> Shared!Pinned(lock[order[i]]), force |-> TRUE, optional |-> FALSE]]
<1>3. S \subseteq Shared!Plugins /\ \A n \in S : EntryKept(lock[n], n, held) /\ lock[n].digest # None
  BY <1>2 DEF MachineInv, InstalledInv, Loads
<1>4. k \in Nat
  BY <1>3, FinitelyMany, FS_Subset, FS_CardinalityType
<1>5. order \in [1 .. k -> S] /\ \A n \in S : \E i \in 1 .. k : order[i] = n
  <2>1. Shared!Cardinality(S) = Cardinality(S)
    BY Zenon DEF Shared!Cardinality, Cardinality
  <2>q. QED BY <2>1 DEF Shared!Orders
<1> HIDE DEF k
<1>6. /\ cmd' = [kind |-> "setup", step |-> "pull", queue |-> queue,
                seen |-> None, skip |-> FALSE, platform |-> Host, root |-> None, dir |-> {}]
  BY <1>1, <1>5
<1>7. ASSUME NEW i \in 1 .. k
      PROVE  /\ order[i] \in S /\ queue[i] \in Wanted /\ queue[i].name = order[i]
             /\ queue[i].at = Shared!Pinned(lock[order[i]]) /\ queue[i].force /\ ~queue[i].optional
             /\ queue[i].at.root = lock[order[i]].digest
             /\ lock[order[i]].digest \in held /\ Called(lock[order[i]].digest) = order[i]
  <2>1. order[i] \in S /\ lock[order[i]].digest \in held /\ Called(lock[order[i]].digest) = order[i]
    BY <1>3, <1>5, <1>7 DEF EntryKept
  <2>2. Shared!Pinned(lock[order[i]]) \in Reference /\ Shared!Pinned(lock[order[i]]).root = lock[order[i]].digest
    <3>1. lock[order[i]].digest \in Shared!AllRoots
      BY <2>1 DEF RegistryInv
    <3>q. QED BY <3>1, Records DEF Shared!Pinned
  <2>q. QED BY <1>3, <1>7, <2>1, <2>2 DEF Wanted
<1>8. queue \in Seq(Wanted) /\ Len(queue) = k
  <2>1. \A i \in 1 .. k : queue[i] \in Wanted
    BY <1>7
  <2>2. queue = [i \in 1 .. k |-> queue[i]]
    OBVIOUS
  <2> HIDE DEF queue
  <2>q. QED BY <1>4, <2>1, <2>2
<1> HIDE DEF queue
<1>9. cmd'.kind = "setup" /\ cmd'.step = "pull" /\ cmd'.queue = queue /\ cmd'.platform = Host
  BY <1>6
<1>10. cmd' \in AnyCommand
  BY <1>6, <1>8 DEF AnyCommand, AnyFiles, Shared!Platforms
<1>11. QueueKept(queue, held)
  BY <1>7, <1>8 DEF QueueKept
<1>12. SetupKept(cmd', lock, installed)
  <2>1. \A n \in DOMAIN lock : \E i \in 1 .. Len(queue) : queue[i].name = n
    BY <1>5, <1>7, <1>8
  <2>q. QED BY <1>2, <1>7, <1>8, <1>9, <2>1 DEF SetupKept
<1>13. CommandKept(cmd', lock, installed, policy, held)
  BY <1>9, <1>10, <1>11, <1>12 DEF CommandKept, AheadKept, SpaceKept
<1>q. QED BY <1>2, <1>13 DEF MachineInv, InstalledInv

LEMMA MachineStep ==
    ASSUME RegistryInv, MachineInv,
           \/ Shared!Install \/ Shared!InstallLocal \/ Shared!ResolveRoot \/ Shared!CopyAndInstall
           \/ Shared!PullFails \/ Shared!CommandDone \/ Shared!WorkspaceInstall \/ Shared!ExtractBundle
           \/ Shared!Lock \/ Shared!Setup
    PROVE  RegistryInv' /\ MachineInv'
<1>1. UNCHANGED <<held, tags, push>>
  BY DEF Shared!Install, Shared!InstallLocal, Shared!ResolveRoot, Shared!CopyAndInstall, Shared!PullFails,
         Shared!CommandDone, Shared!WorkspaceInstall, Shared!ExtractBundle, Shared!Lock, Shared!Setup, Shared!registry
<1>2. RegistryInv'
  BY <1>1 DEF RegistryInv
<1>q. QED BY <1>2, InstallStep, LocalStep, ResolveStep, CopyAndInstallStep, FailsStep, DoneStep, WorkspaceStep,
             ExtractStep, LockStep, SetupStep

LEMMA SharedStep == ASSUME RegistryInv, MachineInv, [Shared!Next]_sharedVars PROVE RegistryInv' /\ MachineInv'
<1>1. ASSUME NEW x \in Publishers,
             \/ Shared!Publish(x) \/ Shared!CopyContent(x) \/ Shared!PushTag(x)
             \/ Shared!SignArtifact(x) \/ Shared!PublishFails(x)
      PROVE  RegistryInv' /\ MachineInv'
  BY <1>1, RegistryStep, MachineStays
<1>2. CASE UNCHANGED sharedVars
  <2>1. UNCHANGED <<held, tags, push, installed, lock, cmd, commands, moved, policy>>
    BY <1>2 DEF sharedVars
  <2>q. QED BY <2>1, MachineStays DEF RegistryInv
<1>q. QED BY <1>1, <1>2, MachineStep DEF Shared!Next

\* What the runs check follows.
LEMMA RegistrySafe == ASSUME RegistryInv PROVE Shared!PublishedAsTold
<1>1. ASSUME NEW x \in Publishers, push[x].step = "done"
      PROVE  /\ \A i \in DOMAIN push[x].told : Led(x, push[x].root, push[x].told[i], tags)
             /\ push[x].sign => push[x].bundle = push[x].root
  <2>1. /\ PublishKept(push[x], x, held, tags) /\ push[x].tags = <<>> /\ push[x].told \in Seq(Tags)
    BY <1>1 DEF RegistryInv, PublishKept, AtWork
  <2>2. Len(push[x].tags) = 0 /\ Len(push[x].told) \in Nat /\ DOMAIN push[x].told = 1 .. Len(push[x].told)
    BY <2>1
  <2>3. \A i \in 1 .. Len(push[x].told) - Len(push[x].tags) : Led(x, push[x].root, push[x].told[i], tags)
    BY <1>1, <2>1 DEF PublishKept
  <2>4. Len(push[x].told) - Len(push[x].tags) = Len(push[x].told)
    BY <2>2
  <2>q. QED BY <1>1, <2>1, <2>2, <2>3, <2>4 DEF PublishKept
<1>2. ASSUME NEW at \in DOMAIN tags, tags[at] # None PROVE tags[at].root \in held
  <2>1. PICK n \in Shared!Names, t \in Tags : at = <<n, t>>
    BY DEF RegistryInv, TagsKept
  <2>q. QED BY <1>2, <2>1 DEF RegistryInv, TagsKept
<1>q. QED BY <1>1, <1>2 DEF Shared!PublishedAsTold, Led, Called

LEMMA MachineTyped == ASSUME RegistryInv, MachineInv PROVE Shared!TypeOK
<1>1. held \subseteq Shared!AllRoots /\ tags \in [Shared!Names \X Tags -> Shared!Tagged \cup {None}]
  BY DEF RegistryInv, TagsKept
<1>2. \A x \in Publishers : /\ push[x].step \in {"idle", "copy", "tag", "sign", "done"}
                            /\ push[x].root \in Shared!AllRoots \cup {None}
  BY DEF RegistryInv, PublishKept, AtWork
<1>3. DOMAIN installed = Shared!Plugins /\ moved \subseteq Shared!Plugins
  BY DEF MachineInv, InstalledInv
<1>4. /\ cmd.kind \in {"none", "install", "workspace", "files", "setup"}
      /\ cmd.step \in {"idle", "open", "pull", "copy", "done"}
  BY DEF MachineInv, CommandKept, AnyCommand
<1>q. QED BY <1>1, <1>2, <1>3, <1>4 DEF Shared!TypeOK

LEMMA MachineSafe == ASSUME MachineInv PROVE InstallsTrue
<1>1. ASSUME NEW n \in Shared!Plugins, installed[n] # None, ~installed[n].local
      PROVE  /\ n \notin moved => installed[n].digest.build = installed[n].build
             /\ Shared!Cardinality(About[installed[n].build].platforms) # 1 =>
                  installed[n].noted = installed[n].platform
             /\ Shared!VerifyArtifact(policy, Path[n], installed[n].skipped).ok
  <2>1. NoteKept(installed[n], n, policy, held, n \in moved) /\ installed[n].build \in Builds
    BY <1>1 DEF MachineInv, InstalledInv, NoteKept, Shared!Note
  <2>q. QED BY <1>1, <2>1, OwnPlatform DEF NoteKept
<1>6. ASSUME lock # None, NEW n \in DOMAIN lock, lock[n].digest # None, ~lock[n].moved
      PROVE  lock[n].digest.build = lock[n].build
  BY <1>6 DEF MachineInv, InstalledInv, EntryKept
<1>7. Shared!NotedAsInstalled
  BY <1>1, <1>6 DEF Shared!NotedAsInstalled
<1>8. Shared!OnlyAllowed
  BY <1>1 DEF Shared!OnlyAllowed, Shared!VerifyArtifact
<1>2. CommandKept(cmd, lock, installed, policy, held)
  BY DEF MachineInv
<1>3. ASSUME cmd.step = "done" PROVE \A n : ~\E i \in 1 .. Len(cmd.queue) : cmd.queue[i].name = n
  BY <1>2, <1>3 DEF CommandKept
<1>4. Shared!LockReproduces
  <2>1. SUFFICES ASSUME cmd.kind = "setup", cmd.step = "done", NEW n \in DOMAIN lock
                 PROVE  /\ installed[n] # None /\ ~installed[n].local
                        /\ installed[n].build = lock[n].digest.build
                        /\ \/ installed[n].platform = Host
                           \/ About[installed[n].build].platforms = {installed[n].platform}
    BY DEF Shared!LockReproduces
  <2>2. AsLocked(lock[n], installed[n]) /\ n \in Shared!Plugins
    BY <1>2, <1>3, <2>1 DEF CommandKept, SetupKept, Loads, MachineInv, InstalledInv
  <2>3. installed[n].build \in Builds
    BY <2>2 DEF AsLocked, MachineInv, InstalledInv, NoteKept, Shared!Note
  <2>q. QED BY <2>2, <2>3, OwnPlatform DEF AsLocked
<1>5. Shared!WorkspaceComplete
  <2>1. SUFFICES ASSUME cmd.kind \in {"workspace", "files"}, cmd.step = "done" PROVE Shared!WorkspaceComplete
    BY DEF Shared!WorkspaceComplete
  <2>q. QED BY <1>2, <1>3, <2>1 DEF Shared!WorkspaceComplete, CommandKept, SpaceKept
<1>q. QED BY <1>4, <1>5, <1>7, <1>8 DEF InstallsTrue

-----------------------------------------------------------------------------
PublishingInv == LoginsInv /\ RegistryInv /\ MachineInv

LEMMA PublishingInvariant == PublishingSpec => []PublishingInv
<1>1. PublishingInit => PublishingInv
  BY LoginsInit, RegistryInit, MachineInit DEF PublishingInit, PublishingInv
<1>2. PublishingInv /\ [PublishingNext]_<<system, vars, sharedVars, knownVars>> => PublishingInv'
  <2>1. SUFFICES ASSUME PublishingInv, [PublishingNext]_<<system, vars, sharedVars, knownVars>>
                 PROVE  PublishingInv'
    OBVIOUS
  <2>2. [Shared!Next]_sharedVars /\ [Known!Next]_knownVars
    BY <2>1 DEF PublishingNext
  <2>q. QED BY <2>1, <2>2, SharedStep, LoginsStep DEF PublishingInv
<1>q. QED BY <1>1, <1>2, PTL DEF PublishingSpec

\* Of every publish that ended well each tag leads to what it built, unless
\* somebody has put the tag elsewhere since, what it signed is that, and no tag
\* leads to something that is not there; and as long as no two commands of the
\* registry ran at once and none died, whoever logged in is logged in (push.go,
\* registry.go).  For any publishers, builds, tags, registries and users.
THEOREM PublishersAreServed == PublishingSpec => []PublishersServed
<1>1. PublishingInv => PublishersServed
  <2>1. SUFFICES ASSUME PublishingInv PROVE PublishersServed
    OBVIOUS
  <2>2. RegistryInv /\ MachineInv /\ Known!TypeOK /\ Known!LoginsKept
    BY <2>1 DEF PublishingInv, LoginsInv, Known!LoginsKept
  <2>q. QED BY <2>2, RegistrySafe, MachineTyped DEF PublishersServed
<1>q. QED BY <1>1, PublishingInvariant, PTL

\* What is installed is what it stands for: a setup from a lock file ends well
\* only with every plugin from the artifact its locked digest names, for the
\* machine's own platform, whatever --platform it was installed with before; a
\* note, and the lock, names the artifact the binary came from, but for a
\* plugin whose tag moved while it was installed; nothing comes from where the
\* policy forbids, and where signatures are required nothing without
\* --skip-verify; a workspace that was installed is whole (client.go,
\* lockfile.go, workspace.go).  For any plugins, platforms, policies and lock
\* files.
THEOREM InstallsAreTrue == PublishingSpec => []InstallsTrue
<1>1. PublishingInv => InstallsTrue
  BY MachineSafe DEF PublishingInv
<1>q. QED BY <1>1, PublishingInvariant, PTL

-----------------------------------------------------------------------------
(* The requests that a frontend serves. *)

Stages == {"idle", "ready", "inside", "hangs"}

ServingInv ==
    /\ req = [r \in Served |-> req[r]]
    /\ \A r \in Served : \E todo, at : at \in Stages /\ req[r] = [todo |-> todo, at |-> at]
    /\ Serving!OneCallAtATime

LEMMA ServingInit == ASSUME Serving!Init PROVE ServingInv
<1>1. mutex = Serving!Nobody /\ req = [r \in Served |-> Serving!Free] /\ mutex \notin Served
  BY WebAssumption DEF Serving!Init
<1>2. Serving!Free.at = "idle" /\ \E todo, at : at \in Stages /\ Serving!Free = [todo |-> todo, at |-> at]
  BY DEF Serving!Free, Stages
<1>3. \A r \in Served : req[r] = Serving!Free
  BY <1>1
<1>4. req = [r \in Served |-> req[r]]
  BY <1>1
<1>5. \A r \in Served : \E todo, at : at \in Stages /\ req[r] = [todo |-> todo, at |-> at]
  BY <1>2, <1>3
<1>6. Serving!OneCallAtATime
  BY <1>1, <1>2, <1>3 DEF Serving!OneCallAtATime
<1>q. QED BY <1>4, <1>5, <1>6 DEF ServingInv

\* A request that goes where it holds the mutex if and only if it is inside.
LEMMA ServingMoves ==
    ASSUME ServingInv, NEW r \in Served, server' = server, NEW todo, NEW at \in Stages,
           req' = [req EXCEPT ![r] = [todo |-> todo, at |-> at]],
           mutex' \in {mutex, r, Serving!Nobody},
           Serving!Bridge => (mutex' = r <=> at \in {"inside", "hangs"}),
           Serving!Bridge => mutex \in {Serving!Nobody, r} \/ mutex' = mutex
    PROVE  ServingInv'
<1>1. /\ \A q \in Served \ {r} : req'[q] = req[q]
      /\ req'[r] = [todo |-> todo, at |-> at] /\ req' = [q \in Served |-> req'[q]]
  BY DEF ServingInv
<1>2. ASSUME NEW q \in Served PROVE \E x, y : y \in Stages /\ req'[q] = [todo |-> x, at |-> y]
  <2>1. CASE q = r
    BY Zenon, <1>1, <2>1
  <2>2. CASE q # r
    <3>1. \E x, y : y \in Stages /\ req[q] = [todo |-> x, at |-> y]
      BY Zenon DEF ServingInv
    <3>q. QED BY Zenon, <1>1, <2>2, <3>1
  <2>q. QED BY <2>1, <2>2
<1>3. ASSUME Serving!Bridge, NEW q \in Served PROVE req'[q].at \in {"inside", "hangs"} <=> mutex' = q
  <2>1. CASE q = r
    BY <1>1, <1>3, <2>1
  <2>2. CASE q # r
    BY <1>1, <1>3, <2>2, WebAssumption DEF ServingInv, Serving!OneCallAtATime
  <2>q. QED BY <2>1, <2>2
<1>4. Serving!Bridge => mutex' \in Served \cup {Serving!Nobody}
  BY DEF ServingInv, Serving!OneCallAtATime
<1>5. Serving!OneCallAtATime'
  BY <1>3, <1>4 DEF Serving!OneCallAtATime, Serving!Bridge
<1>q. QED BY <1>1, <1>2, <1>5 DEF ServingInv

LEMMA ServingStep == ASSUME ServingInv, [Serving!Next]_servingVars PROVE ServingInv'
<1>1. ASSUME NEW r \in Served, Serving!Arrive(r) PROVE ServingInv'
  <2>1. PICK s \in Serving!Scripts[server] : req' = [req EXCEPT ![r] = [todo |-> s, at |-> "ready"]]
    BY <1>1 DEF Serving!Arrive
  <2>2. server' = server /\ mutex' = mutex /\ req[r].at = "idle"
    BY <1>1 DEF Serving!Arrive, Serving!Open
  <2>3. Serving!Bridge => mutex # r
    BY <2>2 DEF ServingInv, Serving!OneCallAtATime
  <2>q. QED BY <2>1, <2>2, <2>3, ServingMoves DEF Stages
<1>2. ASSUME NEW r \in Served, Serving!Begin(r) PROVE ServingInv'
  <2>1. /\ req[r].at = "ready" /\ req' = [req EXCEPT ![r].at = "inside"] /\ server' = server
        /\ Serving!Bridge => mutex = Serving!Nobody
        /\ mutex' = IF Serving!Bridge THEN r ELSE mutex
    BY <1>2 DEF Serving!Begin, Serving!Enter
  <2>2. \E todo : req' = [req EXCEPT ![r] = [todo |-> todo, at |-> "inside"]]
    <3>1. PICK todo, at : req[r] = [todo |-> todo, at |-> at]
      BY DEF ServingInv
    <3>2. [req[r] EXCEPT !.at = "inside"] = [todo |-> todo, at |-> "inside"]
      BY <3>1
    <3>3. req' = [req EXCEPT ![r] = [req[r] EXCEPT !.at = "inside"]]
      BY <2>1
    <3>q. QED BY <3>2, <3>3
  <2>q. QED BY <2>1, <2>2, ServingMoves DEF Stages
<1>3. ASSUME NEW r \in Served, Serving!Return(r) PROVE ServingInv'
  <2>1. /\ req[r].at \in {"inside", "hangs"} /\ server' = server
        /\ mutex' = IF mutex = r THEN Serving!Nobody ELSE mutex
    BY <1>3 DEF Serving!Return, Serving!Leave
  <2>2. \E todo, at : at \in {"idle", "ready"} /\ req' = [req EXCEPT ![r] = [todo |-> todo, at |-> at]]
    BY <1>3 DEF Serving!Return, Serving!Free
  <2>3. PICK todo, at : at \in {"idle", "ready"} /\ req' = [req EXCEPT ![r] = [todo |-> todo, at |-> at]]
    BY <2>2
  <2>4. mutex' # r
    BY <2>1, WebAssumption
  <2>5. Serving!Bridge => mutex = r
    BY <2>1 DEF ServingInv, Serving!OneCallAtATime
  <2>q. QED BY <2>1, <2>3, <2>4, <2>5, ServingMoves DEF Stages
<1>4. ASSUME NEW r \in Served, Serving!Hang(r) PROVE ServingInv'
  <2>1. req[r].at = "inside" /\ req' = [req EXCEPT ![r].at = "hangs"] /\ server' = server /\ mutex' = mutex
    BY <1>4 DEF Serving!Hang
  <2>2. \E todo : req' = [req EXCEPT ![r] = [todo |-> todo, at |-> "hangs"]]
    <3>1. PICK todo, at : req[r] = [todo |-> todo, at |-> at]
      BY DEF ServingInv
    <3>2. [req[r] EXCEPT !.at = "hangs"] = [todo |-> todo, at |-> "hangs"]
      BY <3>1
    <3>3. req' = [req EXCEPT ![r] = [req[r] EXCEPT !.at = "hangs"]]
      BY <2>1
    <3>q. QED BY <3>2, <3>3
  <2>3. Serving!Bridge => mutex = r
    BY <2>1 DEF ServingInv, Serving!OneCallAtATime
  <2>q. QED BY <2>1, <2>2, <2>3, ServingMoves DEF Stages
<1>5. CASE Serving!Stop
  BY <1>5 DEF Serving!Stop, ServingInv, Serving!OneCallAtATime, Serving!Bridge
<1>6. CASE Serving!Down
  <2>1. /\ mutex' = Serving!Nobody /\ req' = [r \in Served |-> Serving!Free] /\ server' = server
        /\ mutex' \notin Served
    BY <1>6, WebAssumption DEF Serving!Down, Serving!Ended
  <2>2. Serving!Free.at = "idle" /\ \E todo, at : at \in Stages /\ Serving!Free = [todo |-> todo, at |-> at]
    BY DEF Serving!Free, Stages
  <2>3. (\A r \in Served : req'[r] = Serving!Free) /\ req' = [r \in Served |-> req'[r]]
    BY <2>1
  <2>4. \A r \in Served : \E todo, at : at \in Stages /\ req'[r] = [todo |-> todo, at |-> at]
    BY <2>2, <2>3
  <2>5. Serving!OneCallAtATime'
    BY <2>1, <2>2, <2>3 DEF Serving!OneCallAtATime
  <2>q. QED BY <2>3, <2>4, <2>5 DEF ServingInv
<1>7. CASE UNCHANGED servingVars
  BY <1>7 DEF servingVars, ServingInv, Serving!OneCallAtATime, Serving!Bridge
<1>q. QED BY <1>1, <1>2, <1>3, <1>4, <1>5, <1>6, <1>7 DEF Serving!Next

-----------------------------------------------------------------------------
(* The browser and its cookie. *)

Requested == {"get", "post"}
Answered == {"page", "to tree", "to login", "refused", "done"}
Pages == {"login", "tree"}
AnyToken == Browser!Token \cup {Browser!NoToken}
Message == [kind : {"nothing"} \cup Requested \cup Answered, page : {"none"} \cup Pages,
            cookie : AnyToken, token : AnyToken, sets : BOOLEAN, alone : BOOLEAN]

\* What is under way was made, and what needs no cookie set leaves one that
\* is good, when n tokens were made, the server was started s times and c is
\* the cookie.
MessageKept(m, n, s, c) ==
    /\ m \in Message
    /\ m.kind \in Requested =>
         m.page \in Pages /\ ~m.sets /\ m.cookie.id <= n /\ (m.cookie.start = s => c.start = s)
    /\ m.kind \in Answered =>
         /\ m.token \in Browser!Token /\ m.token.start = s /\ m.token.id <= n
         /\ m.sets \/ c.start = s
         /\ m.page \in Pages
    /\ m.kind = "nothing" => ~m.sets

TabKept(x, n, c) ==
    /\ x \in [page : {"none"} \cup Pages, token : AnyToken]
    /\ x.page = "none" <=> x.token = Browser!NoToken
    /\ x.token.id <= n
    /\ x.token # Browser!NoToken => c # Browser!NoToken

\* What is alone knows the cookie.
AloneKept(m, c) ==
    m.alone => /\ m.kind \in Requested => m.cookie = c
               /\ m.kind \in Answered => m.sets \/ m.token = c

\* The requests that a token will be made for.
Costly == {t \in Tabs : wire[t].kind \in Requested /\ ~Browser!Valid(wire[t].cookie)}

BrowserInv ==
    /\ made \in Nat /\ started \in 1..MaxStarts
    /\ jar \in AnyToken /\ jar.id <= made
    /\ wire = [t \in Tabs |-> wire[t]] /\ tab = [t \in Tabs |-> tab[t]]
    /\ \A t \in Tabs : /\ MessageKept(wire[t], made, started, jar) /\ TabKept(tab[t], made, jar)
                       /\ AloneKept(wire[t], jar)
    /\ \A t, u \in Tabs : wire[t].alone /\ wire[u].kind # "nothing" => u = t
    /\ Cardinality(Costly) + made <= MaxTokens
    /\ status \in {"authenticated", "expired"} => methods

LEMMA Tokens ==
    /\ \A x \in AnyToken : x.start \in Nat /\ x.id \in Nat
    /\ \A x \in AnyToken : x.start \in 1..MaxStarts => x \in Browser!Token
    /\ \A x \in Browser!Token : x # Browser!NoToken /\ x \in AnyToken
    /\ Browser!NoToken \in AnyToken /\ Browser!NoToken.start = 0 /\ Browser!NoToken.id = 0
BY WebAssumption DEF AnyToken, Browser!Token, Browser!NoToken

LEMMA Empty ==
    /\ Browser!NoMessage \in Message /\ Browser!NoMessage.kind = "nothing" /\ Browser!NoMessage.sets = FALSE
    /\ Browser!NoMessage.alone = FALSE
BY Tokens DEF Message, Browser!NoMessage

LEMMA NotAlone ==
    ASSUME NEW m \in Message
    PROVE  LET n == [m EXCEPT !.alone = FALSE]
           IN  /\ n \in Message /\ n.kind = m.kind /\ n.page = m.page /\ n.cookie = m.cookie /\ n.token = m.token
               /\ n.sets = m.sets /\ n.alone = FALSE
BY DEF Message

LEMMA BrowserSafe == ASSUME BrowserInv PROVE Browser!WebTypeOK /\ Cardinality(Costly) \in Nat /\ IsFiniteSet(Costly)
<1>1. IsFiniteSet(Costly) /\ Cardinality(Costly) \in Nat
  BY WebAssumption, FS_Subset, FS_CardinalityType DEF Costly
<1>2. made \in 0..MaxTokens /\ started \in 1..MaxStarts /\ jar \in AnyToken /\ jar.id <= made
      /\ (status \in {"authenticated", "expired"} => methods)
  BY <1>1, WebAssumption DEF BrowserInv
<1>3. ASSUME NEW t \in Tabs
      PROVE  /\ tab[t].page = "none" <=> tab[t].token = Browser!NoToken
             /\ tab[t].token \in AnyToken /\ tab[t].token.id <= made
             /\ tab[t].token # Browser!NoToken => jar # Browser!NoToken
             /\ wire[t].sets => wire[t].token.start = started
  <2>1. TabKept(tab[t], made, jar) /\ MessageKept(wire[t], made, started, jar)
    BY <1>3 DEF BrowserInv
  <2>2. wire[t].sets => wire[t].token.start = started
    BY <2>1 DEF MessageKept, Message
  <2>q. QED BY <2>1, <2>2 DEF TabKept
<1>q. QED BY <1>1, <1>2, <1>3 DEF Browser!WebTypeOK, AnyToken

LEMMA MessageStays ==
    ASSUME NEW m, NEW n \in Nat, NEW o \in Nat, n <= o, NEW s, NEW c, NEW d, c.start = s => d.start = s,
           MessageKept(m, n, s, c)
    PROVE  MessageKept(m, o, s, d)
<1>1. m.cookie.id \in Nat /\ m.token.id \in Nat
  BY Tokens DEF MessageKept, Message
<1>q. QED BY <1>1 DEF MessageKept

LEMMA TabStays ==
    ASSUME NEW x, NEW n \in Nat, NEW o \in Nat, n <= o, NEW c, NEW d, c # Browser!NoToken => d # Browser!NoToken,
           TabKept(x, n, c)
    PROVE  TabKept(x, o, d)
<1>1. x.token.id \in Nat
  BY Tokens DEF TabKept
<1>q. QED BY <1>1 DEF TabKept

\* A tab sends a request.
LEMMA SendKept ==
    ASSUME BrowserInv, NEW t \in Tabs, wire[t].kind = "nothing", Browser!Bounded,
           NEW m \in Message, m.kind \in Requested, m.page \in Pages, m.sets = FALSE, m.cookie = jar,
           m.alone => Browser!Quiet, Browser!Send(t, m),
           UNCHANGED <<started, made, methods, status, changes, jar, tab>>
    PROVE  BrowserInv'
<1>1. /\ wire' = [u \in Tabs |-> IF u = t THEN m ELSE [wire[u] EXCEPT !.alone = FALSE]]
      /\ started' = started /\ made' = made /\ methods' = methods /\ status' = status /\ jar' = jar /\ tab' = tab
  BY DEF Browser!Send
<1>2. \A u \in Tabs \ {t} : /\ wire'[u].kind = wire[u].kind /\ wire'[u].cookie = wire[u].cookie
                            /\ wire'[u].alone = FALSE
                            /\ MessageKept(wire'[u], made, started, jar)
  <2>1. SUFFICES ASSUME NEW u \in Tabs \ {t}
                 PROVE  /\ wire'[u].kind = wire[u].kind /\ wire'[u].cookie = wire[u].cookie
                        /\ wire'[u].alone = FALSE /\ MessageKept(wire'[u], made, started, jar)
    OBVIOUS
  <2>2. MessageKept(wire[u], made, started, jar) /\ wire'[u] = [wire[u] EXCEPT !.alone = FALSE]
    BY <1>1 DEF BrowserInv
  <2>3. wire[u] \in Message
    BY <2>2 DEF MessageKept
  <2>q. QED BY <2>2, <2>3, NotAlone DEF MessageKept
<1>3. wire'[t] = m
  BY <1>1
<1>4. MessageKept(m, made, started, jar) /\ AloneKept(m, jar)
  BY DEF BrowserInv, MessageKept, AloneKept, Requested, Answered
<1>5. \A u \in Tabs : /\ MessageKept(wire'[u], made', started', jar') /\ TabKept(tab'[u], made', jar')
                      /\ AloneKept(wire'[u], jar')
  <2>1. SUFFICES ASSUME NEW u \in Tabs
                 PROVE  MessageKept(wire'[u], made', started', jar') /\ TabKept(tab'[u], made', jar')
                        /\ AloneKept(wire'[u], jar')
    OBVIOUS
  <2>2. TabKept(tab[u], made, jar)
    BY DEF BrowserInv
  <2>3. CASE u = t
    BY <1>1, <1>3, <1>4, <2>2, <2>3
  <2>4. CASE u # t
    BY <1>1, <1>2, <2>2, <2>4 DEF AloneKept
  <2>q. QED BY <2>3, <2>4
<1>6. \A v, u \in Tabs : wire'[v].alone /\ wire'[u].kind # "nothing" => u = v
  BY <1>2, <1>3 DEF Browser!Quiet
<1>7. Cardinality(Costly') + made' <= MaxTokens
  <2> DEFINE B == {u \in Tabs : wire[u].kind \in {"get", "post"}}
  <2>1. IsFiniteSet(B) /\ Cardinality(B) \in Nat /\ Cardinality(B) + made < MaxTokens
    <3>1. Browser!Cardinality(B) = Cardinality(B)
      BY Zenon DEF Browser!Cardinality, Cardinality
    <3>q. QED BY <3>1, WebAssumption, FS_Subset, FS_CardinalityType DEF Browser!Bounded
  <2>2. Costly' \subseteq B \cup {t}
    BY <1>1, <1>2, <1>3 DEF Costly, Requested
  <2>0. t \notin B
    OBVIOUS
  <2> HIDE DEF B
  <2>3. IsFiniteSet(B \cup {t}) /\ Cardinality(B \cup {t}) = Cardinality(B) + 1
    BY Zenon, <2>0, <2>1, FS_AddElement
  <2>4. IsFiniteSet(Costly') /\ Cardinality(Costly') <= Cardinality(B \cup {t})
    BY <2>2, <2>3, FS_Subset
  <2>5. Cardinality(Costly') \in Nat /\ Cardinality(B \cup {t}) \in Nat
    BY <2>3, <2>4, FS_CardinalityType
  <2>q. QED BY <1>1, <2>1, <2>3, <2>4, <2>5, WebAssumption DEF BrowserInv
<1>8. wire' = [u \in Tabs |-> wire'[u]]
  BY <1>1
<1>q. QED BY <1>1, <1>5, <1>6, <1>7, <1>8 DEF BrowserInv

LEMMA GetKept == ASSUME BrowserInv, NEW t \in Tabs, NEW page \in Pages, Browser!Get(t, page) PROVE BrowserInv'
<1> DEFINE m == [Browser!NoMessage EXCEPT !.kind = "get", !.page = page, !.cookie = jar, !.alone = Browser!Quiet]
<1>1. /\ wire[t].kind = "nothing" /\ Browser!Bounded /\ Browser!Send(t, m)
      /\ UNCHANGED <<started, made, methods, status, changes, jar, tab>>
  BY DEF Browser!Get
<1>2. jar \in AnyToken /\ Browser!Quiet \in BOOLEAN
  BY DEF BrowserInv, Browser!Quiet
<1>3. m \in Message /\ m.kind = "get" /\ m.page = page /\ m.cookie = jar /\ m.alone = Browser!Quiet /\ m.sets = FALSE
  BY <1>2, Empty DEF Message, Requested
<1> HIDE DEF m
<1>q. QED BY <1>1, <1>3, SendKept DEF Requested

LEMMA PostKept == ASSUME BrowserInv, NEW t \in Tabs, Browser!Post(t) PROVE BrowserInv'
<1> DEFINE m == [Browser!NoMessage EXCEPT !.kind = "post", !.page = tab[t].page, !.cookie = jar, !.token = tab[t].token]
<1>1. /\ wire[t].kind = "nothing" /\ tab[t].page # "none" /\ Browser!Bounded /\ Browser!Send(t, m)
      /\ UNCHANGED <<started, made, methods, status, changes, jar, tab>>
  BY DEF Browser!Post
<1>2. jar \in AnyToken /\ tab[t].page \in Pages /\ tab[t].token \in AnyToken
  BY <1>1 DEF BrowserInv, TabKept
<1>3. m \in Message /\ m.kind = "post" /\ m.page \in Pages /\ m.cookie = jar /\ m.alone = FALSE /\ m.sets = FALSE
  BY <1>2, Empty DEF Message, Requested
<1> HIDE DEF m
<1>q. QED BY <1>1, <1>3, SendKept DEF Requested

\* The server answers: a token is made for a cookie that is not good.
LEMMA ServeKept ==
    ASSUME BrowserInv, NEW t \in Tabs, wire[t].kind \in Requested,
           NEW kind \in Answered, NEW page \in Pages, Browser!Answer(t, kind, page),
           made' = IF Browser!Valid(wire[t].cookie) THEN made ELSE made + 1,
           UNCHANGED <<started, methods, changes, jar, tab>>,
           status' \in {"authenticated", "expired"} => methods
    PROVE  BrowserInv'
<1> DEFINE cookie == wire[t].cookie
           token == Browser!TokenOf(wire[t])
           m == [Browser!NoMessage EXCEPT !.kind = kind, !.page = page, !.token = token,
                                          !.sets = Browser!SetsCookie(wire[t]), !.alone = wire[t].alone]
<1>1. /\ wire' = [wire EXCEPT ![t] = m]
      /\ started' = started /\ methods' = methods /\ jar' = jar /\ tab' = tab
  BY DEF Browser!Answer
<1>2. /\ MessageKept(wire[t], made, started, jar) /\ wire[t] \in Message /\ cookie \in AnyToken
      /\ cookie.id <= made /\ (cookie.start = started => jar.start = started)
      /\ wire[t].alone \in BOOLEAN /\ AloneKept(wire[t], jar)
      /\ started \in 1..MaxStarts /\ made \in Nat
  BY DEF BrowserInv, MessageKept, Message
<1>3. made' \in Nat /\ made <= made' /\ made' = IF cookie.start = started THEN made ELSE made + 1
  BY <1>2 DEF Browser!Valid
<1>4. Cardinality(Costly') + made' <= MaxTokens /\ made' <= MaxTokens
  <2>1. Costly' = Costly \ {t}
    <3>1. \A u \in Tabs \ {t} : wire'[u] = wire[u]
      BY <1>1 DEF BrowserInv
    <3>2. wire'[t].kind \notin Requested
      <4>1. wire'[t] = m
        BY <1>1 DEF BrowserInv
      <4>2. m.kind = kind
        BY DEF Browser!NoMessage
      <4>q. QED BY <4>1, <4>2 DEF Requested, Answered
    <3>q. QED BY <1>1, <3>1, <3>2 DEF Costly, Browser!Valid
  <2>2. IsFiniteSet(Costly) /\ Cardinality(Costly) \in Nat /\ Cardinality(Costly) + made <= MaxTokens
    BY BrowserSafe DEF BrowserInv
  <2>3. t \in Costly <=> cookie.start # started
    BY DEF Costly, Browser!Valid
  <2> DEFINE C == Costly
  <2>4. Cardinality(C \ {t}) = IF t \in C THEN Cardinality(C) - 1 ELSE Cardinality(C)
    <3> HIDE DEF C
    <3>1. IsFiniteSet(C)
      BY <2>2 DEF C
    <3>q. QED BY Zenon, <3>1, FS_RemoveElement
  <2>5. IsFiniteSet(C \ {t}) /\ Cardinality(C \ {t}) \in Nat
    BY <2>2, FS_Subset, FS_CardinalityType
  <2>q. QED BY <1>3, <2>1, <2>2, <2>3, <2>4, <2>5, WebAssumption
<1>5. token \in Browser!Token /\ token.start = started /\ token.id <= made'
  <2>1. CASE cookie.start = started
    BY <1>2, <1>3, <2>1, Tokens DEF Browser!TokenOf, Browser!Valid
  <2>2. CASE cookie.start # started
    <3>1. token = [start |-> started, id |-> made + 1]
      BY <2>2 DEF Browser!TokenOf, Browser!Valid
    <3>2. made + 1 \in 1..MaxTokens
      BY <1>2, <1>3, <1>4, <2>2, WebAssumption
    <3>q. QED BY <1>2, <1>3, <2>2, <3>1, <3>2 DEF Browser!Token
  <2>q. QED BY <2>1, <2>2
<1>6. /\ m \in Message /\ m.kind = kind /\ m.page = page /\ m.token = token
      /\ m.sets = Browser!SetsCookie(wire[t]) /\ m.alone = wire[t].alone
  <2>1. token \in AnyToken /\ Browser!SetsCookie(wire[t]) \in BOOLEAN
    BY <1>5, Tokens DEF Browser!SetsCookie
  <2> HIDE DEF token
  <2>q. QED BY <1>2, <2>1, Empty DEF Message, Answered
<1>7. MessageKept(m, made', started, jar) /\ AloneKept(m, jar)
  <2>1. m.sets \/ (cookie.start = started /\ token = cookie)
    BY <1>6 DEF Browser!SetsCookie, Browser!Valid, Browser!TokenOf
  <2>2. m.kind \in Answered /\ m.kind \notin Requested /\ m.kind # "nothing"
    BY <1>6 DEF Answered, Requested
  <2> HIDE DEF m, token, cookie
  <2>3. MessageKept(m, made', started, jar)
    BY <1>2, <1>5, <1>6, <2>1, <2>2 DEF MessageKept
  <2>4. m.alone => cookie = jar
    BY <1>2, <1>6 DEF AloneKept, cookie
  <2>q. QED BY <1>6, <2>1, <2>2, <2>3, <2>4 DEF AloneKept
<1>8. wire'[t] = m /\ wire' = [u \in Tabs |-> wire'[u]] /\ \A u \in Tabs \ {t} : wire'[u] = wire[u]
  BY <1>1 DEF BrowserInv
<1> HIDE DEF m
<1>9. \A u \in Tabs : /\ MessageKept(wire'[u], made', started', jar') /\ TabKept(tab'[u], made', jar')
                      /\ AloneKept(wire'[u], jar')
  <2>1. SUFFICES ASSUME NEW u \in Tabs
                 PROVE  MessageKept(wire'[u], made', started', jar') /\ TabKept(tab'[u], made', jar')
                        /\ AloneKept(wire'[u], jar')
    OBVIOUS
  <2>2. TabKept(tab[u], made, jar) /\ MessageKept(wire[u], made, started, jar) /\ AloneKept(wire[u], jar)
    BY DEF BrowserInv
  <2>3. TabKept(tab'[u], made', jar')
    BY <1>1, <1>2, <1>3, <2>2, TabStays
  <2>4. CASE u = t
    BY <1>1, <1>7, <1>8, <2>3, <2>4
  <2>5. CASE u # t
    <3>1. MessageKept(wire[u], made', started, jar)
      BY <1>2, <1>3, <2>2, MessageStays
    <3>q. QED BY <1>1, <1>8, <2>2, <2>3, <2>5, <3>1
  <2>q. QED BY <2>4, <2>5
<1>10. \A v, u \in Tabs : wire'[v].alone /\ wire'[u].kind # "nothing" => u = v
  <2>1. wire[t].kind # "nothing" /\ m.alone = wire[t].alone
    BY <1>6 DEF Requested
  <2>q. QED BY <1>8, <2>1 DEF BrowserInv
<1>11. jar.id <= made /\ jar \in AnyToken /\ jar.id \in Nat
  BY Tokens DEF BrowserInv
<1>q. QED BY <1>1, <1>2, <1>3, <1>4, <1>8, <1>9, <1>10, <1>11 DEF BrowserInv

LEMMA ServeGetKept == ASSUME BrowserInv, NEW t \in Tabs, Browser!ServeGet(t) PROVE BrowserInv'
<1> DEFINE kind == Browser!Answered(wire[t].page)
           page == wire[t].page
<1>1. /\ wire[t].kind = "get" /\ Browser!Answer(t, kind, page)
      /\ made' = IF Browser!Valid(wire[t].cookie) THEN made ELSE made + 1
      /\ UNCHANGED <<started, methods, changes, jar, tab>>
      /\ (status' = status \/ Browser!StoreRefuses)
  BY DEF Browser!ServeGet
<1>2. kind \in Answered
  BY DEF Browser!Answered, Answered
<1>3. wire[t].kind \in Requested /\ page \in Pages
  BY <1>1 DEF BrowserInv, MessageKept, Requested
<1>4. status' \in {"authenticated", "expired"} => methods
  BY <1>1 DEF BrowserInv, Browser!StoreRefuses
<1> HIDE DEF kind, page
<1>q. QED BY <1>1, <1>2, <1>3, <1>4, ServeKept

LEMMA ServePostKept == ASSUME BrowserInv, NEW t \in Tabs, Browser!ServePost(t) PROVE BrowserInv'
<1>1. /\ wire[t].kind = "post"
      /\ made' = IF Browser!Valid(wire[t].cookie) THEN made ELSE made + 1
      /\ UNCHANGED <<started, methods, changes, jar, tab>>
  BY DEF Browser!ServePost
<1>2. wire[t].kind \in Requested /\ wire[t].page \in Pages
  BY <1>1 DEF BrowserInv, MessageKept, Requested
<1>3. \E kind \in Answered, page \in Pages : Browser!Answer(t, kind, page)
  <2>1. \/ Browser!Answer(t, "refused", wire[t].page)
        \/ Browser!Answer(t, "to tree", "tree")
        \/ Browser!Answer(t, "page", "login")
        \/ Browser!Answer(t, "done", "tree")
        \/ Browser!Answer(t, "to login", "tree")
        \/ Browser!Answer(t, "to login", "login")
    BY DEF Browser!ServePost
  <2>q. QED BY <1>2, <2>1 DEF Answered, Pages
<1>4. status' \in {"authenticated", "expired"} => methods
  BY DEF BrowserInv, Browser!ServePost, Browser!StoreRefuses
<1>q. QED BY <1>1, <1>2, <1>3, <1>4, ServeKept

\* An answer arrives, and a redirect is followed.
LEMMA ArriveKept == ASSUME BrowserInv, NEW t \in Tabs, Browser!Arrive(t) PROVE BrowserInv'
<1> DEFINE a == wire[t]
           page == IF a.kind = "to login" THEN "login" ELSE "tree"
           next == [Browser!NoMessage EXCEPT !.kind = "get", !.page = page, !.cookie = jar', !.alone = a.alone]
           m == IF a.kind \in {"to login", "to tree"} THEN next ELSE Browser!NoMessage
<1>1. /\ a.kind \notin {"nothing", "get", "post"}
      /\ jar' = IF a.sets THEN a.token ELSE jar
      /\ tab' = IF a.kind = "page" THEN [tab EXCEPT ![t] = [page |-> a.page, token |-> a.token]] ELSE tab
      /\ wire' = [wire EXCEPT ![t] = m]
      /\ started' = started /\ made' = made /\ methods' = methods /\ status' = status
  BY DEF Browser!Arrive
<1>2. /\ MessageKept(a, made, started, jar) /\ a \in Message /\ AloneKept(a, jar)
      /\ started \in 1..MaxStarts /\ made \in Nat /\ jar \in AnyToken /\ jar.id <= made
  BY DEF BrowserInv, MessageKept
<1>3. a.kind \in Answered /\ a.alone \in BOOLEAN
  BY <1>1, <1>2 DEF Message, Requested
<1>4. /\ a.token \in Browser!Token /\ a.token.start = started /\ a.token.id <= made
      /\ a.sets \/ jar.start = started
      /\ a.page \in Pages
  BY <1>2, <1>3 DEF MessageKept
<1>5. /\ jar' \in AnyToken /\ jar'.id <= made /\ jar'.start = started /\ jar' # Browser!NoToken
      /\ a.page \in Pages /\ (a.alone => jar' = a.token)
  <2>1. a.page \in Pages /\ (a.alone => a.sets \/ a.token = jar)
    BY <1>2, <1>3 DEF MessageKept, AloneKept
  <2>2. jar'.start = started /\ jar' \in AnyToken /\ jar'.id <= made /\ (a.alone => jar' = a.token)
    BY <1>1, <1>2, <1>4, <2>1, Tokens
  <2>q. QED BY <1>2, <2>1, <2>2, Tokens
<1> HIDE DEF a
<1>6. page \in Pages
  BY DEF Pages
<1> HIDE DEF page
<1>7. /\ next \in Message /\ next.kind = "get" /\ next.page = page /\ next.cookie = jar' /\ next.alone = a.alone
      /\ next.sets = FALSE
  BY <1>3, <1>5, <1>6, Empty DEF Message, Requested
<1> HIDE DEF next
<1>8. /\ m \in Message /\ MessageKept(m, made, started, jar') /\ AloneKept(m, jar')
      /\ m.kind \in Requested => m.cookie.start = started
      /\ m.alone => a.alone
  <2>1. CASE a.kind \in {"to login", "to tree"}
    <3>1. m = next
      BY <2>1
    <3> HIDE DEF m
    <3>2. m.kind = "get" /\ m.kind \in Requested /\ m.kind \notin Answered /\ m.kind # "nothing"
      BY <1>7, <3>1 DEF Requested, Answered
    <3>q. QED BY <1>5, <1>6, <1>7, <3>1, <3>2 DEF MessageKept, AloneKept
  <2>2. CASE a.kind \notin {"to login", "to tree"}
    <3>1. m = Browser!NoMessage
      BY <2>2
    <3> HIDE DEF m
    <3>2. m.kind = "nothing" /\ m.kind \notin Requested /\ m.kind \notin Answered
      BY <3>1, Empty DEF Requested, Answered
    <3>q. QED BY <3>1, <3>2, Empty DEF MessageKept, AloneKept
  <2>q. QED BY <2>1, <2>2
<1> HIDE DEF m
<1>9. wire'[t] = m /\ wire' = [u \in Tabs |-> wire'[u]] /\ \A u \in Tabs \ {t} : wire'[u] = wire[u]
  BY <1>1 DEF BrowserInv
<1>10. \A u \in Tabs : MessageKept(wire'[u], made, started, jar') /\ AloneKept(wire'[u], jar')
  <2>1. SUFFICES ASSUME NEW u \in Tabs PROVE MessageKept(wire'[u], made, started, jar') /\ AloneKept(wire'[u], jar')
    OBVIOUS
  <2>2. CASE u = t
    BY <1>8, <1>9, <2>2
  <2>3. CASE u # t
    <3>1. MessageKept(wire[u], made, started, jar) /\ wire[u].kind \in {"nothing"} \cup Requested \cup Answered
      BY DEF BrowserInv, MessageKept, Message
    <3>2. MessageKept(wire[u], made, started, jar')
      BY <1>2, <1>5, <3>1, MessageStays
    <3>3. AloneKept(wire[u], jar')
      <4>1. wire[u].alone => a.kind = "nothing"
        BY <2>3 DEF BrowserInv, a
      <4>q. QED BY <1>1, <4>1 DEF AloneKept
    <3>q. QED BY <1>9, <2>3, <3>2, <3>3
  <2>q. QED BY <2>2, <2>3
<1>11. \A u \in Tabs : TabKept(tab'[u], made, jar')
  <2>1. SUFFICES ASSUME NEW u \in Tabs PROVE TabKept(tab'[u], made, jar')
    OBVIOUS
  <2>2. TabKept(tab[u], made, jar)
    BY DEF BrowserInv
  <2>3. TabKept(tab[u], made, jar')
    BY <1>2, <1>5, <2>2, TabStays
  <2>4. TabKept([page |-> a.page, token |-> a.token], made, jar')
    <3>1. a.token \in AnyToken /\ a.token # Browser!NoToken
      BY <1>4, Tokens
    <3>q. QED BY <1>4, <1>5, <3>1 DEF TabKept, Pages
  <2>5. tab'[u] \in {tab[u], [page |-> a.page, token |-> a.token]}
    BY <1>1 DEF BrowserInv
  <2>q. QED BY <2>3, <2>4, <2>5
<1>12. tab' = [u \in Tabs |-> tab'[u]]
  BY <1>1 DEF BrowserInv
<1>13. \A v, u \in Tabs : wire'[v].alone /\ wire'[u].kind # "nothing" => u = v
  <2>1. \A v, u \in Tabs : wire[v].alone /\ wire[u].kind # "nothing" => u = v
    BY DEF BrowserInv
  <2>q. QED BY <1>1, <1>8, <1>9, <2>1 DEF a
<1>14. Costly' = Costly
  <2>1. t \notin Costly /\ t \notin Costly'
    BY <1>1, <1>8, <1>9 DEF Costly, Browser!Valid, Requested, a
  <2>q. QED BY <1>1, <1>9, <2>1 DEF Costly, Browser!Valid
<1>q. QED BY <1>1, <1>2, <1>5, <1>9, <1>10, <1>11, <1>12, <1>13, <1>14 DEF BrowserInv

LEMMA BrowserInit == ASSUME Browser!Init PROVE BrowserInv
<1>1. /\ started = 1 /\ made = 0 /\ jar = Browser!NoToken
      /\ tab = [t \in Tabs |-> [page |-> "none", token |-> Browser!NoToken]]
      /\ wire = [t \in Tabs |-> Browser!NoMessage]
      /\ status \notin {"authenticated", "expired"}
  BY DEF Browser!Init
<1>2. Costly = {}
  BY <1>1, Empty DEF Costly, Requested
<1>3. \A t \in Tabs : MessageKept(wire[t], made, started, jar) /\ AloneKept(wire[t], jar)
  <2>1. \A t \in Tabs : wire[t] = Browser!NoMessage
    BY <1>1
  <2>q. QED BY <2>1, Empty DEF MessageKept, AloneKept, Requested, Answered
<1>4. \A t \in Tabs : TabKept(tab[t], made, jar)
  <2>1. \A t \in Tabs : tab[t] = [page |-> "none", token |-> Browser!NoToken]
    BY <1>1
  <2>q. QED BY <1>1, <2>1, Tokens DEF TabKept
<1>5. \A t \in Tabs : wire[t].alone = FALSE
  BY <1>1, Empty
<1>6. made \in Nat /\ started \in 1..MaxStarts /\ jar \in AnyToken /\ jar.id <= made
  BY <1>1, Tokens, WebAssumption
<1>7. Cardinality(Costly) + made <= MaxTokens
  BY <1>1, <1>2, FS_EmptySet, WebAssumption
<1>8. wire = [t \in Tabs |-> wire[t]] /\ tab = [t \in Tabs |-> tab[t]]
  BY <1>1
<1>q. QED BY <1>1, <1>3, <1>4, <1>5, <1>6, <1>7, <1>8 DEF BrowserInv

LEMMA RestartKept == ASSUME BrowserInv, Browser!Restart PROVE BrowserInv'
<1>1. /\ started < MaxStarts /\ started' = started + 1 /\ made' = made /\ jar' = jar /\ tab' = tab
      /\ wire' = [t \in Tabs |-> Browser!NoMessage] /\ methods' = methods
      /\ status' \notin {"authenticated", "expired"}
  BY DEF Browser!Restart
<1>2. Costly' = {}
  BY <1>1, Empty DEF Costly, Requested
<1>3. \A t \in Tabs : MessageKept(wire'[t], made', started', jar') /\ AloneKept(wire'[t], jar') /\ wire'[t].alone = FALSE
  <2>1. \A t \in Tabs : wire'[t] = Browser!NoMessage
    BY <1>1
  <2>q. QED BY <2>1, Empty DEF MessageKept, AloneKept, Requested, Answered
<1>4. \A t \in Tabs : TabKept(tab'[t], made', jar')
  BY <1>1 DEF BrowserInv
<1>5. made' \in Nat /\ started' \in 1..MaxStarts /\ jar' \in AnyToken /\ jar'.id <= made'
  BY <1>1, WebAssumption DEF BrowserInv
<1>6. Cardinality(Costly') + made' <= MaxTokens
  <2>1. Cardinality(Costly) \in Nat
    BY BrowserSafe
  <2>q. QED BY <1>1, <1>2, <2>1, FS_EmptySet, WebAssumption DEF BrowserInv
<1>7. wire' = [t \in Tabs |-> wire'[t]] /\ tab' = [t \in Tabs |-> tab'[t]]
  BY <1>1 DEF BrowserInv
<1>q. QED BY <1>1, <1>3, <1>4, <1>5, <1>6, <1>7 DEF BrowserInv

LEMMA BrowserStep == ASSUME BrowserInv, [Browser!Next]_browserVars PROVE BrowserInv'
<1>1. ASSUME NEW t \in Tabs, Browser!Serve(t) PROVE BrowserInv'
  BY <1>1, ServeGetKept, ServePostKept, ArriveKept DEF Browser!Serve
<1>2. ASSUME NEW t \in Tabs, NEW page \in {"login", "tree"}, Browser!Get(t, page) PROVE BrowserInv'
  BY <1>2, GetKept DEF Pages
<1>3. CASE Browser!SessionChanges
  <2>1. /\ started' = started /\ made' = made /\ methods' = methods /\ methods /\ jar' = jar /\ tab' = tab /\ wire' = wire
    BY <1>3 DEF Browser!SessionChanges
  <2>2. Costly' = Costly
    BY <2>1 DEF Costly, Browser!Valid
  <2>q. QED BY <2>1, <2>2 DEF BrowserInv
<1>4. CASE UNCHANGED browserVars
  <2>1. /\ started' = started /\ made' = made /\ methods' = methods /\ jar' = jar /\ tab' = tab /\ wire' = wire
        /\ status' = status
    BY <1>4 DEF browserVars
  <2>2. Costly' = Costly
    BY <2>1 DEF Costly, Browser!Valid
  <2>q. QED BY <2>1, <2>2 DEF BrowserInv
<1>q. QED BY <1>1, <1>2, <1>3, <1>4, PostKept, RestartKept DEF Browser!Next

\* A page that was loaded with nothing else under way has the cookie.
LEMMA ReloadStep ==
    ASSUME BrowserInv, [Browser!Next]_browserVars, NEW t \in Tabs, wire[t].kind = "page", wire[t].alone, tab' # tab
    PROVE  tab'[t].token = jar' /\ jar'.start = started
<1>1. PICK u \in Tabs : Browser!Arrive(u)
  BY DEF Browser!Next, Browser!Serve, Browser!Get, Browser!Post, Browser!ServeGet, Browser!ServePost,
         Browser!SessionChanges, Browser!Restart, browserVars
<1>2. wire[u].kind # "nothing"
  BY <1>1 DEF Browser!Arrive
<1>3. u = t
  BY <1>2 DEF BrowserInv
<1>4. MessageKept(wire[t], made, started, jar) /\ AloneKept(wire[t], jar) /\ wire[t].kind \in Answered
  BY DEF BrowserInv, Answered
<1>5. tab' = [tab EXCEPT ![t] = [page |-> wire[t].page, token |-> wire[t].token]]
      /\ jar' = IF wire[t].sets THEN wire[t].token ELSE jar
  BY <1>1, <1>3 DEF Browser!Arrive
<1>6. tab'[t].token = wire[t].token
  BY <1>5 DEF BrowserInv
<1>q. QED BY <1>4, <1>5, <1>6 DEF MessageKept, AloneKept

-----------------------------------------------------------------------------
FrontendsInv == ServingInv /\ BrowserInv

LEMMA FrontendsInvariant == WebSpec => []FrontendsInv
<1>1. WebInit => FrontendsInv
  BY ServingInit, BrowserInit DEF WebInit, FrontendsInv
<1>2. FrontendsInv /\ [WebNext]_webVars => FrontendsInv'
  <2>1. SUFFICES ASSUME FrontendsInv, [WebNext]_webVars PROVE FrontendsInv'
    OBVIOUS
  <2>2. [Serving!Next]_servingVars /\ [Browser!Next]_browserVars
    BY <2>1 DEF WebNext, webVars
  <2>q. QED BY <2>1, <2>2, ServingStep, BrowserStep DEF FrontendsInv
<1>q. QED BY <1>1, <1>2, PTL DEF WebSpec

\* Whatever the requests and their number: one call of the bridge is in at a
\* time, by the request that holds the mutex of SafeController; and the
\* browser's cookie, the tokens in its pages and those on the way fit together,
\* however the answers of its tabs overtake each other (middleware.go).
THEOREM FrontendsKeepOrder == WebSpec => []FrontendsConsistent
<1>1. FrontendsInv => FrontendsConsistent
  BY BrowserSafe DEF FrontendsInv, FrontendsConsistent, ServingInv
<1>q. QED BY <1>1, FrontendsInvariant, PTL

\* What a page that was loaded with nothing else under way sends is taken: its
\* token is the cookie that the browser has then, made by the server that runs
\* (double-submit cookie, middleware.go).
THEOREM ReloadIsTaken == WebSpec => Browser!ReloadHelps
<1>1. FrontendsInv /\ [WebNext]_webVars =>
        [\A t \in Tabs :
           wire[t].kind = "page" /\ wire[t].alone /\ tab' # tab /\ wire'[t] # wire[t]
             => tab'[t].token = jar' /\ jar'.start = started]_browserVars
  <2>1. SUFFICES ASSUME FrontendsInv, [WebNext]_webVars, NEW t \in Tabs,
                        wire[t].kind = "page" /\ wire[t].alone /\ tab' # tab
                 PROVE  tab'[t].token = jar' /\ jar'.start = started
    OBVIOUS
  <2>2. [Browser!Next]_browserVars
    BY <2>1 DEF WebNext, webVars
  <2>q. QED BY <2>1, <2>2, ReloadStep DEF FrontendsInv
<1>q. QED BY <1>1, FrontendsInvariant, PTL DEF WebSpec, Browser!ReloadHelps, Browser!vars, browserVars
=============================================================================

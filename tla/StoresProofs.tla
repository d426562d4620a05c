---------------------------- MODULE StoresProofs ----------------------------
(***************************************************************************)
(* Stores: types, what a version number stands for, that mirrors follow    *)
(* the primary, and that writes keep to what they are about.               *)
(*                                                                         *)
(* A step at a store either changes no secret, or writes one path of one   *)
(* store, or replaces a file.  The lemmas about these three cases do the   *)
(* work; the steps of the theorems name the case each action belongs to.   *)
(* For the mirrors, a step is also one of four things to its call: the     *)
(* call begins, goes on, is done at the store, or stops short of it.       *)
(***************************************************************************)
EXTENDS Stores, TLAPS

Values == Value \cup {None, Destroyed}

LEMMA IdleType == Idle \in Job /\ Empty \in Secret /\ Unread \in [Path -> [val : Value \cup {None}, version : 0..MaxVersion]]
<1>1. 0 \in 0..MaxVersion
  BY StoresAssumption
<1> QED BY <1>1, SMT DEF Idle, Job, Empty, Secret, Unread, Contents

LEMMA FirstType == \A x \in Value \cup {None} :
                      First(x) \in Secret /\ \A v \in Version : v > First(x).top => First(x).is[v] = None
<1> SUFFICES ASSUME NEW x \in Value \cup {None}
             PROVE  First(x) \in Secret /\ \A v \in Version : v > First(x).top => First(x).is[v] = None
  OBVIOUS
<1>1. 0 \in 0..MaxVersion /\ 1 \in 0..MaxVersion
  BY StoresAssumption
<1>2. CASE x = None
  BY <1>1, <1>2, SMT DEF First, Empty, Secret
<1>3. CASE x # None
  BY <1>1, <1>3, SMT DEF First, Secret, Version
<1> QED BY <1>2, <1>3

LEMMA WrittenType ==
    ASSUME NEW h \in Secret, NEW p \in Path, NEW x \in Values, h.top < MaxVersion
    PROVE  /\ Written(h, p, x) \in Secret
           /\ Written(h, p, x).top = h.top + 1
           /\ \A v \in Version : v > h.top + 1 /\ h.is[v] = None => Written(h, p, x).is[v] = None
           /\ \A v \in Version : v <= h.top => Written(h, p, x).is[v] \in {h.is[v], None}
<1>1. Keep[p] \in Nat \ {0} /\ MaxVersion \in Nat
  BY StoresAssumption
<1>2. h.top + 1 \in 0..MaxVersion /\ h.top \in Nat
  BY <1>1 DEF Secret
<1>3. Written(h, p, x).top = h.top + 1
  BY DEF Written
<1>4. \A v \in Version : Written(h, p, x).is[v] =
          IF v = h.top + 1 THEN x ELSE IF v + Keep[p] <= h.top + 1 THEN None ELSE h.is[v]
  BY DEF Written
<1>5. Written(h, p, x) \in Secret
  BY <1>1, <1>2, SMT DEF Written, Secret, Values
<1>6. \A v \in Version : v \in Nat
  BY DEF Version
<1>7. \A v \in Version : v > h.top + 1 /\ h.is[v] = None => Written(h, p, x).is[v] = None
  BY <1>1, <1>2, <1>4, <1>6
<1>8. \A v \in Version : v <= h.top => Written(h, p, x).is[v] \in {h.is[v], None}
  BY <1>1, <1>2, <1>4, <1>6
<1> QED BY <1>3, <1>5, <1>7, <1>8

LEMMA CurrentType == TypeOK => \A s \in Store, p \in Path, v \in 0..MaxVersion :
                        /\ At(s, p, v) \in Values
                        /\ Current(s, p) \in Value \cup {None}
<1> SUFFICES ASSUME TypeOK, NEW s \in Store, NEW p \in Path, NEW v \in 0..MaxVersion
             PROVE  At(s, p, v) \in Values /\ Current(s, p) \in Value \cup {None}
  OBVIOUS
<1>1. held[s][p] \in Secret
  BY DEF TypeOK
<1>2. \A w \in 0..MaxVersion : w = 0 \/ w \in Version
  BY StoresAssumption DEF Version
<1>3. \A w \in 0..MaxVersion : At(s, p, w) \in Values
  BY <1>1, <1>2 DEF At, Secret, Values
<1> QED BY <1>1, <1>3 DEF Current, Secret, Values

-----------------------------------------------------------------------------
(* The state of the calls.                                                  *)

CallsTyped ==
    /\ job \in [Client -> Job]
    /\ seen \in [Client -> [Path -> [val : Value \cup {None}, version : 0..MaxVersion]]]
    /\ reborn \in [Client -> SUBSET Path]
    /\ parted \in SUBSET (Store \X Path)

LEMMA JobParts == \A j \in Job, s \in Store :
    /\ \A R \in SUBSET Path : [j EXCEPT !.left = [@ EXCEPT ![s] = R]] \in Job
    /\ \A x \in {NotYet} \cup Contents : [j EXCEPT !.copy = [@ EXCEPT ![s] = x]] \in Job
    /\ Settled(j) \in Job
<1> SUFFICES ASSUME NEW j \in Job, NEW s \in Store
             PROVE  /\ \A R \in SUBSET Path : [j EXCEPT !.left = [@ EXCEPT ![s] = R]] \in Job
                    /\ \A x \in {NotYet} \cup Contents : [j EXCEPT !.copy = [@ EXCEPT ![s] = x]] \in Job
                    /\ Settled(j) \in Job
  OBVIOUS
<1>1. j.left \in [Store -> SUBSET Path] /\ j.copy \in [Store -> {NotYet} \cup Contents]
  BY DEF Job
<1>2. \A R \in SUBSET Path : [j.left EXCEPT ![s] = R] \in [Store -> SUBSET Path]
  BY <1>1
<1>3. \A x \in {NotYet} \cup Contents : [j.copy EXCEPT ![s] = x] \in [Store -> {NotYet} \cup Contents]
  BY <1>1
<1>4. \A R \in SUBSET Path : [j EXCEPT !.left = [@ EXCEPT ![s] = R]] \in Job
  BY <1>2 DEF Job
<1>5. \A x \in {NotYet} \cup Contents : [j EXCEPT !.copy = [@ EXCEPT ![s] = x]] \in Job
  BY <1>3 DEF Job, Values
<1>6. Settled(j) \in Job
  BY IdleType DEF Settled
<1> QED BY <1>4, <1>5, <1>6

LEMMA EndsType ==
    ASSUME TypeOK, NEW c \in Client, NEW j \in Job, NEW D \in SUBSET Path, Ends(c, j, D)
    PROVE  /\ job' \in [Client -> Job]
           /\ seen' \in [Client -> [Path -> [val : Value \cup {None}, version : 0..MaxVersion]]]
           /\ reborn' \in [Client -> SUBSET Path]
<1>1. job' \in [Client -> Job]
  BY DEF TypeOK, Ends
<1>2. seen' \in [Client -> [Path -> [val : Value \cup {None}, version : 0..MaxVersion]]]
  BY IdleType DEF TypeOK, Ends
<1>3. \A d \in Client : reborn[d] \cup {p \in D : seen[d][p].version > 0} \in SUBSET Path
  BY DEF TypeOK
<1>4. reborn' \in [Client -> SUBSET Path]
  BY <1>3 DEF Ends
<1> QED BY <1>1, <1>2, <1>4

LEMMA MissedType == \A j \in Job, M \in SUBSET Mirror : Missed(j, M) \in SUBSET (Store \X Path)
  BY DEF Missed, Store

LEMMA AfterType ==
    ASSUME TypeOK, NEW c \in Client, NEW s \in Store, NEW R \in SUBSET Path,
           NEW D \in SUBSET Path, NEW ok \in BOOLEAN, After(c, s, R, D, ok)
    PROVE  CallsTyped'
<1> DEFINE j == [job[c] EXCEPT !.left = [@ EXCEPT ![s] = R]]
           gone == IF s = Primary THEN D ELSE {}
           M == IF s = Primary THEN Mirror ELSE {s}
           k == [j EXCEPT !.left = [@ EXCEPT ![s] = {}]]
           end == IF s = Primary THEN Idle ELSE Settled(k)
<1>1. job[c] \in Job /\ gone \in SUBSET Path /\ M \in SUBSET Mirror
  BY DEF TypeOK, Store
<1>2. j \in Job
  BY <1>1, JobParts
<1>3. k \in Job
  BY <1>2, JobParts
<1>4. Settled(j) \in Job /\ end \in Job
  BY <1>2, <1>3, JobParts, IdleType
<1>5. CASE ok
  <2>1. Ends(c, Settled(j), gone) /\ UNCHANGED parted
    BY <1>5 DEF After
  <2> HIDE DEF j, gone
  <2> QED BY <1>1, <1>4, <2>1, EndsType DEF CallsTyped, TypeOK
<1>6. CASE ~ok
  <2>1. Ends(c, end, gone) /\ parted' = parted \cup Missed(j, M)
    BY <1>6 DEF After
  <2> HIDE DEF j, gone, end, M
  <2>2. Missed(j, M) \in SUBSET (Store \X Path)
    BY <1>1, <1>2, MissedType
  <2> QED BY <1>1, <1>4, <2>1, <2>2, EndsType DEF CallsTyped, TypeOK
<1> QED BY <1>5, <1>6

-----------------------------------------------------------------------------
(* The secrets.                                                             *)

SecretsTyped ==
    /\ held \in [Store -> [Path -> Secret]]
    /\ \A s \in Store, p \in Path, v \in Version :
          v > held[s][p].top => held[s][p].is[v] = None

LEMMA Store1Type ==
    ASSUME TypeOK, NEW s \in Store, NEW p \in Path, NEW h \in Secret,
           \A v \in Version : v > h.top => h.is[v] = None, Store1(s, p, h)
    PROVE  SecretsTyped'
<1>1. held' \in [Store -> [Path -> Secret]]
  BY DEF TypeOK, Store1
<1>2. \A t \in Store, q \in Path : held'[t][q] = IF t = s /\ q = p THEN h ELSE held[t][q]
  BY DEF TypeOK, Store1
<1>3. \A t \in Store, q \in Path, v \in Version :
          v > held[t][q].top => held[t][q].is[v] = None
  BY DEF TypeOK
<1> QED BY <1>1, <1>2, <1>3 DEF SecretsTyped

LEMMA WriteType ==
    ASSUME TypeOK, NEW s \in Store, NEW p \in Path, NEW x \in Values,
           held[s][p].top < MaxVersion, Store1(s, p, Written(held[s][p], p, x))
    PROVE  SecretsTyped'
<1> DEFINE h == held[s][p]
           w == Written(h, p, x)
<1>1. h \in Secret /\ \A v \in Version : v > h.top => h.is[v] = None
  BY DEF TypeOK
<1>2. /\ w \in Secret /\ w.top = h.top + 1
      /\ \A v \in Version : v > h.top + 1 /\ h.is[v] = None => w.is[v] = None
  BY <1>1, WrittenType
<1>3. \A v \in Version : v > w.top => w.is[v] = None
  <2>1. h.top \in Nat /\ \A v \in Version : v \in Nat
    BY <1>1, StoresAssumption DEF Secret, Version
  <2>2. \A v \in Version : v > h.top + 1 => v > h.top
    BY <2>1
  <2> QED BY <1>1, <1>2, <2>2
<1> HIDE DEF w
<1>4. Store1(s, p, w)
  BY DEF w
<1> QED BY <1>2, <1>3, <1>4, Store1Type

LEMMA FileType ==
    ASSUME TypeOK, NEW s \in Store, NEW x \in Contents,
           held' = [held EXCEPT ![s] = [p \in Path |-> First(x[p])]]
    PROVE  SecretsTyped'
<1>1. \A p \in Path : x[p] \in Value \cup {None}
  BY DEF Contents
<1>2. [p \in Path |-> First(x[p])] \in [Path -> Secret]
  BY <1>1, FirstType
<1>3. held' \in [Store -> [Path -> Secret]]
  BY <1>2 DEF TypeOK
<1>4. \A t \in Store, p \in Path : held'[t][p] = IF t = s THEN First(x[p]) ELSE held[t][p]
  BY DEF TypeOK
<1>5. \A p \in Path, v \in Version : v > First(x[p]).top => First(x[p]).is[v] = None
  BY <1>1, FirstType
<1>6. \A t \in Store, p \in Path, v \in Version :
          v > held[t][p].top => held[t][p].is[v] = None
  BY DEF TypeOK
<1> QED BY <1>3, <1>4, <1>5, <1>6 DEF SecretsTyped

-----------------------------------------------------------------------------
(* Types, step by step.                                                     *)

Rest == kind \in [Store -> Kind] /\ calls \in 0..MaxCalls

LEMMA TypeParts == SecretsTyped' /\ CallsTyped' /\ Rest' => TypeOK'
  BY DEF TypeOK, SecretsTyped, CallsTyped, Rest

LEMMA Unchanged1 == TypeOK /\ UNCHANGED held => SecretsTyped'
  BY DEF TypeOK, SecretsTyped

LEMMA JobOf == TypeOK => \A c \in Client, s \in Store :
    /\ job[c] \in Job
    /\ job[c].left[s] \in SUBSET Path /\ job[c].paths \in SUBSET Path
    /\ job[c].copy[s] \in {NotYet} \cup Contents
    /\ job[c].vals \in Contents
  BY DEF TypeOK, Job, Values

LEMMA BeginType ==
    ASSUME TypeOK, NEW c \in Client, NEW do \in {"put", "delete", "tree", "rollback"},
           NEW how \in {"blind", "version", "option"}, NEW vals \in Contents,
           NEW P \in SUBSET Path, NEW v \in 0..MaxVersion, Begin(c, do, how, vals, P, v)
    PROVE  TypeOK'
<1>1. [do |-> do, how |-> how, vals |-> vals, paths |-> P, target |-> v,
       left |-> [s \in Store |-> P], copy |-> Idle.copy] \in Job
  BY DEF Job, Idle
<1>2. job' \in [Client -> Job]
  BY <1>1 DEF TypeOK, Begin
<1>3. Mixed(c, P) \in SUBSET (Store \X Path)
  <2> DEFINE rivals == {d \in Client \ {c} : job[d].do # "idle"}
             shared == UNION {P \cap job[d].paths : d \in rivals}
             either == UNION {P \cup job[d].paths : d \in rivals}
  <2>1. \A d \in Client : job[d].paths \in SUBSET Path
    BY DEF TypeOK, Job
  <2>2. shared \in SUBSET Path /\ either \in SUBSET Path
    BY <2>1
  <2>3. Mixed(c, P) \in {Store \X either, Mirror \X shared}
    BY DEF Mixed
  <2> HIDE DEF shared, either
  <2> QED BY <2>2, <2>3 DEF Store
<1>4. parted' \in SUBSET (Store \X Path)
  BY <1>3 DEF TypeOK, Begin
<1>5. seen' \in [Client -> [Path -> [val : Value \cup {None}, version : 0..MaxVersion]]]
  BY IdleType DEF TypeOK, Begin
<1>6. reborn' \in [Client -> SUBSET Path]
  BY DEF TypeOK, Begin
<1>7. Rest'
  BY StoresAssumption DEF TypeOK, Begin, Rest
<1>8. SecretsTyped'
  BY Unchanged1 DEF Begin
<1> QED BY <1>2, <1>4, <1>5, <1>6, <1>7, <1>8, TypeParts DEF CallsTyped

LEMMA CallType == \A c \in Client : TypeOK /\ Call(c) => TypeOK'
<1> SUFFICES ASSUME NEW c \in Client, TypeOK, Call(c) PROVE TypeOK'
  OBVIOUS
<1>0. /\ Idle.vals \in Contents /\ 0 \in 0..MaxVersion
      /\ \A v \in Version : v \in 0..MaxVersion
  BY StoresAssumption DEF Idle, Contents, Version
<1>1. CASE PutValues(c)
  <2>1. PICK vals \in Offered, how \in {"blind", "version", "option"} :
            Begin(c, "put", how, vals, {p \in Path : vals[p] # None}, 0)
    BY <1>1 DEF PutValues
  <2>2. vals \in Contents /\ {p \in Path : vals[p] # None} \in SUBSET Path
    BY OfferedAssumption DEF Contents
  <2> QED BY <1>0, <2>1, <2>2, BeginType
<1>2. CASE DeleteValues(c)
  <2>1. \E P \in SUBSET Path : Begin(c, "delete", "blind", Idle.vals, P, 0)
    BY <1>2 DEF DeleteValues
  <2>2. PICK P \in SUBSET Path : Begin(c, "delete", "blind", Idle.vals, P, 0)
    BY <2>1
  <2> QED BY <1>0, <2>2, BeginType
<1>3. CASE DeleteTree(c)
  BY <1>0, <1>3, BeginType DEF DeleteTree
<1>4. CASE RollbackValue(c)
  <2>1. PICK p \in Path, v \in Version : Begin(c, "rollback", "blind", Idle.vals, {p}, v)
    BY <1>4 DEF RollbackValue
  <2> QED BY <1>0, <2>1, BeginType
<1>5. ASSUME NEW p \in Path, GetValue(c, p) PROVE TypeOK'
  <2> DEFINE r == [val |-> Current(Primary, p),
                   version |-> IF kind[Primary] = "vault" /\ Current(Primary, p) # None
                               THEN held[Primary][p].top ELSE 0]
  <2>1. held[Primary][p].top \in 0..MaxVersion
    BY DEF TypeOK, Secret, Store
  <2>2. r \in [val : Value \cup {None}, version : 0..MaxVersion]
    BY <1>0, <2>1, CurrentType DEF Store
  <2>3. seen' = [seen EXCEPT ![c] = [seen[c] EXCEPT ![p] = r]]
    BY <1>5 DEF GetValue
  <2> HIDE DEF r
  <2>4. seen' \in [Client -> [Path -> [val : Value \cup {None}, version : 0..MaxVersion]]]
    BY <2>2, <2>3 DEF TypeOK
  <2>5. reborn' \in [Client -> SUBSET Path]
    BY <1>5 DEF TypeOK, GetValue
  <2>6. UNCHANGED <<kind, held, job, parted, calls>>
    BY <1>5 DEF GetValue
  <2>7. SecretsTyped'
    BY <2>6, Unchanged1
  <2>8. CallsTyped' /\ Rest'
    BY <2>4, <2>5, <2>6 DEF CallsTyped, Rest, TypeOK
  <2> QED BY <2>7, <2>8, TypeParts
<1>6. ASSUME NEW p \in Path, NEW v \in Version, DeleteVersion(c, p, v) PROVE TypeOK'
  <2> DEFINE h == [held[Primary][p] EXCEPT !.is = [@ EXCEPT ![v] = Destroyed]]
  <2>1. held[Primary][p] \in Secret /\ \A w \in Version : w > held[Primary][p].top => held[Primary][p].is[w] = None
    BY DEF TypeOK, Store
  <2>2. h \in Secret
    BY <2>1 DEF Secret
  <2>3. At(Primary, p, v) = held[Primary][p].is[v] /\ At(Primary, p, v) # None
    BY <1>0, <1>6, StoresAssumption DEF DeleteVersion, At, Version
  <2>4. \A w \in Version : w > h.top => h.is[w] = None
    <3>1. h.top = held[Primary][p].top
      BY <2>1 DEF Secret
    <3>2. \A w \in Version : h.is[w] = IF w = v THEN Destroyed ELSE held[Primary][p].is[w]
      BY <2>1 DEF Secret
    <3> QED BY <2>1, <2>3, <3>1, <3>2
  <2>5. Store1(Primary, p, h)
    BY <1>6 DEF DeleteVersion
  <2> HIDE DEF h
  <2>6. SecretsTyped'
    BY <2>2, <2>4, <2>5, Store1Type DEF Store
  <2>7. UNCHANGED <<kind, seen, job, reborn>> /\ calls' \in 0..MaxCalls
    BY <1>6, StoresAssumption DEF DeleteVersion, TypeOK
  <2>8. parted' \in SUBSET (Store \X Path)
    BY <1>6 DEF DeleteVersion, TypeOK, Store
  <2>9. kind' = kind
    BY <1>6 DEF DeleteVersion
  <2>10. CallsTyped' /\ Rest'
    BY <2>7, <2>8, <2>9 DEF CallsTyped, Rest, TypeOK
  <2> QED BY <2>6, <2>10, TypeParts
<1> QED BY <1>1, <1>2, <1>3, <1>4, <1>5, <1>6 DEF Call

\* What the steps at a store leave alone.
LEMMA AfterKept ==
    ASSUME TypeOK, NEW c \in Client, NEW s \in Store, NEW R \in SUBSET Path,
           NEW D \in SUBSET Path, NEW ok \in BOOLEAN, After(c, s, R, D, ok),
           SecretsTyped', UNCHANGED <<kind, calls>>
    PROVE  TypeOK'
<1>1. CallsTyped'
  BY AfterType
<1>2. Rest'
  BY DEF Rest, TypeOK
<1> QED BY <1>1, <1>2, TypeParts

LEMMA VaultStepType == \A c \in Client : TypeOK /\ VaultStep(c) => TypeOK'
<1> SUFFICES ASSUME NEW c \in Client, TypeOK, VaultStep(c) PROVE TypeOK'
  OBVIOUS
<1> PICK s \in Store :
      \/ \E p \in Path : PutPath(c, s, p) \/ CASConflict(c, s, p) \/ DeletePath(c, s, p)
                       \/ RollbackRead(c, s, p) \/ RollbackWrite(c, s, p)
      \/ ListTree(c, s)
  BY DEF VaultStep
<1> DEFINE L == job[c].left[s]
<1>0. /\ job[c] \in Job /\ L \in SUBSET Path /\ job[c].vals \in Contents
      /\ job[c].copy[s] \in {NotYet} \cup Contents
  BY JobOf
<1>1. ASSUME NEW p \in Path, PutPath(c, s, p) PROVE TypeOK'
  <2>1. /\ held[s][p].top < MaxVersion
        /\ Store1(s, p, Written(held[s][p], p, job[c].vals[p]))
        /\ After(c, s, L \ {p}, {}, TRUE) /\ UNCHANGED <<kind, calls>>
    BY <1>1 DEF PutPath
  <2>2. job[c].vals[p] \in Values /\ L \ {p} \in SUBSET Path
    BY <1>0 DEF Contents, Values
  <2>3. SecretsTyped'
    BY <2>1, <2>2, WriteType
  <2> QED BY <2>1, <2>2, <2>3, AfterKept
<1>2. ASSUME NEW p \in Path, CASConflict(c, s, p) PROVE TypeOK'
  <2>1. After(c, s, L, {}, FALSE) /\ UNCHANGED <<kind, held, calls>>
    BY <1>2 DEF CASConflict
  <2> QED BY <1>0, <2>1, Unchanged1, AfterKept
<1>3. ASSUME NEW p \in Path, DeletePath(c, s, p) PROVE TypeOK'
  <2>1. /\ Store1(s, p, Empty) /\ After(c, s, L \ {p}, {p}, TRUE)
        /\ UNCHANGED <<kind, calls>>
    BY <1>3 DEF DeletePath
  <2>2. Empty \in Secret /\ \A v \in Version : v > Empty.top => Empty.is[v] = None
    BY IdleType DEF Empty
  <2>3. SecretsTyped'
    BY <2>1, <2>2, Store1Type
  <2> QED BY <1>0, <2>1, <2>3, AfterKept
<1>4. ASSUME NEW p \in Path, RollbackRead(c, s, p) PROVE TypeOK'
  <2> DEFINE x == At(s, p, job[c].target)
             y == [q \in Path |-> IF q = p THEN x ELSE None]
  <2>1. UNCHANGED <<kind, held, calls>>
    BY <1>4 DEF RollbackRead
  <2>2. CASE x \in Value
    <3>1. job' = [job EXCEPT ![c] = Copied(c, s, y)] /\ UNCHANGED <<seen, reborn, parted>>
      BY <1>4, <2>2 DEF RollbackRead
    <3>2. y \in Contents
      BY <2>2 DEF Contents
    <3> HIDE DEF y
    <3>3. Copied(c, s, y) \in Job
      BY <1>0, <3>2, JobParts DEF Copied
    <3>4. CallsTyped' /\ Rest'
      BY <2>1, <3>1, <3>3 DEF CallsTyped, Rest, TypeOK
    <3> QED BY <2>1, <3>4, Unchanged1, TypeParts
  <2>3. CASE x \notin Value
    <3>1. After(c, s, L, {}, FALSE)
      BY <1>4, <2>3 DEF RollbackRead
    <3> QED BY <1>0, <2>1, <3>1, Unchanged1, AfterKept
  <2> QED BY <2>2, <2>3
<1>5. ASSUME NEW p \in Path, RollbackWrite(c, s, p) PROVE TypeOK'
  <2>1. /\ held[s][p].top < MaxVersion /\ job[c].copy[s] # NotYet
        /\ Store1(s, p, Written(held[s][p], p, job[c].copy[s][p]))
        /\ After(c, s, {}, {}, TRUE) /\ UNCHANGED <<kind, calls>>
    BY <1>5 DEF RollbackWrite
  <2>2. job[c].copy[s][p] \in Values
    BY <1>0, <2>1 DEF Contents, Values
  <2>3. SecretsTyped'
    BY <2>1, <2>2, WriteType
  <2> QED BY <2>1, <2>3, AfterKept
<1>6. CASE ListTree(c, s)
  <2> DEFINE known == {p \in Path : held[s][p].top > 0}
             y == [p \in Path |-> Current(s, p)]
             listed == Copied(c, s, y)
             j == [listed EXCEPT !.left = [@ EXCEPT ![s] = known]]
  <2>1. Ends(c, Settled(j), {}) /\ UNCHANGED <<kind, held, parted, calls>>
    BY <1>6 DEF ListTree
  <2>2. y \in Contents /\ 0 \in 0..MaxVersion
    BY CurrentType, StoresAssumption DEF Contents
  <2>3. listed \in Job
    <3> HIDE DEF y
    <3> QED BY <1>0, <2>2, JobParts DEF Copied
  <2>4. known \in SUBSET Path
    OBVIOUS
  <2>5. j \in Job
    <3> HIDE DEF listed, known
    <3> QED BY <2>3, <2>4, JobParts
  <2>6. Settled(j) \in Job
    <3> HIDE DEF j
    <3> QED BY <2>5, JobParts
  <2> HIDE DEF j
  <2>7. CallsTyped' /\ Rest'
    BY <2>1, <2>6, EndsType DEF CallsTyped, Rest, TypeOK
  <2> QED BY <2>1, <2>7, Unchanged1, TypeParts
<1> QED BY <1>1, <1>2, <1>3, <1>4, <1>5, <1>6

LEMMA FileStepType == \A c \in Client : TypeOK /\ FileStep(c) => TypeOK'
<1> SUFFICES ASSUME NEW c \in Client, TypeOK, FileStep(c) PROVE TypeOK'
  OBVIOUS
<1> PICK s \in Store : FileRead(c, s) \/ FileAbsent(c, s) \/ FileWrite(c, s) \/ FileRemove(c, s)
  BY DEF FileStep
<1>0. /\ job[c] \in Job /\ job[c].vals \in Contents
      /\ job[c].copy[s] \in {NotYet} \cup Contents
  BY JobOf
<1>1. CASE FileRead(c, s)
  <2> DEFINE y == [p \in Path |-> Current(s, p)]
  <2>1. /\ job' = [job EXCEPT ![c] = Copied(c, s, y)]
        /\ UNCHANGED <<kind, held, seen, reborn, parted, calls>>
    BY <1>1 DEF FileRead
  <2>2. y \in Contents /\ 0 \in 0..MaxVersion
    BY CurrentType, StoresAssumption DEF Contents
  <2> HIDE DEF y
  <2>3. Copied(c, s, y) \in Job
    BY <1>0, <2>2, JobParts DEF Copied
  <2>4. CallsTyped' /\ Rest'
    BY <2>1, <2>3 DEF CallsTyped, Rest, TypeOK
  <2> QED BY <2>1, <2>4, Unchanged1, TypeParts
<1>2. CASE FileAbsent(c, s)
  <2>1. After(c, s, {}, {}, TRUE) /\ UNCHANGED <<kind, held, calls>>
    BY <1>2 DEF FileAbsent
  <2> QED BY <2>1, Unchanged1, AfterKept
<1>3. CASE FileWrite(c, s)
  <2> DEFINE x == Changed(job[c], job[c].copy[s])
  <2>1. /\ job[c].copy[s] # NotYet
        /\ held' = [held EXCEPT ![s] = [p \in Path |-> First(x[p])]]
        /\ After(c, s, {}, {}, TRUE) /\ UNCHANGED <<kind, calls>>
    BY <1>3 DEF FileWrite
  <2>2. x \in Contents
    BY <1>0, <2>1 DEF Changed, Contents
  <2> HIDE DEF x
  <2>3. SecretsTyped'
    BY <2>1, <2>2, FileType
  <2> QED BY <2>1, <2>3, AfterKept
<1>4. CASE FileRemove(c, s)
  <2> DEFINE x == [p \in Path |-> None]
  <2>1. /\ held' = [held EXCEPT ![s] = [p \in Path |-> Empty]]
        /\ After(c, s, {}, {}, TRUE) /\ UNCHANGED <<kind, calls>>
    BY <1>4 DEF FileRemove
  <2>2. x \in Contents /\ [p \in Path |-> Empty] = [p \in Path |-> First(x[p])]
    BY DEF Contents, First
  <2>3. SecretsTyped'
    BY <2>1, <2>2, FileType
  <2> QED BY <2>1, <2>3, AfterKept
<1> QED BY <1>1, <1>2, <1>3, <1>4

LEMMA NextType == TypeOK /\ [Next]_vars => TypeOK'
<1> SUFFICES ASSUME TypeOK, [Next]_vars PROVE TypeOK'
  OBVIOUS
<1>1. CASE UNCHANGED vars
  BY <1>1 DEF TypeOK, vars
<1>2. ASSUME NEW c \in Client, NEW s \in Store, Fails(c, s) PROVE TypeOK'
  BY <1>2, JobOf, Unchanged1, AfterKept DEF Fails
<1>3. ASSUME NEW c \in Client, Crash(c) PROVE TypeOK'
  <2>1. /\ parted' = parted \cup Missed(job[c], Mirror) /\ Ends(c, Idle, {})
        /\ UNCHANGED <<kind, held, calls>>
    BY <1>3 DEF Crash
  <2>2. Missed(job[c], Mirror) \in SUBSET (Store \X Path)
    BY MissedType DEF TypeOK
  <2>3. /\ job' \in [Client -> Job]
        /\ seen' \in [Client -> [Path -> [val : Value \cup {None}, version : 0..MaxVersion]]]
        /\ reborn' \in [Client -> SUBSET Path]
    BY <2>1, IdleType, EndsType
  <2>4. CallsTyped' /\ Rest'
    BY <2>1, <2>2, <2>3 DEF CallsTyped, Rest, TypeOK
  <2> QED BY <2>1, <2>4, Unchanged1, TypeParts
<1> QED BY <1>1, <1>2, <1>3, CallType, VaultStepType, FileStepType DEF Next

LEMMA InitType == Init => TypeOK
<1> SUFFICES ASSUME Init PROVE TypeOK
  OBVIOUS
<1>1. \A p \in Path : Start[p] \in Value \cup {None}
  BY StoresAssumption
<1>2. held \in [Store -> [Path -> Secret]]
  BY <1>1, FirstType DEF Init
<1>3. \A s \in Store, p \in Path : held[s][p] = First(Start[p])
  BY DEF Init
<1>4. \A s \in Store, p \in Path, v \in Version : v > held[s][p].top => held[s][p].is[v] = None
  BY <1>1, <1>3, FirstType
<1> QED BY <1>2, <1>4, IdleType, StoresAssumption DEF Init, TypeOK

(* Every state is of the declared types; in particular a path has no        *)
(* version above its newest one.                                            *)
THEOREM TypeCorrect == Spec => []TypeOK
BY InitType, NextType, PTL DEF Spec

-----------------------------------------------------------------------------
(* What a version stands for.                                               *)

\* Only reads of a Vault give a version.
Carried == \A c \in Client, p \in Path : seen[c][p].version > 0 => kind[Primary] = "vault"

Inv == TypeOK /\ Carried /\ VersionMeansValue

\* Nobody learns anything new, and everybody notices a path that is deleted.
Notices(P) ==
    \A c \in Client, p \in Path :
        \/ seen'[c][p].version = 0
        \/ /\ seen'[c][p] = seen[c][p]
           /\ p \in reborn[c] \/ p \in P => p \in reborn'[c]

\* The versions of a path stay, are destroyed, or are dropped.
Extended(p) ==
    /\ held'[Primary][p].top >= held[Primary][p].top
    /\ \A v \in Version : v <= held[Primary][p].top =>
          held'[Primary][p].is[v] \in {held[Primary][p].is[v], Destroyed, None}

LEMMA InvStep ==
    ASSUME Inv, TypeOK', NEW P \in SUBSET Path, Notices(P), kind' = kind,
           kind[Primary] = "vault" => \A p \in Path \ P : Extended(p)
    PROVE  Inv'
<1>0. Primary \in Store /\ MaxVersion \in Nat
  BY StoresAssumption DEF Store
<1>1. Carried'
  <2> SUFFICES ASSUME NEW c \in Client, NEW p \in Path, seen'[c][p].version > 0
               PROVE  kind[Primary] = "vault"
    BY DEF Carried
  <2>1. seen'[c][p].version # 0
    OBVIOUS
  <2>2. seen'[c][p] = seen[c][p]
    BY <2>1 DEF Notices
  <2> QED BY <2>2 DEF Inv, Carried
<1>2. ASSUME NEW c \in Client, NEW p \in Path, seen'[c][p].version > 0, p \notin reborn'[c]
      PROVE  /\ held'[Primary][p].top >= seen'[c][p].version
             /\ At(Primary, p, seen[c][p].version)' \in {seen'[c][p].val, Destroyed, None}
  <2> DEFINE v == seen[c][p].version
             h == held[Primary][p]
  <2>1. seen'[c][p] = seen[c][p] /\ p \notin reborn[c] /\ p \notin P
    BY <1>2 DEF Notices
  <2>2. v \in Nat /\ v > 0 /\ v <= MaxVersion
    BY <1>0, <1>2, <2>1 DEF Inv, TypeOK
  <2>3. v \in Version /\ v # 0
    BY <1>0, <2>2 DEF Version
  <2>4. kind[Primary] = "vault"
    BY <2>2 DEF Inv, Carried
  <2>5. h.top >= v /\ h.is[v] \in {seen[c][p].val, Destroyed, None}
    BY <2>1, <2>2, <2>3 DEF Inv, VersionMeansValue, At
  <2>6. Extended(p)
    BY <2>1, <2>4
  <2>7. h.top \in Nat /\ held'[Primary][p].top \in Nat
    BY <1>0 DEF Inv, TypeOK, Secret
  <2>8. held'[Primary][p].top >= v
    BY <2>2, <2>5, <2>6, <2>7 DEF Extended
  <2>9. held'[Primary][p].is[v] \in {h.is[v], Destroyed, None}
    BY <2>2, <2>3, <2>5, <2>6, <2>7 DEF Extended
  <2> QED BY <2>1, <2>3, <2>5, <2>8, <2>9 DEF At
<1>3. VersionMeansValue'
  <2> SUFFICES ASSUME NEW c \in Client, NEW p \in Path,
                      seen'[c][p].version > 0, p \notin reborn'[c]
               PROVE  /\ held'[Primary][p].top >= seen'[c][p].version
                      /\ At(Primary, p, seen[c][p].version)' \in {seen'[c][p].val, Destroyed, None}
    BY DEF VersionMeansValue, At
  <2> QED BY <1>2
<1> QED BY <1>1, <1>3 DEF Inv

LEMMA EndsNotices ==
    ASSUME TypeOK, NEW c \in Client, NEW j, NEW D \in SUBSET Path, Ends(c, j, D)
    PROVE  Notices(D)
<1>1. CASE j = Idle
  <2>1. \A d \in Client : seen'[d] = IF d = c THEN Unread ELSE seen[d]
    BY <1>1 DEF Ends, TypeOK
  <2>2. \A d \in Client \ {c} : reborn'[d] = reborn[d] \cup {p \in D : seen[d][p].version > 0}
    BY DEF Ends
  <2>3. \A d \in Client, p \in Path : seen[d][p].version \in Nat
    BY StoresAssumption DEF TypeOK
  <2>4. \A p \in Path : Unread[p].version = 0
    BY DEF Unread
  <2> QED BY <2>1, <2>2, <2>3, <2>4 DEF Notices
<1>2. CASE j # Idle
  <2>1. seen' = seen
    BY <1>2 DEF Ends
  <2>2. \A d \in Client : reborn'[d] = reborn[d] \cup {p \in D : seen[d][p].version > 0}
    BY <1>2 DEF Ends
  <2>3. \A d \in Client, p \in Path : seen[d][p].version \in Nat
    BY StoresAssumption DEF TypeOK
  <2> QED BY <2>1, <2>2, <2>3 DEF Notices
<1> QED BY <1>1, <1>2

LEMMA AfterNotices ==
    ASSUME TypeOK, NEW c \in Client, NEW s \in Store, NEW R \in SUBSET Path,
           NEW D \in SUBSET Path, NEW ok \in BOOLEAN, After(c, s, R, D, ok)
    PROVE  Notices(IF s = Primary THEN D ELSE {})
<1> DEFINE gone == IF s = Primary THEN D ELSE {}
<1>1. \E j : Ends(c, j, gone)
  <2>1. CASE ok
    BY <2>1, Zenon DEF After
  <2>2. CASE ~ok
    BY <2>2, Zenon DEF After
  <2> QED BY <2>1, <2>2
<1>2. gone \in SUBSET Path
  OBVIOUS
<1> HIDE DEF gone
<1>3. Notices(gone)
  BY <1>1, <1>2, EndsNotices
<1> QED BY <1>3 DEF gone

\* Steps that write no secret of the primary.
LEMMA Quiet == TypeOK /\ (\A p \in Path : held'[Primary][p] = held[Primary][p]) => \A p \in Path : Extended(p)
<1> SUFFICES ASSUME TypeOK, \A p \in Path : held'[Primary][p] = held[Primary][p], NEW p \in Path
             PROVE  Extended(p)
  OBVIOUS
<1>1. held[Primary][p] \in Secret
  BY DEF TypeOK, Store
<1> QED BY <1>1, StoresAssumption DEF Extended, Secret

\* A write of one path, to the primary or to a mirror.
LEMMA WriteExtends ==
    ASSUME TypeOK, NEW s \in Store, NEW p \in Path, NEW x \in Values,
           held[s][p].top < MaxVersion, Store1(s, p, Written(held[s][p], p, x))
    PROVE  \A q \in Path : Extended(q)
<1> SUFFICES ASSUME NEW q \in Path PROVE Extended(q)
  OBVIOUS
<1> DEFINE w == Written(held[s][p], p, x)
<1>1. held'[Primary][q] = IF Primary = s /\ q = p THEN w ELSE held[Primary][q]
  BY DEF Store1, TypeOK, Store
<1>2. /\ held[s][p] \in Secret /\ held[Primary][q] \in Secret
      /\ held[s][p].top \in Nat /\ held[Primary][q].top \in Nat
  BY StoresAssumption DEF TypeOK, Store, Secret
<1>3. /\ w.top = held[s][p].top + 1
      /\ \A v \in Version : v <= held[s][p].top => w.is[v] \in {held[s][p].is[v], None}
  BY <1>2, WrittenType
<1> HIDE DEF w
<1>4. CASE Primary = s /\ q = p
  BY <1>1, <1>2, <1>3, <1>4 DEF Extended
<1>5. CASE ~(Primary = s /\ q = p)
  BY <1>1, <1>2, <1>5 DEF Extended
<1> QED BY <1>4, <1>5

LEMMA CallInv == \A c \in Client : Inv /\ TypeOK' /\ Call(c) => Inv'
<1> SUFFICES ASSUME NEW c \in Client, Inv, TypeOK', Call(c) PROVE Inv'
  OBVIOUS
<1>0. TypeOK /\ Carried /\ VersionMeansValue
  BY DEF Inv
<1>1. ASSUME NEW do, NEW how, NEW vals, NEW P, NEW v, Begin(c, do, how, vals, P, v) PROVE Inv'
  <2>1. UNCHANGED <<kind, held>>
    BY <1>1 DEF Begin
  <2>2. Notices({})
    <3>1. CASE how = "blind"
      <4>1. \A d \in Client : seen'[d] = IF d = c THEN Unread ELSE seen[d]
        BY <1>0, <1>1, <3>1 DEF Begin, TypeOK
      <4>2. \A d \in Client : d # c => reborn'[d] = reborn[d]
        BY <1>0, <1>1, <3>1 DEF Begin, TypeOK
      <4>3. \A p \in Path : Unread[p].version = 0
        BY DEF Unread
      <4> QED BY <4>1, <4>2, <4>3 DEF Notices
    <3>2. CASE how # "blind"
      <4>1. seen' = seen /\ reborn' = reborn
        BY <1>1, <3>2 DEF Begin
      <4> QED BY <4>1 DEF Notices
    <3> QED BY <3>1, <3>2
  <2>3. \A p \in Path : Extended(p)
    BY <1>0, <2>1, Quiet
  <2> QED BY <2>1, <2>2, <2>3, InvStep
<1>2. CASE PutValues(c)
  BY <1>1, <1>2 DEF PutValues
<1>3. CASE DeleteValues(c) \/ DeleteTree(c) \/ RollbackValue(c)
  BY <1>1, <1>3 DEF DeleteValues, DeleteTree, RollbackValue
<1>4. ASSUME NEW p \in Path, GetValue(c, p) PROVE Inv'
  <2>1. UNCHANGED <<kind, held>>
    BY <1>4 DEF GetValue
  <2>2. \A d \in Client, q \in Path : seen'[d][q] =
            IF d = c /\ q = p
            THEN [val |-> Current(Primary, p),
                  version |-> IF kind[Primary] = "vault" /\ Current(Primary, p) # None
                              THEN held[Primary][p].top ELSE 0]
            ELSE seen[d][q]
    BY <1>0, <1>4 DEF GetValue, TypeOK
  <2>3. \A d \in Client, q \in Path : ~(d = c /\ q = p) => (q \in reborn'[d] <=> q \in reborn[d])
    BY <1>0, <1>4 DEF GetValue, TypeOK
  <2>4. Carried'
    BY <1>0, <2>1, <2>2 DEF Carried
  <2>5. held[Primary][p].top \in Nat /\ \A d \in Client, q \in Path : seen[d][q].version \in Nat
    BY <1>0, StoresAssumption DEF TypeOK, Secret, Store
  <2>6. VersionMeansValue'
    <3> SUFFICES ASSUME NEW d \in Client, NEW q \in Path,
                        seen'[d][q].version > 0, q \notin reborn'[d]
                 PROVE  /\ held[Primary][q].top >= seen'[d][q].version
                        /\ At(Primary, q, seen'[d][q].version) \in {seen'[d][q].val, Destroyed, None}
      BY <2>1 DEF VersionMeansValue, At
    <3>1. CASE d = c /\ q = p
      <4>1. seen'[d][q].version = held[Primary][p].top /\ seen'[d][q].val = Current(Primary, p)
        BY <2>2, <3>1
      <4> QED BY <2>5, <3>1, <4>1 DEF Current
    <3>2. CASE ~(d = c /\ q = p)
      BY <1>0, <2>2, <2>3, <3>2 DEF VersionMeansValue
    <3> QED BY <3>1, <3>2
  <2> QED BY <2>4, <2>6 DEF Inv
<1>5. ASSUME NEW p \in Path, NEW v \in Version, DeleteVersion(c, p, v) PROVE Inv'
  <2> DEFINE h == held[Primary][p]
             g == [h EXCEPT !.is = [@ EXCEPT ![v] = Destroyed]]
  <2>1. UNCHANGED <<kind, seen, reborn>> /\ Store1(Primary, p, g)
    BY <1>5 DEF DeleteVersion
  <2>2. \A q \in Path : held'[Primary][q] = IF q = p THEN g ELSE held[Primary][q]
    BY <1>0, <2>1 DEF Store1, TypeOK, Store
  <2>3. \A q \in Path : held[Primary][q] \in Secret /\ held[Primary][q].top \in Nat
    BY <1>0, StoresAssumption DEF TypeOK, Store, Secret
  <2>4. g.top = h.top /\ \A w \in Version : g.is[w] \in {h.is[w], Destroyed}
    BY <2>3 DEF Secret
  <2> HIDE DEF g
  <2>5. \A q \in Path : Extended(q)
    BY <2>2, <2>3, <2>4 DEF Extended
  <2>6. Notices({})
    BY <2>1 DEF Notices
  <2> QED BY <2>1, <2>5, <2>6, InvStep
<1> QED BY <1>2, <1>3, <1>4, <1>5 DEF Call

\* A step that writes nothing, or writes a mirror only.
LEMMA QuietInv ==
    ASSUME Inv, TypeOK', NEW c \in Client, NEW s \in Store, NEW R \in SUBSET Path,
           NEW ok \in BOOLEAN, After(c, s, R, {}, ok), kind' = kind,
           kind[Primary] = "vault" => \A p \in Path : Extended(p)
    PROVE  Inv'
<1>1. TypeOK
  BY DEF Inv
<1>2. Notices(IF s = Primary THEN {} ELSE {})
  BY <1>1, AfterNotices
<1>3. Notices({})
  BY <1>2
<1> QED BY <1>3, InvStep

LEMMA VaultStepInv == \A c \in Client : Inv /\ TypeOK' /\ VaultStep(c) => Inv'
<1> SUFFICES ASSUME NEW c \in Client, Inv, TypeOK', VaultStep(c) PROVE Inv'
  OBVIOUS
<1> PICK s \in Store :
        \/ \E p \in Path : PutPath(c, s, p) \/ CASConflict(c, s, p) \/ DeletePath(c, s, p)
                         \/ RollbackRead(c, s, p) \/ RollbackWrite(c, s, p)
        \/ ListTree(c, s)
  BY DEF VaultStep
<1> DEFINE L == job[c].left[s]
<1>0. TypeOK /\ L \in SUBSET Path /\ job[c].vals \in Contents /\ job[c].copy[s] \in {NotYet} \cup Contents
  BY JobOf DEF Inv
<1>1. ASSUME NEW p \in Path, PutPath(c, s, p) PROVE Inv'
  <2>1. /\ held[s][p].top < MaxVersion
        /\ Store1(s, p, Written(held[s][p], p, job[c].vals[p]))
        /\ After(c, s, L \ {p}, {}, TRUE) /\ kind' = kind
    BY <1>1 DEF PutPath
  <2>2. job[c].vals[p] \in Values /\ L \ {p} \in SUBSET Path
    BY <1>0 DEF Contents, Values
  <2>3. \A q \in Path : Extended(q)
    BY <1>0, <2>1, <2>2, WriteExtends
  <2> QED BY <2>1, <2>2, <2>3, QuietInv
<1>2. ASSUME NEW p \in Path, CASConflict(c, s, p) PROVE Inv'
  <2>1. After(c, s, L, {}, FALSE) /\ UNCHANGED <<kind, held>>
    BY <1>2 DEF CASConflict
  <2> QED BY <1>0, <2>1, Quiet, QuietInv
<1>3. ASSUME NEW p \in Path, DeletePath(c, s, p) PROVE Inv'
  <2> DEFINE P == IF s = Primary THEN {p} ELSE {}
  <2>1. Store1(s, p, Empty) /\ After(c, s, L \ {p}, {p}, TRUE) /\ kind' = kind
    BY <1>3 DEF DeletePath
  <2>2. Notices(P)
    BY <1>0, <2>1, AfterNotices
  <2>3. \A q \in Path \ P : held'[Primary][q] = held[Primary][q]
    BY <1>0, <2>1 DEF Store1, TypeOK, Store
  <2>4. \A q \in Path \ P : Extended(q)
    <3>1. \A q \in Path : held[Primary][q].top \in Nat
      BY <1>0, StoresAssumption DEF TypeOK, Store, Secret
    <3> QED BY <2>3, <3>1 DEF Extended
  <2>5. P \in SUBSET Path
    OBVIOUS
  <2> HIDE DEF P
  <2> QED BY <2>1, <2>2, <2>4, <2>5, InvStep
<1>4. ASSUME NEW p \in Path, RollbackRead(c, s, p) PROVE Inv'
  <2>1. UNCHANGED <<kind, held>>
    BY <1>4 DEF RollbackRead
  <2>2. \A q \in Path : Extended(q)
    BY <1>0, <2>1, Quiet
  <2>3. CASE At(s, p, job[c].target) \in Value
    <3>1. UNCHANGED <<seen, reborn>>
      BY <1>4, <2>3 DEF RollbackRead
    <3>2. Notices({})
      BY <3>1 DEF Notices
    <3> QED BY <2>1, <2>2, <3>2, InvStep
  <2>4. CASE At(s, p, job[c].target) \notin Value
    <3>1. After(c, s, L, {}, FALSE)
      BY <1>4, <2>4 DEF RollbackRead
    <3> QED BY <1>0, <2>1, <2>2, <3>1, QuietInv
  <2> QED BY <2>3, <2>4
<1>5. ASSUME NEW p \in Path, RollbackWrite(c, s, p) PROVE Inv'
  <2>1. /\ held[s][p].top < MaxVersion /\ job[c].copy[s] # NotYet
        /\ Store1(s, p, Written(held[s][p], p, job[c].copy[s][p]))
        /\ After(c, s, {}, {}, TRUE) /\ kind' = kind
    BY <1>5 DEF RollbackWrite
  <2>2. job[c].copy[s][p] \in Values
    BY <1>0, <2>1 DEF Contents, Values
  <2>3. \A q \in Path : Extended(q)
    BY <1>0, <2>1, <2>2, WriteExtends
  <2> QED BY <2>1, <2>3, QuietInv
<1>6. CASE ListTree(c, s)
  <2>1. UNCHANGED <<kind, held>> /\ \E j : Ends(c, j, {})
    BY <1>6 DEF ListTree
  <2>2. Notices({})
    BY <1>0, <2>1, EndsNotices
  <2>3. \A q \in Path : Extended(q)
    BY <1>0, <2>1, Quiet
  <2> QED BY <2>1, <2>2, <2>3, InvStep
<1> QED BY <1>1, <1>2, <1>3, <1>4, <1>5, <1>6

LEMMA FileStepInv == \A c \in Client : Inv /\ TypeOK' /\ FileStep(c) => Inv'
<1> SUFFICES ASSUME NEW c \in Client, Inv, TypeOK', FileStep(c) PROVE Inv'
  OBVIOUS
<1> PICK s \in Store : FileRead(c, s) \/ FileAbsent(c, s) \/ FileWrite(c, s) \/ FileRemove(c, s)
  BY DEF FileStep
<1>0. TypeOK
  BY DEF Inv
<1>1. CASE FileRead(c, s)
  <2>1. UNCHANGED <<kind, held, seen, reborn>>
    BY <1>1 DEF FileRead
  <2>2. Notices({})
    BY <2>1 DEF Notices
  <2>3. \A q \in Path : Extended(q)
    BY <1>0, <2>1, Quiet
  <2> QED BY <2>1, <2>2, <2>3, InvStep
<1>2. CASE FileAbsent(c, s)
  <2>1. After(c, s, {}, {}, TRUE) /\ UNCHANGED <<kind, held>>
    BY <1>2 DEF FileAbsent
  <2> QED BY <1>0, <2>1, Quiet, QuietInv
<1>3. CASE FileWrite(c, s) \/ FileRemove(c, s)
  <2>1. kind[s] = "file" /\ After(c, s, {}, {}, TRUE) /\ kind' = kind
    BY <1>3 DEF FileWrite, FileRemove
  <2>2. \E x : held' = [held EXCEPT ![s] = x]
    BY <1>3 DEF FileWrite, FileRemove
  <2>3. ASSUME kind[Primary] = "vault" PROVE \A q \in Path : Extended(q)
    <3>1. s # Primary
      BY <2>1, <2>3
    <3>2. held'[Primary] = held[Primary]
      BY <1>0, <2>2, <3>1 DEF TypeOK, Store
    <3> QED BY <1>0, <3>2, Quiet
  <2> QED BY <2>1, <2>3, QuietInv
<1> QED BY <1>1, <1>2, <1>3

(* Puts, rollbacks, failures and deaths never give a version another value: *)
(* what a client carries since its read is what Vault has under that        *)
(* version, as long as the path has not been deleted.                       *)
THEOREM VersionsMeanValues == Spec => []VersionMeansValue
<1>1. Init => Inv
  <2> SUFFICES ASSUME Init PROVE Inv
    OBVIOUS
  <2>1. \A c \in Client, p \in Path : seen[c][p].version = 0
    BY DEF Init, Unread
  <2> QED BY <2>1, InitType DEF Inv, Carried, VersionMeansValue
<1>2. Inv /\ [Next]_vars => Inv'
  <2> SUFFICES ASSUME Inv, [Next]_vars PROVE Inv'
    OBVIOUS
  <2>0. TypeOK /\ TypeOK'
    BY NextType DEF Inv
  <2>1. CASE UNCHANGED vars
    <3>1. UNCHANGED <<kind, held, seen, reborn>>
      BY <2>1 DEF vars
    <3>2. Notices({})
      BY <3>1 DEF Notices
    <3>3. \A q \in Path : Extended(q)
      BY <2>0, <3>1, Quiet
    <3> QED BY <2>0, <3>1, <3>2, <3>3, InvStep
  <2>2. ASSUME NEW c \in Client, NEW s \in Store, Fails(c, s) PROVE Inv'
    <3>1. After(c, s, job[c].left[s], {}, FALSE) /\ UNCHANGED <<kind, held>>
      BY <2>2 DEF Fails
    <3>2. job[c].left[s] \in SUBSET Path
      BY <2>0, JobOf
    <3> QED BY <2>0, <3>1, <3>2, Quiet, QuietInv
  <2>3. ASSUME NEW c \in Client, Crash(c) PROVE Inv'
    <3>1. Ends(c, Idle, {}) /\ UNCHANGED <<kind, held>>
      BY <2>3 DEF Crash
    <3>2. Notices({})
      BY <2>0, <3>1, EndsNotices
    <3>3. \A q \in Path : Extended(q)
      BY <2>0, <3>1, Quiet
    <3> QED BY <2>0, <3>1, <3>2, <3>3, InvStep
  <2> QED BY <2>0, <2>1, <2>2, <2>3, CallInv, VaultStepInv, FileStepInv DEF Next
<1>3. Inv => VersionMeansValue
  BY DEF Inv
<1> QED BY <1>1, <1>2, <1>3, PTL DEF Spec

-----------------------------------------------------------------------------
(* Secrets, without saying where they are.                                  *)

\* What a read of the newest version gives.
Newest(h) == IF h.top = 0 \/ h.is[h.top] = Destroyed THEN None ELSE h.is[h.top]

\* The same history, except for versions that the primary has destroyed.
Alike(g, h) ==
    /\ g.top = h.top
    /\ \A v \in Version : g.is[v] \in {h.is[v], Destroyed}
    /\ g.top > 0 => g.is[g.top] = h.is[h.top]

\* A mirror's secret h does not differ from the primary's g; two Vaults have
\* the same history too.
Same(g, h, vaults) == Newest(g) = Newest(h) /\ (vaults => Alike(g, h))

\* What a call makes of its paths.
Result(j, p) == IF j.do = "put" THEN j.vals[p]
                ELSE IF j.do = "rollback" THEN j.copy[Primary][p] ELSE None

\* The primary's secret is where the call j will lead the mirror's.
Ahead(j, p, g, h, vaults) ==
    /\ Newest(g) = Result(j, p)
    /\ j.do = "rollback" => j.copy[Primary] # NotYet
    /\ vaults =>
          IF j.do \in {"put", "rollback"}
          THEN h.top < MaxVersion /\ Alike(g, Written(h, p, Result(j, p)))
          ELSE g = Empty

Consistent(h) == \A v \in Version : v > h.top => h.is[v] = None

LEMMA CurrentIsNewest == \A s \in Store, p \in Path : Current(s, p) = Newest(held[s][p])
  BY DEF Current, At, Newest

LEMMA NewestOf ==
    /\ Newest(Empty) = None
    /\ \A x \in Value \cup {None} : Newest(First(x)) = x
    /\ \A h \in Secret, p \in Path, x \in Value \cup {None} :
          h.top < MaxVersion => Newest(Written(h, p, x)) = x
<1>1. Newest(Empty) = None
  BY DEF Newest, Empty
<1>2. ASSUME NEW x \in Value \cup {None} PROVE Newest(First(x)) = x
  <2>1. 1 \in Version /\ x # Destroyed
    BY StoresAssumption DEF Version
  <2> QED BY <1>1, <2>1 DEF Newest, First
<1>3. ASSUME NEW h \in Secret, NEW p \in Path, NEW x \in Value \cup {None}, h.top < MaxVersion
      PROVE  Newest(Written(h, p, x)) = x
  <2>1. h.top \in Nat /\ h.top + 1 \in Version /\ x # Destroyed
    BY <1>3, StoresAssumption DEF Version, Secret
  <2>2. Written(h, p, x).top = h.top + 1 /\ Written(h, p, x).is[h.top + 1] = x
    BY <2>1 DEF Written
  <2> QED BY <2>1, <2>2 DEF Newest
<1> QED BY <1>1, <1>2, <1>3

LEMMA WrittenAlike ==
    ASSUME NEW g \in Secret, NEW h \in Secret, NEW p \in Path, NEW x,
           Alike(g, h), h.top < MaxVersion
    PROVE  Alike(Written(g, p, x), Written(h, p, x))
<1>1. /\ h.top \in Nat /\ h.top + 1 \in Version /\ g.top = h.top
      /\ \A v \in Version : v \in Nat
      /\ Keep[p] \in Nat
  BY StoresAssumption DEF Version, Secret, Alike
<1>2. ASSUME NEW k \in Secret
      PROVE  /\ Written(k, p, x).top = k.top + 1
             /\ \A v \in Version : Written(k, p, x).is[v] =
                   IF v = k.top + 1 THEN x ELSE IF v + Keep[p] <= k.top + 1 THEN None ELSE k.is[v]
  BY DEF Written
<1>3. \A v \in Version : Written(g, p, x).is[v] \in {Written(h, p, x).is[v], Destroyed}
  BY <1>1, <1>2 DEF Alike
<1> QED BY <1>1, <1>2, <1>3 DEF Alike

\* Without versions there is one secret only.
LEMMA NoVersions ==
    ASSUME NEW h \in Secret, Consistent(h), h.top = 0
    PROVE  h = Empty
<1>1. \A v \in Version : h.is[v] = None
  BY DEF Consistent, Version
<1>2. h.is = [v \in Version |-> None]
  BY <1>1 DEF Secret
<1> QED BY <1>2 DEF Secret, Empty

\* A write to the primary and then the same one to the mirror, in Vaults ...
LEMMA WriteAhead ==
    ASSUME NEW j \in Job, NEW g \in Secret, NEW h \in Secret, NEW p \in Path, NEW vaults \in BOOLEAN,
           j.do \in {"put", "rollback"}, j.do = "rollback" => j.copy[Primary] # NotYet,
           Result(j, p) \in Value, Same(g, h, vaults), g.top < MaxVersion
    PROVE  Ahead(j, p, Written(g, p, Result(j, p)), h, vaults)
<1> DEFINE x == Result(j, p)
           w == Written(g, p, x)
<1>1. Newest(w) = x
  BY NewestOf
<1>2. ASSUME vaults PROVE h.top < MaxVersion /\ Alike(w, Written(h, p, x))
  <2>1. Alike(g, h) /\ h.top < MaxVersion
    BY <1>2 DEF Same, Alike
  <2> QED BY <2>1, WrittenAlike
<1> HIDE DEF w
<1>3. Ahead(j, p, w, h, vaults)
  BY <1>1, <1>2 DEF Ahead
<1> QED BY <1>3 DEF w

LEMMA WriteCatchesUp ==
    ASSUME NEW j \in Job, NEW g \in Secret, NEW h \in Secret, NEW p \in Path, NEW vaults \in BOOLEAN,
           j.do \in {"put", "rollback"}, Result(j, p) \in Value,
           Ahead(j, p, g, h, vaults), h.top < MaxVersion
    PROVE  Same(g, Written(h, p, Result(j, p)), vaults)
<1> DEFINE w == Written(h, p, Result(j, p))
<1>1. Newest(w) = Result(j, p)
  BY NewestOf
<1>2. Newest(g) = Result(j, p) /\ (vaults => Alike(g, w))
  BY DEF Ahead
<1> HIDE DEF w
<1>3. Same(g, w, vaults)
  BY <1>1, <1>2 DEF Same
<1> QED BY <1>3 DEF w

\* ... and a deletion.
LEMMA DeleteAhead ==
    ASSUME NEW j \in Job, NEW h, NEW p, NEW vaults, j.do \in {"delete", "tree"}
    PROVE  Ahead(j, p, Empty, h, vaults)
  BY NewestOf DEF Ahead, Result

LEMMA DeleteCatchesUp ==
    ASSUME NEW j \in Job, NEW g, NEW h, NEW p, NEW vaults, j.do \in {"delete", "tree"},
           Ahead(j, p, g, h, vaults)
    PROVE  Same(g, Empty, vaults)
<1>1. Newest(g) = None /\ Newest(Empty) = None
  BY NewestOf DEF Ahead, Result
<1>2. vaults => g = Empty
  BY DEF Ahead
<1>3. Alike(Empty, Empty)
  BY DEF Alike, Empty
<1> QED BY <1>1, <1>2, <1>3 DEF Same

-----------------------------------------------------------------------------
(* Between a primary and its mirrors.                                       *)

\* Idle calls are about nothing; the others have the shape their makers give
\* them, and the mirrors have their turn when the primary is done.
Shaped(j) ==
    /\ j.do = "idle" => j = Idle
    /\ \A s \in Store : j.left[s] \subseteq j.paths
    /\ j.left[Primary] # {} =>
          \A m \in Mirror : j.left[m] = j.paths /\ j.copy[m] = NotYet
    /\ j.do = "put" => \A p \in j.paths : j.vals[p] \in Value
    /\ j.do = "tree" => j.paths = Path
    /\ j.do = "rollback" =>
         /\ j.target \in Version
         /\ \A p, q \in j.paths : p = q
         /\ \A s \in Store : j.copy[s] # NotYet =>
               kind[s] = "vault" /\ \A p \in j.paths : j.copy[s][p] \in Value
    /\ \A s \in Store :
         /\ j.left[s] # {} /\ kind[s] = "file" => j.left[s] = j.paths
         /\ j.left[s] # {} /\ j.do = "tree" /\ j.copy[s] = NotYet => j.left[s] = Path

JobsShaped == \A c \in Client : Shaped(job[c])

SomeFile == \E s \in Store : kind[s] = "file"

\* Calls that overlap have set apart what both are about, in the mirrors,
\* and with a file what either is about, everywhere.
Overlaps ==
    /\ \A c, d \in Client : c # d /\ job[c].do # "idle" /\ job[d].do # "idle" =>
          \A p \in job[c].paths :
             /\ SomeFile => \A s \in Store : <<s, p>> \in parted
             /\ p \in job[d].paths => \A m \in Mirror : <<m, p>> \in parted
    /\ \A p \in Path, m \in Mirror : <<Primary, p>> \in parted => <<m, p>> \in parted

\* A file has one version; the newest version of a path is there; only the
\* primary destroys versions.
Shapes ==
    \A s \in Store, p \in Path :
        /\ kind[s] = "file" => held[s][p] = First(Newest(held[s][p]))
        /\ held[s][p].top > 0 => held[s][p].is[held[s][p].top] # None

\* What a file call has read of the paths it is not about is still there.
FileCopies ==
    \A c \in Client, s \in Store :
        kind[s] = "file" /\ job[c].left[s] # {} /\ job[c].copy[s] # NotYet =>
            \A p \in Path \ job[c].paths :
                <<s, p>> \notin parted => job[c].copy[s][p] = Newest(held[s][p])

BothVaults(m) == kind[Primary] = "vault" /\ kind[m] = "vault"

\* c's call has changed p in the primary and not yet in m.
Behind(c, m, p) == p \in job[c].left[m] \ job[c].left[Primary]

Told(m, p) ==
    <<m, p>> \notin parted =>
        /\ (\A c \in Client : ~Behind(c, m, p)) =>
              Same(held[Primary][p], held[m][p], BothVaults(m))
        /\ \A c \in Client : Behind(c, m, p) =>
              Ahead(job[c], p, held[Primary][p], held[m][p], BothVaults(m))

\* A rollback finds in the mirror what it has found in the primary.
Found(c, m, p) ==
    /\ <<m, p>> \notin parted /\ kind[m] = "vault"
    /\ job[c].do = "rollback" /\ job[c].copy[Primary] # NotYet /\ p \in job[c].left[m]
    => /\ held[m][p].is[job[c].target] = job[c].copy[Primary][p]
       /\ job[c].copy[m] # NotYet => job[c].copy[m][p] = job[c].copy[Primary][p]

MirrorInv ==
    /\ TypeOK /\ JobsShaped /\ Overlaps /\ Shapes /\ FileCopies
    /\ \A m \in Mirror, p \in Path : Told(m, p) /\ \A c \in Client : Found(c, m, p)

-----------------------------------------------------------------------------
(* How a call goes on.                                                      *)

\* The same call as before, R left to do at s.
Continues(j, k, s, R) ==
    /\ k.do = j.do /\ k.vals = j.vals /\ k.paths = j.paths /\ k.target = j.target
    /\ \A t \in Store : k.left[t] = IF t = s THEN R ELSE j.left[t]
    /\ \A t \in Store \ {s} : k.copy[t] = j.copy[t]

\* c's call goes on with R left at s, or returns when nothing is left.
Goes(c, s, R) ==
    /\ kind' = kind /\ parted' = parted
    /\ \A d \in Client \ {c} : job'[d] = job[d]
    /\ \A t \in Store : job'[c].left[t] = IF t = s THEN R ELSE job[c].left[t]
    /\ job'[c] = Idle \/ Continues(job[c], job'[c], s, R)

\* c's call is over for s, or altogether, and those that miss it are set apart.
Stops(c, s) ==
    /\ kind' = kind /\ held' = held
    /\ \A d \in Client \ {c} : job'[d] = job[d]
    /\ job'[c] = Idle \/ (s # Primary /\ Continues(job[c], job'[c], s, {}))
    /\ s # Primary => \A t \in Store : job'[c].left[t] = IF t = s THEN {} ELSE job[c].left[t]
    /\ parted' = parted \cup Missed(job[c], IF s = Primary THEN Mirror ELSE {s})
    /\ job'[c] # Idle => job'[c].copy = job[c].copy

LEMMA LeftOf ==
    ASSUME NEW j \in Job, NEW s \in Store, NEW R \in SUBSET Path,
           NEW k, k = [j EXCEPT !.left = [@ EXCEPT ![s] = R]]
    PROVE  /\ Continues(j, k, s, R) /\ k.copy = j.copy
           /\ \A t \in Store : Settled(k).left[t] = IF t = s THEN R ELSE j.left[t]
           /\ Settled(k) = Idle \/ Settled(k) = k
<1>1. j.left \in [Store -> SUBSET Path]
  BY DEF Job
<1>2. k.left = [j.left EXCEPT ![s] = R]
  BY DEF Job
<1>3. \A t \in Store : k.left[t] = IF t = s THEN R ELSE j.left[t]
  BY <1>1, <1>2
<1>4. /\ k.do = j.do /\ k.vals = j.vals /\ k.paths = j.paths /\ k.target = j.target
      /\ k.copy = j.copy
  BY DEF Job
<1>5. Continues(j, k, s, R)
  BY <1>3, <1>4 DEF Continues
<1>6. \A t \in Store : Settled(k).left[t] = k.left[t]
  <2>1. \A t \in Store : Idle.left[t] = {}
    BY DEF Idle
  <2> QED BY <2>1 DEF Settled
<1>7. Settled(k) = Idle \/ Settled(k) = k
  BY DEF Settled
<1> QED BY <1>3, <1>4, <1>5, <1>6, <1>7

LEMMA AfterGoes ==
    ASSUME TypeOK, NEW c \in Client, NEW s \in Store, NEW R \in SUBSET Path, NEW D,
           After(c, s, R, D, TRUE), kind' = kind
    PROVE  Goes(c, s, R) /\ (job'[c] # Idle => job'[c].copy = job[c].copy)
<1> DEFINE k == [job[c] EXCEPT !.left = [@ EXCEPT ![s] = R]]
<1>1. job[c] \in Job
  BY DEF TypeOK
<1>2. parted' = parted /\ job' = [job EXCEPT ![c] = Settled(k)]
  BY DEF After, Ends
<1>3. /\ Continues(job[c], k, s, R) /\ k.copy = job[c].copy
      /\ \A t \in Store : Settled(k).left[t] = IF t = s THEN R ELSE job[c].left[t]
      /\ Settled(k) = Idle \/ Settled(k) = k
  BY <1>1, LeftOf
<1> HIDE DEF k
<1>4. job'[c] = Settled(k) /\ \A d \in Client \ {c} : job'[d] = job[d]
  BY <1>2 DEF TypeOK
<1> QED BY <1>2, <1>3, <1>4 DEF Goes

LEMMA AfterStops ==
    ASSUME TypeOK, NEW c \in Client, NEW s \in Store, NEW D,
           After(c, s, job[c].left[s], D, FALSE), UNCHANGED <<kind, held>>
    PROVE  Stops(c, s)
<1> DEFINE j == [job[c] EXCEPT !.left = [@ EXCEPT ![s] = job[c].left[s]]]
           k == [j EXCEPT !.left = [@ EXCEPT ![s] = {}]]
<1>1. job[c] \in Job /\ job[c].left \in [Store -> SUBSET Path]
  BY DEF TypeOK, Job
<1>2. j = job[c]
  <2>1. [job[c].left EXCEPT ![s] = job[c].left[s]] = job[c].left
    BY <1>1
  <2> QED BY <1>1, <2>1 DEF Job
<1>3. /\ parted' = parted \cup Missed(j, IF s = Primary THEN Mirror ELSE {s})
      /\ job' = [job EXCEPT ![c] = IF s = Primary THEN Idle ELSE Settled(k)]
  BY DEF After, Ends
<1>4. /\ Continues(j, k, s, {}) /\ k.copy = j.copy
      /\ \A t \in Store : Settled(k).left[t] = IF t = s THEN {} ELSE j.left[t]
      /\ Settled(k) = Idle \/ Settled(k) = k
  <2>1. j \in Job
    BY <1>1, <1>2
  <2>2. k = [j EXCEPT !.left = [@ EXCEPT ![s] = {}]] /\ {} \in SUBSET Path
    OBVIOUS
  <2> HIDE DEF j, k
  <2> QED BY <2>1, <2>2, LeftOf
<1> HIDE DEF k, j
<1>5. /\ job'[c] = IF s = Primary THEN Idle ELSE Settled(k)
      /\ \A d \in Client \ {c} : job'[d] = job[d]
  BY <1>3 DEF TypeOK
<1> QED BY <1>2, <1>3, <1>4, <1>5 DEF Stops

LEMMA CrashStops ==
    ASSUME TypeOK, NEW c \in Client, Crash(c)
    PROVE  Stops(c, Primary)
  BY DEF Crash, Ends, Stops, TypeOK

\* Only what is left no more at s has changed, and what a file call brings
\* back of paths that were set apart.
Touches(c, s, R) ==
    \A t \in Store, q \in Path :
        \/ held'[t][q] = held[t][q]
        \/ t = s /\ q \in job[c].left[s] \ R
        \/ q \notin job[c].paths /\ <<t, q>> \in parted

LEMMA IdleShaped ==
    /\ Shaped(Idle) /\ Idle.do = "idle" /\ Idle.paths = {}
    /\ \A s \in Store : Idle.left[s] = {} /\ Idle.copy[s] = NotYet
  BY DEF Shaped, Idle, Store

\* What a step of c's call at s can rely on.
LEMMA ActiveFacts ==
    ASSUME MirrorInv, NEW c \in Client, NEW s \in Store, Active(c, s)
    PROVE  /\ job[c] \in Job /\ Shaped(job[c]) /\ job[c].do # "idle"
           /\ job[c].left[s] # {} /\ job[c].left[s] \subseteq job[c].paths
           /\ job[c].paths \subseteq Path
           /\ s # Primary => job[c].left[Primary] = {} /\ s \in Mirror
           /\ s = Primary => \A m \in Mirror :
                 job[c].left[m] = job[c].paths /\ job[c].copy[m] = NotYet
<1>1. job[c] \in Job /\ Shaped(job[c])
  BY DEF MirrorInv, TypeOK, JobsShaped
<1>2. job[c].left[s] # {} /\ job[c].do # "idle" /\ (s = Primary \/ job[c].left[Primary] = {})
  BY DEF Active
<1>3. job[c].paths \subseteq Path
  BY <1>1 DEF Job
<1> QED BY <1>1, <1>2, <1>3 DEF Shaped, Store

LEMMA GoesShaped ==
    ASSUME MirrorInv, NEW c \in Client, NEW s \in Store, Active(c, s),
           NEW R, R \subseteq job[c].left[s], Goes(c, s, R),
           kind[s] = "file" => R \in {{}, job[c].left[s]},
           job'[c] # Idle /\ job[c].do = "tree" /\ R # {} => job'[c].copy[s] # NotYet,
           job'[c] # Idle /\ job[c].do = "rollback" /\ job'[c].copy[s] # NotYet =>
              kind[s] = "vault" /\ \A p \in job[c].paths : job'[c].copy[s][p] \in Value
    PROVE  JobsShaped'
<1> DEFINE j == job[c]
           k == job'[c]
<1>1. /\ Shaped(j) /\ j.do # "idle" /\ j.left[s] # {}
      /\ s # Primary => j.left[Primary] = {} /\ s \in Mirror
      /\ kind' = kind
  BY ActiveFacts DEF Goes
<1>2. ASSUME NEW d \in Client \ {c} PROVE Shaped(job[d])'
  <2>1. job'[d] = job[d] /\ Shaped(job[d])
    BY DEF Goes, MirrorInv, JobsShaped
  <2> QED BY <1>1, <2>1 DEF Shaped
<1>3. CASE k = Idle
  <2>1. Shaped(job[c])'
    BY <1>1, <1>3, IdleShaped DEF Shaped
  <2> QED BY <1>2, <2>1 DEF JobsShaped
<1>4. CASE k # Idle
  <2>1. /\ k.do = j.do /\ k.vals = j.vals /\ k.paths = j.paths /\ k.target = j.target
        /\ \A t \in Store : k.left[t] = IF t = s THEN R ELSE j.left[t]
        /\ \A t \in Store \ {s} : k.copy[t] = j.copy[t]
    BY <1>4 DEF Goes, Continues
  <2>2. k.left[Primary] # {} =>
            \A m \in Mirror : k.left[m] = k.paths /\ k.copy[m] = NotYet
    <3>1. s = Primary => \A m \in Mirror : m # s
      BY StoresAssumption
    <3> QED BY <1>1, <2>1, <3>1 DEF Shaped, Store
  <2>3. \A t \in Store : k.left[t] \subseteq k.paths
    BY <1>1, <2>1 DEF Shaped
  <2>4. \A t \in Store : k.left[t] # {} /\ kind[t] = "file" => k.left[t] = k.paths
    BY <1>1, <2>1 DEF Shaped
  <2>5. \A t \in Store : k.left[t] # {} /\ k.do = "tree" /\ k.copy[t] = NotYet => k.left[t] = Path
    BY <1>1, <1>4, <2>1 DEF Shaped
  <2>6. k.do = "rollback" => \A t \in Store : k.copy[t] # NotYet =>
            kind[t] = "vault" /\ \A p \in k.paths : k.copy[t][p] \in Value
    BY <1>1, <1>4, <2>1 DEF Shaped
  <2>7. /\ k.do # "idle"
        /\ k.do = "put" => \A p \in k.paths : k.vals[p] \in Value
        /\ k.do = "tree" => k.paths = Path
        /\ k.do = "rollback" => k.target \in Version /\ \A p, q \in k.paths : p = q
    BY <1>1, <2>1 DEF Shaped
  <2>8. Shaped(job[c])'
    BY <1>1, <2>2, <2>3, <2>4, <2>5, <2>6, <2>7 DEF Shaped
  <2> QED BY <1>2, <2>8 DEF JobsShaped
<1> QED BY <1>3, <1>4

LEMMA GoesOverlaps ==
    ASSUME MirrorInv, NEW c \in Client, NEW s \in Store, NEW R, Goes(c, s, R)
    PROVE  Overlaps'
<1>1. kind' = kind /\ parted' = parted /\ \A d \in Client \ {c} : job'[d] = job[d]
  BY DEF Goes
<1>2. \A d \in Client : job'[d].do # "idle" => job'[d].do = job[d].do /\ job'[d].paths = job[d].paths
  BY IdleShaped DEF Goes, Continues
<1> QED BY <1>1, <1>2 DEF MirrorInv, Overlaps, SomeFile

\* Where a path is not set apart, only one call is about it.
LEMMA OneCall ==
    ASSUME MirrorInv, NEW c \in Client, NEW d \in Client, c # d, job[c].do # "idle",
           NEW m \in Mirror, NEW p \in job[c].paths, <<m, p>> \notin parted
    PROVE  /\ p \notin job[d].paths /\ \A s \in Store : p \notin job[d].left[s]
<1>1. Shaped(job[d])
  BY DEF MirrorInv, JobsShaped
<1>2. p \notin job[d].paths
  <2>1. CASE job[d].do = "idle"
    BY <1>1, <2>1, IdleShaped DEF Shaped
  <2>2. CASE job[d].do # "idle"
    BY <2>2 DEF MirrorInv, Overlaps
  <2> QED BY <2>1, <2>2
<1> QED BY <1>1, <1>2 DEF Shaped

LEMMA GoesCopies ==
    ASSUME MirrorInv, NEW c \in Client, NEW s \in Store, Active(c, s), NEW R,
           Goes(c, s, R), Touches(c, s, R),
           job'[c] # Idle /\ kind[s] = "file" /\ R # {} /\ job'[c].copy[s] # NotYet =>
              \A p \in Path \ job[c].paths :
                 <<s, p>> \notin parted => job'[c].copy[s][p] = Newest(held[s][p])
    PROVE  FileCopies'
<1>1. /\ job[c].do # "idle" /\ job[c].left[s] \subseteq job[c].paths
      /\ kind' = kind /\ parted' = parted
  BY ActiveFacts DEF Goes
<1> SUFFICES ASSUME NEW d \in Client, NEW t \in Store, kind[t] = "file",
                    job'[d].left[t] # {}, job'[d].copy[t] # NotYet,
                    NEW p \in Path \ job'[d].paths, <<t, p>> \notin parted
             PROVE  job'[d].copy[t][p] = Newest(held'[t][p])
  BY <1>1 DEF FileCopies
<1>2. p \notin job[c].paths => held'[t][p] = held[t][p]
  BY <1>1 DEF Touches
<1>3. CASE d = c
  <2>1. /\ job'[c] # Idle /\ job'[c].paths = job[c].paths
        /\ \A u \in Store : job'[c].left[u] = IF u = s THEN R ELSE job[c].left[u]
        /\ \A u \in Store \ {s} : job'[c].copy[u] = job[c].copy[u]
    BY <1>3, IdleShaped DEF Goes, Continues
  <2> QED BY <1>2, <1>3, <2>1 DEF MirrorInv, FileCopies
<1>4. CASE d # c
  <2>1. job'[d] = job[d]
    BY <1>4 DEF Goes
  <2>2. job[d].do # "idle"
    BY <2>1, IdleShaped DEF MirrorInv, JobsShaped, Shaped
  <2>3. p \notin job[c].paths
    BY <1>1, <1>4, <2>2 DEF MirrorInv, Overlaps, SomeFile
  <2> QED BY <1>2, <2>1, <2>3 DEF MirrorInv, FileCopies
<1> QED BY <1>3, <1>4

LEMMA AheadSame ==
    ASSUME NEW j, NEW k, NEW p, NEW g, NEW h, NEW vaults,
           k.do = j.do, k.vals = j.vals, j.do = "rollback" => k.copy[Primary] = j.copy[Primary],
           Ahead(j, p, g, h, vaults)
    PROVE  Ahead(k, p, g, h, vaults)
  BY DEF Ahead, Result

\* A step that changes what the call is about keeps mirrors told, if it takes
\* the primary ahead, or lets the mirror catch up.
LEMMA GoesTold ==
    ASSUME MirrorInv, NEW c \in Client, NEW s \in Store, Active(c, s),
           NEW R, R \subseteq job[c].left[s], Goes(c, s, R), Touches(c, s, R),
           s = Primary => \A n \in Mirror, q \in job[c].left[s] \ R :
              <<n, q>> \notin parted /\ Same(held[s][q], held[n][q], BothVaults(n)) =>
                 Ahead(job[c], q, held'[s][q], held[n][q], BothVaults(n)),
           s # Primary => \A q \in job[c].left[s] \ R :
              <<s, q>> \notin parted /\ Ahead(job[c], q, held[Primary][q], held[s][q], BothVaults(s)) =>
                 Same(held[Primary][q], held'[s][q], BothVaults(s)),
           job'[c] # Idle /\ job[c].do = "rollback" /\ job'[c].left[Primary] # job[c].paths =>
              job'[c].copy[Primary] = job[c].copy[Primary],
           NEW m \in Mirror, NEW p \in Path
    PROVE  Told(m, p)'
<1>0. /\ Shaped(job[c]) /\ job[c].do # "idle" /\ job[c].left[s] \subseteq job[c].paths
      /\ s # Primary => job[c].left[Primary] = {} /\ s \in Mirror
      /\ s = Primary => \A n \in Mirror : job[c].left[n] = job[c].paths
      /\ kind' = kind /\ parted' = parted /\ m # Primary /\ m \in Store /\ Primary \in Store
      /\ \A d \in Client \ {c} : job'[d] = job[d]
      /\ \A t \in Store : job'[c].left[t] = IF t = s THEN R ELSE job[c].left[t]
  BY ActiveFacts, StoresAssumption DEF Goes, Store
<1> SUFFICES ASSUME <<m, p>> \notin parted
             PROVE  /\ (\A d \in Client : ~Behind(d, m, p)') =>
                          Same(held'[Primary][p], held'[m][p], BothVaults(m))
                    /\ \A d \in Client : Behind(d, m, p)' =>
                          Ahead(job'[d], p, held'[Primary][p], held'[m][p], BothVaults(m))
  BY <1>0 DEF Told, BothVaults
<1>1. /\ (\A d \in Client : ~Behind(d, m, p)) =>
            Same(held[Primary][p], held[m][p], BothVaults(m))
      /\ \A d \in Client : Behind(d, m, p) =>
            Ahead(job[d], p, held[Primary][p], held[m][p], BothVaults(m))
  BY DEF MirrorInv, Told
<1>2. \A d \in Client \ {c} : (Behind(d, m, p)' <=> Behind(d, m, p)) /\ job'[d] = job[d]
  BY <1>0 DEF Behind
<1>3. Behind(c, m, p)' => /\ job'[c] # Idle
                          /\ job'[c].do = job[c].do /\ job'[c].vals = job[c].vals
                          /\ job[c].do = "rollback" => job'[c].copy[Primary] = job[c].copy[Primary]
  <2> SUFFICES ASSUME Behind(c, m, p)'
               PROVE  /\ job'[c] # Idle
                      /\ job'[c].do = job[c].do /\ job'[c].vals = job[c].vals
                      /\ job[c].do = "rollback" => job'[c].copy[Primary] = job[c].copy[Primary]
    OBVIOUS
  <2>1. job'[c] # Idle
    BY <1>0, IdleShaped DEF Behind
  <2>2. job'[c].do = job[c].do /\ job'[c].vals = job[c].vals
    BY <2>1 DEF Goes, Continues
  <2>3. p \in job[c].paths /\ p \notin job'[c].left[Primary]
    BY <1>0 DEF Behind, Shaped
  <2> QED BY <2>1, <2>2, <2>3
<1>4. ASSUME held'[Primary][p] = held[Primary][p], held'[m][p] = held[m][p],
             Behind(c, m, p)' <=> Behind(c, m, p)
      PROVE  /\ (\A d \in Client : ~Behind(d, m, p)') =>
                   Same(held'[Primary][p], held'[m][p], BothVaults(m))
             /\ \A d \in Client : Behind(d, m, p)' =>
                   Ahead(job'[d], p, held'[Primary][p], held'[m][p], BothVaults(m))
  <2>1. ASSUME NEW d \in Client, Behind(d, m, p)'
        PROVE  Ahead(job'[d], p, held'[Primary][p], held'[m][p], BothVaults(m))
    <3>1. Behind(d, m, p)
      BY <1>2, <1>4, <2>1
    <3>2. Ahead(job[d], p, held[Primary][p], held[m][p], BothVaults(m))
      BY <1>1, <3>1
    <3>3. CASE d = c
      BY <1>3, <1>4, <2>1, <3>2, <3>3, AheadSame
    <3>4. CASE d # c
      BY <1>2, <1>4, <3>2, <3>4
    <3> QED BY <3>3, <3>4
  <2>2. (\A d \in Client : ~Behind(d, m, p)') => \A d \in Client : ~Behind(d, m, p)
    BY <1>2, <1>4
  <2> QED BY <1>1, <1>4, <2>1, <2>2
<1>5. CASE p \notin job[c].paths
  <2>1. <<Primary, p>> \notin parted
    BY DEF MirrorInv, Overlaps
  <2>2. held'[Primary][p] = held[Primary][p] /\ held'[m][p] = held[m][p]
    BY <1>0, <1>5, <2>1 DEF Touches
  <2>3. p \notin job[c].left[m] /\ p \notin job'[c].left[m]
    BY <1>0, <1>5 DEF Shaped
  <2> QED BY <1>4, <2>2, <2>3 DEF Behind
<1>6. CASE p \in job[c].paths /\ ~(s \in {Primary, m} /\ p \in job[c].left[s] \ R)
  <2>1. held'[Primary][p] = held[Primary][p] /\ held'[m][p] = held[m][p]
    BY <1>0, <1>6 DEF Touches
  <2>2. Behind(c, m, p)' <=> Behind(c, m, p)
    BY <1>0, <1>6 DEF Behind
  <2> QED BY <1>4, <2>1, <2>2
<1>7. CASE p \in job[c].paths /\ s \in {Primary, m} /\ p \in job[c].left[s] \ R
  <2>1. \A d \in Client \ {c} : ~Behind(d, m, p) /\ ~Behind(d, m, p)'
    <3>1. \A d \in Client \ {c} : p \notin job[d].left[m]
      BY <1>0, <1>7, OneCall
    <3> QED BY <1>2, <3>1 DEF Behind
  <2>2. CASE s = Primary
    <3>1. ~Behind(c, m, p) /\ Behind(c, m, p)'
      BY <1>0, <1>7, <2>2 DEF Behind
    <3>2. Same(held[Primary][p], held[m][p], BothVaults(m))
      BY <1>1, <2>1, <3>1
    <3>3. Ahead(job[c], p, held'[Primary][p], held[m][p], BothVaults(m))
      BY <1>7, <2>2, <3>2
    <3>4. held'[m][p] = held[m][p]
      BY <1>0, <1>7, <2>2 DEF Touches
    <3>5. Ahead(job'[c], p, held'[Primary][p], held'[m][p], BothVaults(m))
      BY <1>3, <3>1, <3>3, <3>4, AheadSame
    <3> QED BY <2>1, <3>1, <3>5
  <2>3. CASE s = m
    <3>1. Behind(c, m, p) /\ ~Behind(c, m, p)'
      BY <1>0, <1>7, <2>3 DEF Behind
    <3>2. Ahead(job[c], p, held[Primary][p], held[m][p], BothVaults(m))
      BY <1>1, <3>1
    <3>3. Same(held[Primary][p], held'[m][p], BothVaults(m))
      BY <1>0, <1>7, <2>3, <3>2
    <3>4. held'[Primary][p] = held[Primary][p]
      BY <1>0, <1>7, <2>3 DEF Touches
    <3> QED BY <2>1, <3>1, <3>3, <3>4
  <2> QED BY <1>7, <2>2, <2>3
<1> QED BY <1>5, <1>6, <1>7

LEMMA GoesFound ==
    ASSUME MirrorInv, NEW c \in Client, NEW s \in Store, Active(c, s),
           NEW R, R \subseteq job[c].left[s], Goes(c, s, R), Touches(c, s, R),
           job'[c] # Idle /\ job[c].do = "rollback" => job'[c].copy = job[c].copy,
           NEW m \in Mirror, NEW p \in Path, NEW d \in Client
    PROVE  Found(d, m, p)'
<1>0. /\ Shaped(job[c]) /\ job[c].do # "idle"
      /\ kind' = kind /\ parted' = parted /\ m # Primary /\ m \in Store
      /\ \A t \in Store : job'[c].left[t] = IF t = s THEN R ELSE job[c].left[t]
  BY ActiveFacts, StoresAssumption DEF Goes, Store
<1> SUFFICES ASSUME <<m, p>> \notin parted, kind[m] = "vault",
                    job'[d].do = "rollback", job'[d].copy[Primary] # NotYet, p \in job'[d].left[m]
             PROVE  /\ held'[m][p].is[job'[d].target] = job'[d].copy[Primary][p]
                    /\ job'[d].copy[m] # NotYet => job'[d].copy[m][p] = job'[d].copy[Primary][p]
  BY <1>0 DEF Found
<1>1. /\ job'[d].do = job[d].do /\ job'[d].target = job[d].target
      /\ job'[d].copy = job[d].copy /\ p \in job[d].left[m]
  <2>1. CASE d = c
    <3>1. job'[c] # Idle
      BY <2>1, IdleShaped
    <3>2. job'[c].do = job[c].do /\ job'[c].target = job[c].target
      BY <3>1 DEF Goes, Continues
    <3> QED BY <1>0, <2>1, <3>1, <3>2
  <2>2. CASE d # c
    BY <2>2 DEF Goes
  <2> QED BY <2>1, <2>2
<1>2. held'[m][p] = held[m][p]
  <2>1. CASE d = c
    <3>1. p \in job[c].paths /\ ~(m = s /\ p \in job[c].left[s] \ R)
      BY <1>0, <1>1, <2>1 DEF Shaped
    <3> QED BY <1>0, <3>1 DEF Touches
  <2>2. CASE d # c
    <3>1. p \notin job[c].paths
      BY <1>0, <1>1, <2>2, OneCall
    <3>2. ~(m = s /\ p \in job[c].left[s] \ R)
      BY <1>0, <3>1 DEF Shaped
    <3> QED BY <1>0, <3>1, <3>2 DEF Touches
  <2> QED BY <2>1, <2>2
<1> QED BY <1>1, <1>2 DEF MirrorInv, Found

LEMMA StopsInv ==
    ASSUME MirrorInv, TypeOK', NEW c \in Client, NEW s \in Store, job[c].do # "idle",
           s # Primary => job[c].left[Primary] = {}, Stops(c, s)
    PROVE  MirrorInv'
<1> DEFINE j == job[c]
           k == job'[c]
<1>0. /\ Shaped(j) /\ kind' = kind /\ held' = held
      /\ Primary \notin Mirror /\ Primary \in Store /\ (s # Primary => s \in Mirror) /\ Mirror \subseteq Store
      /\ \A d \in Client \ {c} : job'[d] = job[d]
  BY StoresAssumption DEF MirrorInv, JobsShaped, Stops, Store
<1>1. k # Idle => /\ s # Primary /\ k.copy = j.copy
                  /\ k.do = j.do /\ k.vals = j.vals /\ k.paths = j.paths /\ k.target = j.target
                  /\ \A t \in Store : k.left[t] = IF t = s THEN {} ELSE j.left[t]
  BY DEF Stops, Continues
<1>2. parted \subseteq parted' /\ \A p \in Path : <<Primary, p>> \in parted' => <<Primary, p>> \in parted
  BY <1>0 DEF Stops, Missed
<1>3. JobsShaped'
  <2>1. ASSUME NEW d \in Client \ {c} PROVE Shaped(job[d])'
    <3>1. job'[d] = job[d] /\ Shaped(job[d])
      BY <1>0 DEF MirrorInv, JobsShaped
    <3> QED BY <1>0, <3>1 DEF Shaped
  <2>2. CASE k = Idle
    <3>1. Shaped(job[c])'
      BY <1>0, <2>2, IdleShaped DEF Shaped
    <3> QED BY <2>1, <3>1 DEF JobsShaped
  <2>3. CASE k # Idle
    <3>1. k.left[Primary] = {}
      BY <1>0, <1>1, <2>3
    <3>2. Shaped(job[c])'
      BY <1>0, <1>1, <2>3, <3>1 DEF Shaped
    <3> QED BY <2>1, <3>2 DEF JobsShaped
  <2> QED BY <2>2, <2>3
<1>4. Overlaps'
  <2>1. \A d \in Client : job'[d].do # "idle" => job'[d].do = job[d].do /\ job'[d].paths = job[d].paths
    BY <1>0, <1>1, IdleShaped
  <2> QED BY <1>0, <1>2, <2>1 DEF MirrorInv, Overlaps, SomeFile
<1>5. Shapes'
  BY <1>0 DEF MirrorInv, Shapes
<1>6. FileCopies'
  <2>1. \A d \in Client, t \in Store : job'[d].left[t] # {} =>
            /\ job'[d].left[t] = job[d].left[t] /\ job'[d].copy = job[d].copy
            /\ job'[d].paths = job[d].paths
    BY <1>0, <1>1, IdleShaped
  <2> QED BY <1>0, <1>2, <2>1 DEF MirrorInv, FileCopies
<1>7. ASSUME NEW m \in Mirror, NEW p \in Path PROVE Told(m, p)'
  <2> SUFFICES ASSUME <<m, p>> \notin parted'
               PROVE  /\ (\A d \in Client : ~Behind(d, m, p)') =>
                            Same(held[Primary][p], held[m][p], BothVaults(m))
                      /\ \A d \in Client : Behind(d, m, p)' =>
                            Ahead(job'[d], p, held[Primary][p], held[m][p], BothVaults(m))
    BY <1>0 DEF Told, BothVaults
  <2>1. Behind(c, m, p)' <=> Behind(c, m, p)
    <3>1. CASE s = Primary
      <4>1. ~Behind(c, m, p)'
        BY <1>0, <1>1, <3>1, IdleShaped DEF Behind
      <4>2. ~Behind(c, m, p)
        BY <1>0, <3>1 DEF Behind, Stops, Missed, Shaped
      <4> QED BY <4>1, <4>2
    <3>2. CASE s # Primary
      <4>1. \A t \in Store : k.left[t] = IF t = s THEN {} ELSE j.left[t]
        BY <3>2 DEF Stops
      <4>2. CASE m = s
        <5>1. ~Behind(c, m, p)
          BY <1>0, <3>2, <4>2 DEF Behind, Stops, Missed, Shaped
        <5> QED BY <1>0, <4>1, <4>2, <5>1 DEF Behind
      <4>3. CASE m # s
        BY <1>0, <3>2, <4>1, <4>3 DEF Behind
      <4> QED BY <4>2, <4>3
    <3> QED BY <3>1, <3>2
  <2>2. \A d \in Client : Behind(d, m, p)' <=> Behind(d, m, p)
    BY <1>0, <2>1 DEF Behind
  <2>3. <<m, p>> \notin parted
    BY <1>2
  <2>4. ASSUME NEW d \in Client, Behind(d, m, p)'
        PROVE  Ahead(job'[d], p, held[Primary][p], held[m][p], BothVaults(m))
    <3>1. Ahead(job[d], p, held[Primary][p], held[m][p], BothVaults(m))
      BY <2>2, <2>3, <2>4 DEF MirrorInv, Told
    <3>2. CASE d = c
      <4>1. k # Idle
        BY <1>0, <2>4, <3>2, IdleShaped DEF Behind
      <4> QED BY <1>1, <3>1, <3>2, <4>1, AheadSame
    <3>3. CASE d # c
      BY <1>0, <3>1, <3>3
    <3> QED BY <3>2, <3>3
  <2> QED BY <2>2, <2>3, <2>4 DEF MirrorInv, Told
<1>8. ASSUME NEW m \in Mirror, NEW p \in Path, NEW d \in Client PROVE Found(d, m, p)'
  <2>1. job'[d].left[m] # {} =>
            /\ job'[d].left[m] = job[d].left[m] /\ job'[d].copy = job[d].copy
            /\ job'[d].do = job[d].do /\ job'[d].target = job[d].target
    BY <1>0, <1>1, IdleShaped
  <2>2. Found(d, m, p)
    BY DEF MirrorInv
  <2> QED BY <1>0, <1>2, <2>1, <2>2 DEF Found
<1> QED BY <1>3, <1>4, <1>5, <1>6, <1>7, <1>8 DEF MirrorInv

-----------------------------------------------------------------------------
(* Every step keeps the mirrors told.                                       *)

LEMMA HeldOf ==
    ASSUME TypeOK, NEW s \in Store, NEW p \in Path, NEW h, Store1(s, p, h)
    PROVE  \A t \in Store, q \in Path : held'[t][q] = IF t = s /\ q = p THEN h ELSE held[t][q]
  BY DEF TypeOK, Store1

LEMMA WriteShapes ==
    ASSUME MirrorInv, NEW s \in Store, NEW p \in Path, NEW x \in Value, kind' = kind,
           kind[s] = "vault", held[s][p].top < MaxVersion,
           Store1(s, p, Written(held[s][p], p, x))
    PROVE  Shapes'
<1> DEFINE w == Written(held[s][p], p, x)
<1>1. w.top > 0 => w.is[w.top] # None
  <2>1. held[s][p].top \in Nat /\ held[s][p].top + 1 \in Version /\ x # None
    BY StoresAssumption DEF MirrorInv, TypeOK, Secret, Version
  <2> QED BY <2>1 DEF Written
<1> HIDE DEF w
<1>2. \A t \in Store, q \in Path : held'[t][q] = IF t = s /\ q = p THEN w ELSE held[t][q]
  BY HeldOf DEF MirrorInv, w
<1> QED BY <1>1, <1>2 DEF MirrorInv, Shapes

LEMMA EmptyShapes ==
    ASSUME MirrorInv, NEW s \in Store, NEW p \in Path, kind' = kind,
           kind[s] = "vault", Store1(s, p, Empty)
    PROVE  Shapes'
<1>1. Empty.top = 0
  BY DEF Empty
<1>2. \A t \in Store, q \in Path : held'[t][q] = IF t = s /\ q = p THEN Empty ELSE held[t][q]
  BY HeldOf DEF MirrorInv
<1> QED BY <1>1, <1>2 DEF MirrorInv, Shapes

LEMMA FileShapes ==
    ASSUME MirrorInv, NEW s \in Store, NEW x \in Contents, kind' = kind,
           held' = [held EXCEPT ![s] = [p \in Path |-> First(x[p])]]
    PROVE  Shapes'
<1>1. \A t \in Store, p \in Path : held'[t][p] = IF t = s THEN First(x[p]) ELSE held[t][p]
  BY DEF MirrorInv, TypeOK
<1>2. ASSUME NEW y \in Value \cup {None}
      PROVE  First(y) = First(Newest(First(y))) /\ (First(y).top > 0 => First(y).is[First(y).top] # None)
  <2>1. Newest(First(y)) = y
    BY NewestOf
  <2>2. 1 \in Version
    BY StoresAssumption DEF Version
  <2> QED BY <2>1, <2>2 DEF First, Empty
<1>3. \A p \in Path : x[p] \in Value \cup {None}
  BY DEF Contents
<1>4. \A p \in Path : /\ First(x[p]) = First(Newest(First(x[p])))
                      /\ First(x[p]).top > 0 => First(x[p]).is[First(x[p]).top] # None
  BY <1>2, <1>3
<1> QED BY <1>1, <1>4 DEF MirrorInv, Shapes

\* A step that ends with a part of the call done, or with a file written.
LEMMA DoneInv ==
    ASSUME MirrorInv, TypeOK', NEW c \in Client, NEW s \in Store, Active(c, s),
           NEW R, R \subseteq job[c].left[s], NEW D, After(c, s, R, D, TRUE), kind' = kind,
           Touches(c, s, R), Shapes',
           kind[s] = "file" => R = {},
           job[c].do = "tree" /\ R # {} => job[c].copy[s] # NotYet,
           s = Primary => \A n \in Mirror, q \in job[c].left[s] \ R :
              <<n, q>> \notin parted /\ Same(held[s][q], held[n][q], BothVaults(n)) =>
                 Ahead(job[c], q, held'[s][q], held[n][q], BothVaults(n)),
           s # Primary => \A q \in job[c].left[s] \ R :
              <<s, q>> \notin parted /\ Ahead(job[c], q, held[Primary][q], held[s][q], BothVaults(s)) =>
                 Same(held[Primary][q], held'[s][q], BothVaults(s))
    PROVE  MirrorInv'
<1>1. Shaped(job[c]) /\ R \in SUBSET Path /\ job[c].left[s] # {}
  <2>1. job[c].left[s] \subseteq job[c].paths /\ job[c].paths \subseteq Path
    BY ActiveFacts
  <2> QED BY <2>1, ActiveFacts
<1>2. Goes(c, s, R) /\ (job'[c] # Idle => job'[c].copy = job[c].copy)
  BY <1>1, AfterGoes DEF MirrorInv
<1>3. JobsShaped'
  <2>1. job'[c] # Idle /\ job[c].do = "rollback" /\ job'[c].copy[s] # NotYet =>
           kind[s] = "vault" /\ \A p \in job[c].paths : job'[c].copy[s][p] \in Value
    BY <1>1, <1>2 DEF Shaped
  <2> QED BY <1>2, <2>1, GoesShaped
<1>4. Overlaps'
  BY <1>2, GoesOverlaps
<1>5. FileCopies'
  BY <1>2, GoesCopies
<1>6. \A m \in Mirror, p \in Path : Told(m, p)'
  BY <1>2, GoesTold
<1>7. \A m \in Mirror, p \in Path, d \in Client : Found(d, m, p)'
  BY <1>2, GoesFound
<1> QED BY <1>3, <1>4, <1>5, <1>6, <1>7 DEF MirrorInv

LEMMA PutPathMirrors ==
    ASSUME MirrorInv, TypeOK', NEW c \in Client, NEW s \in Store, NEW p \in Path, PutPath(c, s, p)
    PROVE  MirrorInv'
<1> DEFINE R == job[c].left[s] \ {p}
           x == Result(job[c], p)
<1>1. /\ Active(c, s) /\ kind[s] = "vault" /\ job[c].do = "put" /\ p \in job[c].left[s]
      /\ held[s][p].top < MaxVersion /\ kind' = kind /\ After(c, s, R, {}, TRUE)
      /\ Store1(s, p, Written(held[s][p], p, x)) /\ x = job[c].vals[p]
  BY DEF PutPath, Result
<1>2. /\ job[c] \in Job /\ x \in Value
      /\ \A t \in Store, q \in Path : held[t][q] \in Secret
  BY <1>1, ActiveFacts DEF Shaped, MirrorInv, TypeOK
<1>3. \A t \in Store, q \in Path :
         held'[t][q] = IF t = s /\ q = p THEN Written(held[s][p], p, x) ELSE held[t][q]
  BY <1>1, HeldOf DEF MirrorInv
<1>4. Touches(c, s, R)
  BY <1>1, <1>3 DEF Touches
<1>5. Shapes'
  BY <1>1, <1>2, WriteShapes
<1>6. ASSUME s = Primary, NEW n \in Mirror, Same(held[s][p], held[n][p], BothVaults(n))
      PROVE  Ahead(job[c], p, held'[s][p], held[n][p], BothVaults(n))
  <2>1. Ahead(job[c], p, Written(held[s][p], p, x), held[n][p], BothVaults(n))
    BY <1>1, <1>2, <1>6, WriteAhead DEF Store, BothVaults
  <2> QED BY <1>3, <2>1
<1>7. ASSUME s # Primary, Ahead(job[c], p, held[Primary][p], held[s][p], BothVaults(s))
      PROVE  Same(held[Primary][p], held'[s][p], BothVaults(s))
  <2>1. Same(held[Primary][p], Written(held[s][p], p, x), BothVaults(s))
    BY <1>1, <1>2, <1>7, WriteCatchesUp DEF Store, BothVaults
  <2> QED BY <1>3, <2>1
<1>8. R \subseteq job[c].left[s] /\ \A q \in job[c].left[s] \ R : q = p
  OBVIOUS
<1> HIDE DEF R, x
<1> QED BY <1>1, <1>4, <1>5, <1>6, <1>7, <1>8, DoneInv

LEMMA RollbackWriteMirrors ==
    ASSUME MirrorInv, TypeOK', NEW c \in Client, NEW s \in Store, NEW p \in Path, RollbackWrite(c, s, p)
    PROVE  MirrorInv'
<1> DEFINE x == job[c].copy[s][p]
<1>1. /\ Active(c, s) /\ kind[s] = "vault" /\ job[c].do = "rollback" /\ p \in job[c].left[s]
      /\ job[c].copy[s] # NotYet
      /\ held[s][p].top < MaxVersion /\ kind' = kind /\ After(c, s, {}, {}, TRUE)
      /\ Store1(s, p, Written(held[s][p], p, x))
  BY DEF RollbackWrite
<1>2. /\ job[c] \in Job /\ x \in Value /\ job[c].left[s] = {p}
      /\ \A t \in Store, q \in Path : held[t][q] \in Secret
  <2>1. /\ job[c] \in Job /\ p \in job[c].paths /\ job[c].left[s] \subseteq job[c].paths
        /\ Shaped(job[c])
    BY <1>1, ActiveFacts
  <2>2. (\A q \in job[c].paths : q = p) /\ x \in Value
    BY <1>1, <2>1 DEF Shaped
  <2> QED BY <1>1, <2>1, <2>2 DEF MirrorInv, TypeOK
<1>3. \A t \in Store, q \in Path :
         held'[t][q] = IF t = s /\ q = p THEN Written(held[s][p], p, x) ELSE held[t][q]
  BY <1>1, HeldOf DEF MirrorInv
<1>4. Touches(c, s, {})
  BY <1>2, <1>3 DEF Touches
<1>5. Shapes'
  BY <1>1, <1>2, WriteShapes
<1>6. ASSUME s = Primary, NEW n \in Mirror, Same(held[s][p], held[n][p], BothVaults(n))
      PROVE  Ahead(job[c], p, held'[s][p], held[n][p], BothVaults(n))
  <2>1. Result(job[c], p) = x
    BY <1>1, <1>6 DEF Result
  <2>2. Ahead(job[c], p, Written(held[s][p], p, x), held[n][p], BothVaults(n))
    BY <1>1, <1>2, <1>6, <2>1, WriteAhead DEF Store, BothVaults
  <2> QED BY <1>3, <2>2
<1>7. ASSUME s # Primary, <<s, p>> \notin parted,
             Ahead(job[c], p, held[Primary][p], held[s][p], BothVaults(s))
      PROVE  Same(held[Primary][p], held'[s][p], BothVaults(s))
  <2>1. Result(job[c], p) = x
    <3>1. job[c].copy[Primary] # NotYet /\ Found(c, s, p)
      BY <1>1, <1>7, ActiveFacts DEF Ahead, MirrorInv
    <3> QED BY <1>1, <1>7, <3>1 DEF Found, Result
  <2>2. Same(held[Primary][p], Written(held[s][p], p, x), BothVaults(s))
    BY <1>1, <1>2, <1>7, <2>1, WriteCatchesUp DEF Store, BothVaults
  <2> QED BY <1>3, <2>2
<1> HIDE DEF x
<1> QED BY <1>1, <1>2, <1>4, <1>5, <1>6, <1>7, DoneInv

LEMMA DeletePathMirrors ==
    ASSUME MirrorInv, TypeOK', NEW c \in Client, NEW s \in Store, NEW p \in Path, DeletePath(c, s, p)
    PROVE  MirrorInv'
<1> DEFINE R == job[c].left[s] \ {p}
<1>1. /\ Active(c, s) /\ kind[s] = "vault" /\ p \in job[c].left[s]
      /\ job[c].do \in {"delete", "tree"} /\ (job[c].do = "tree" => job[c].copy[s] # NotYet)
      /\ kind' = kind /\ After(c, s, R, {p}, TRUE) /\ Store1(s, p, Empty)
  BY DEF DeletePath
<1>2. job[c] \in Job
  BY <1>1, ActiveFacts
<1>3. \A t \in Store, q \in Path : held'[t][q] = IF t = s /\ q = p THEN Empty ELSE held[t][q]
  BY <1>1, HeldOf DEF MirrorInv
<1>4. Touches(c, s, R)
  BY <1>1, <1>3 DEF Touches
<1>5. Shapes'
  BY <1>1, EmptyShapes
<1>6. ASSUME s = Primary, NEW n \in Mirror
      PROVE  Ahead(job[c], p, held'[s][p], held[n][p], BothVaults(n))
  BY <1>1, <1>2, <1>3, DeleteAhead
<1>7. ASSUME s # Primary, Ahead(job[c], p, held[Primary][p], held[s][p], BothVaults(s))
      PROVE  Same(held[Primary][p], held'[s][p], BothVaults(s))
  BY <1>1, <1>2, <1>3, <1>7, DeleteCatchesUp
<1>8. R \subseteq job[c].left[s] /\ \A q \in job[c].left[s] \ R : q = p
  OBVIOUS
<1> HIDE DEF R
<1> QED BY <1>1, <1>4, <1>5, <1>6, <1>7, <1>8, DoneInv

LEMMA ListTreeMirrors ==
    ASSUME MirrorInv, TypeOK', NEW c \in Client, NEW s \in Store, ListTree(c, s)
    PROVE  MirrorInv'
<1> DEFINE known == {p \in Path : held[s][p].top > 0}
           y == [p \in Path |-> Current(s, p)]
           listed == Copied(c, s, y)
           k == [listed EXCEPT !.left = [@ EXCEPT ![s] = known]]
<1>1. /\ Active(c, s) /\ kind[s] = "vault" /\ job[c].do = "tree" /\ job[c].copy[s] = NotYet
      /\ Ends(c, Settled(k), {}) /\ UNCHANGED <<kind, held, parted, calls>>
  BY DEF ListTree
<1>2. job[c] \in Job /\ Shaped(job[c]) /\ job[c].left[s] = Path
  BY <1>1, ActiveFacts DEF Shaped
<1>3. y \in Contents /\ y # NotYet
  <2>1. 0 \in 0..MaxVersion
    BY StoresAssumption
  <2> QED BY <2>1, CurrentType, StoresAssumption DEF Contents, MirrorInv
<1>4. /\ listed \in Job /\ listed.do = job[c].do /\ listed.vals = job[c].vals
      /\ listed.paths = job[c].paths /\ listed.target = job[c].target /\ listed.left = job[c].left
      /\ \A t \in Store : listed.copy[t] = IF t = s THEN y ELSE job[c].copy[t]
  <2> HIDE DEF y
  <2>1. job[c].copy \in [Store -> {NotYet} \cup Contents]
    BY <1>2 DEF Job
  <2>2. listed \in Job
    BY <1>2, <1>3, JobParts DEF Copied
  <2> QED BY <1>2, <2>1, <2>2 DEF Copied, Job
<1>5. /\ Continues(listed, k, s, known) /\ k.copy = listed.copy
      /\ \A t \in Store : Settled(k).left[t] = IF t = s THEN known ELSE listed.left[t]
      /\ Settled(k) = Idle \/ Settled(k) = k
  <2>1. k = [listed EXCEPT !.left = [@ EXCEPT ![s] = known]] /\ known \in SUBSET Path
    OBVIOUS
  <2> HIDE DEF listed, known, k
  <2> QED BY <1>4, <2>1, LeftOf
<1>6. job'[c] = Settled(k) /\ \A d \in Client \ {c} : job'[d] = job[d]
  <2> HIDE DEF k
  <2> QED BY <1>1 DEF Ends, MirrorInv, TypeOK
<1> HIDE DEF k, listed, y
<1>7. Goes(c, s, known)
  <2>1. Continues(job[c], k, s, known)
    BY <1>4, <1>5 DEF Continues
  <2>2. \A t \in Store : job'[c].left[t] = IF t = s THEN known ELSE job[c].left[t]
    BY <1>4, <1>5, <1>6
  <2>3. job'[c] = Idle \/ Continues(job[c], job'[c], s, known)
    BY <1>5, <1>6, <2>1
  <2> QED BY <1>1, <1>6, <2>2, <2>3 DEF Goes
<1>8. known \subseteq job[c].left[s]
  BY <1>2
<1>9. Touches(c, s, known)
  BY <1>1 DEF Touches
<1>10. \A q \in job[c].left[s] \ known : held[s][q] = Empty
  <2> SUFFICES ASSUME NEW q \in Path, ~(held[s][q].top > 0) PROVE held[s][q] = Empty
    BY <1>2
  <2>1. held[s][q] \in Secret /\ Consistent(held[s][q]) /\ held[s][q].top \in Nat
    BY StoresAssumption DEF MirrorInv, TypeOK, Secret, Consistent
  <2> QED BY <2>1, NoVersions
<1>11. job'[c] # Idle => job'[c].copy[s] # NotYet
  BY <1>3, <1>4, <1>5, <1>6
<1> HIDE DEF known
<1>12. JobsShaped'
  BY <1>1, <1>7, <1>8, <1>11, GoesShaped
<1>13. Overlaps'
  BY <1>7, GoesOverlaps
<1>14. Shapes'
  BY <1>1 DEF MirrorInv, Shapes
<1>15. FileCopies'
  BY <1>1, <1>7, <1>9, GoesCopies
<1>16. ASSUME s = Primary, NEW n \in Mirror, NEW q \in job[c].left[s] \ known
       PROVE  Ahead(job[c], q, held'[s][q], held[n][q], BothVaults(n))
  BY <1>1, <1>2, <1>10, DeleteAhead
<1>17. ASSUME s # Primary, NEW q \in job[c].left[s] \ known,
              Ahead(job[c], q, held[Primary][q], held[s][q], BothVaults(s))
       PROVE  Same(held[Primary][q], held'[s][q], BothVaults(s))
  BY <1>1, <1>2, <1>10, <1>17, DeleteCatchesUp
<1>18. \A m \in Mirror, p \in Path : Told(m, p)'
  BY <1>1, <1>7, <1>8, <1>9, <1>16, <1>17, GoesTold
<1>19. \A m \in Mirror, p \in Path, d \in Client : Found(d, m, p)'
  BY <1>1, <1>7, <1>8, <1>9, GoesFound
<1> QED BY <1>12, <1>13, <1>14, <1>15, <1>18, <1>19 DEF MirrorInv

LEMMA RollbackReadMirrors ==
    ASSUME MirrorInv, TypeOK', NEW c \in Client, NEW s \in Store, NEW p \in Path, RollbackRead(c, s, p)
    PROVE  MirrorInv'
<1> DEFINE x == At(s, p, job[c].target)
           y == [q \in Path |-> IF q = p THEN x ELSE None]
           k == Copied(c, s, y)
           R == job[c].left[s]
<1>1. /\ Active(c, s) /\ kind[s] = "vault" /\ job[c].do = "rollback"
      /\ p \in R /\ job[c].copy[s] = NotYet
      /\ UNCHANGED <<kind, held, calls>>
  BY DEF RollbackRead
<1>2. /\ job[c] \in Job /\ Shaped(job[c]) /\ p \in job[c].paths /\ job[c].do # "idle"
      /\ \A q \in job[c].paths : q = p
      /\ R \subseteq job[c].paths /\ R \subseteq Path
      /\ s # Primary => job[c].left[Primary] = {} /\ s \in Mirror
      /\ s = Primary => \A m \in Mirror : job[c].copy[m] = NotYet
  BY <1>1, ActiveFacts DEF Shaped
<1>3. CASE x \notin Value
  <2>1. After(c, s, R, {}, FALSE)
    BY <1>3 DEF RollbackRead
  <2>2. Stops(c, s)
    BY <1>1, <2>1, AfterStops DEF MirrorInv
  <2> QED BY <1>1, <1>2, <2>2, StopsInv
<1>4. CASE x \in Value
  <2>1. job' = [job EXCEPT ![c] = k] /\ UNCHANGED parted
    BY <1>4 DEF RollbackRead
  <2>2. k \in Job /\ y \in Contents /\ y[p] = x
    <3>1. y \in Contents /\ y[p] = x
      BY <1>4 DEF Contents
    <3> HIDE DEF y
    <3>2. k \in Job
      BY <1>2, <3>1, JobParts DEF Copied
    <3> QED BY <3>1, <3>2
  <2>3. /\ k.do = job[c].do /\ k.vals = job[c].vals /\ k.paths = job[c].paths
        /\ k.target = job[c].target /\ k.left = job[c].left
        /\ \A t \in Store : k.copy[t] = IF t = s THEN y ELSE job[c].copy[t]
    <3> HIDE DEF y
    <3>1. job[c].copy \in [Store -> {NotYet} \cup Contents]
      BY <1>2 DEF Job
    <3> QED BY <1>2, <3>1 DEF Copied, Job
  <2> HIDE DEF k, y
  <2>4. job'[c] = k /\ \A d \in Client \ {c} : job'[d] = job[d]
    BY <2>1 DEF MirrorInv, TypeOK
  <2>5. Goes(c, s, R) /\ Touches(c, s, R)
    BY <1>1, <2>1, <2>3, <2>4 DEF Goes, Continues, Touches
  <2>6. JobsShaped'
    BY <1>1, <1>2, <1>4, <2>2, <2>3, <2>4, <2>5, GoesShaped
  <2>7. Overlaps'
    BY <2>5, GoesOverlaps
  <2>8. Shapes'
    BY <1>1 DEF MirrorInv, Shapes
  <2>9. FileCopies'
    BY <1>1, <2>5, GoesCopies
  <2>10. job'[c].left[Primary] # job[c].paths => job'[c].copy[Primary] = job[c].copy[Primary]
    <3>1. CASE s = Primary
      <4>1. job[c].left[Primary] = job[c].paths
        BY <1>1, <1>2, <3>1
      <4> QED BY <2>3, <2>4, <4>1
    <3>2. CASE s # Primary
      BY <2>3, <2>4, <3>2 DEF Store
    <3> QED BY <3>1, <3>2
  <2>11. \A m \in Mirror, q \in Path : Told(m, q)'
    BY <1>1, <2>5, <2>10, GoesTold
  <2>12. ASSUME NEW m \in Mirror, NEW q \in Path, NEW d \in Client PROVE Found(d, m, q)'
    <3>0. Found(d, m, q) /\ Told(m, q) /\ m \in Store /\ m # Primary
      BY StoresAssumption DEF MirrorInv, Store
    <3>1. CASE d # c
      BY <1>1, <2>1, <2>4, <3>0, <3>1 DEF Found
    <3>2. CASE d = c
      <4> SUFFICES ASSUME <<m, q>> \notin parted, kind[m] = "vault",
                          k.copy[Primary] # NotYet, q \in job[c].left[m]
                   PROVE  /\ held[m][q].is[job[c].target] = k.copy[Primary][q]
                          /\ k.copy[m] # NotYet => k.copy[m][q] = k.copy[Primary][q]
        BY <1>1, <2>1, <2>3, <2>4, <3>2 DEF Found
      <4>1. q = p
        BY <1>2, <3>0 DEF Shaped
      <4>2. job[c].target \in Version /\ x = held[s][p].is[job[c].target] /\ x # Destroyed
        <5>1. job[c].target \in Version /\ 0 \notin Version
          BY <1>1, <1>2 DEF Shaped, Version
        <5> QED BY <1>4, <5>1, StoresAssumption DEF At
      <4>3. CASE s = Primary
        <5>1. \A e \in Client : ~Behind(e, m, p)
          <6>1. ~Behind(c, m, p)
            BY <1>1, <4>3 DEF Behind
          <6>2. \A e \in Client \ {c} : ~Behind(e, m, p)
            BY <1>2, <3>0, <4>1, OneCall DEF Behind
          <6> QED BY <6>1, <6>2
        <5>2. Alike(held[Primary][p], held[m][p])
          BY <1>1, <3>0, <4>1, <4>3, <5>1 DEF Told, Same, BothVaults
        <5>3. held[m][p].is[job[c].target] = x
          BY <4>2, <4>3, <5>2 DEF Alike
        <5> QED BY <1>2, <2>2, <2>3, <3>0, <4>1, <4>3, <5>3
      <4>4. CASE s # Primary
        <5>1. k.copy[Primary] = job[c].copy[Primary]
          BY <2>3, <4>4 DEF Store
        <5>2. /\ held[m][p].is[job[c].target] = job[c].copy[Primary][p]
              /\ job[c].copy[m] # NotYet => job[c].copy[m][p] = job[c].copy[Primary][p]
          BY <1>1, <3>0, <3>2, <4>1, <5>1 DEF Found
        <5> QED BY <2>2, <2>3, <3>0, <4>1, <4>2, <5>1, <5>2
      <4> QED BY <4>3, <4>4
    <3> QED BY <3>1, <3>2
  <2> QED BY <2>6, <2>7, <2>8, <2>9, <2>11, <2>12 DEF MirrorInv
<1> QED BY <1>3, <1>4

\* A file call has done all it has to do at once.
LEMMA FileDone ==
    ASSUME MirrorInv, TypeOK', NEW c \in Client, NEW s \in Store, Active(c, s), kind[s] = "file",
           NEW D, After(c, s, {}, D, TRUE), kind' = kind, Touches(c, s, {}), Shapes',
           job[c].do # "rollback",
           \A q \in job[c].paths : Newest(held'[s][q]) = Result(job[c], q)
    PROVE  MirrorInv'
<1>1. /\ job[c].left[s] \subseteq job[c].paths /\ job[c].paths \subseteq Path
      /\ s # Primary => s \in Mirror
  BY ActiveFacts
<1>2. \A n \in Mirror : s = Primary \/ s = n => ~BothVaults(n)
  BY DEF BothVaults
<1>3. ASSUME s = Primary, NEW n \in Mirror, NEW q \in job[c].left[s]
      PROVE  Ahead(job[c], q, held'[s][q], held[n][q], BothVaults(n))
  BY <1>1, <1>2, <1>3 DEF Ahead
<1>4. ASSUME s # Primary, NEW q \in job[c].left[s],
             Ahead(job[c], q, held[Primary][q], held[s][q], BothVaults(s))
      PROVE  Same(held[Primary][q], held'[s][q], BothVaults(s))
  BY <1>1, <1>2, <1>4 DEF Ahead, Same
<1> QED BY <1>3, <1>4, DoneInv

LEMMA FileReadMirrors ==
    ASSUME MirrorInv, TypeOK', NEW c \in Client, NEW s \in Store, FileRead(c, s)
    PROVE  MirrorInv'
<1> DEFINE y == [p \in Path |-> Current(s, p)]
           k == Copied(c, s, y)
           R == job[c].left[s]
<1>1. /\ Active(c, s) /\ kind[s] = "file" /\ job[c].do \in {"put", "delete"}
      /\ job' = [job EXCEPT ![c] = k] /\ UNCHANGED <<kind, held, seen, reborn, parted, calls>>
  BY DEF FileRead
<1>2. job[c] \in Job /\ R \subseteq Path /\ job[c].paths \subseteq Path
  BY <1>1, ActiveFacts
<1>3. /\ k.do = job[c].do /\ k.vals = job[c].vals /\ k.paths = job[c].paths
      /\ k.target = job[c].target /\ k.left = job[c].left
      /\ \A t \in Store : k.copy[t] = IF t = s THEN y ELSE job[c].copy[t]
  <2> HIDE DEF y
  <2>1. job[c].copy \in [Store -> {NotYet} \cup Contents]
    BY <1>2 DEF Job
  <2> QED BY <1>2, <2>1 DEF Copied, Job
<1>4. \A p \in Path : y[p] = Newest(held[s][p])
  BY CurrentIsNewest
<1> HIDE DEF k, y
<1>5. job'[c] = k /\ \A d \in Client \ {c} : job'[d] = job[d]
  BY <1>1 DEF MirrorInv, TypeOK
<1>6. Goes(c, s, R) /\ Touches(c, s, R)
  BY <1>1, <1>3, <1>5 DEF Goes, Continues, Touches
<1>7. JobsShaped'
  BY <1>1, <1>6, GoesShaped
<1>8. Overlaps'
  BY <1>6, GoesOverlaps
<1>9. Shapes'
  BY <1>1 DEF MirrorInv, Shapes
<1>10. FileCopies'
  BY <1>1, <1>3, <1>4, <1>5, <1>6, GoesCopies
<1>11. \A m \in Mirror, q \in Path : Told(m, q)'
  BY <1>1, <1>6, GoesTold
<1>12. \A m \in Mirror, q \in Path, d \in Client : Found(d, m, q)'
  BY <1>1, <1>6, GoesFound
<1> QED BY <1>7, <1>8, <1>9, <1>10, <1>11, <1>12 DEF MirrorInv

LEMMA FileAbsentMirrors ==
    ASSUME MirrorInv, TypeOK', NEW c \in Client, NEW s \in Store, FileAbsent(c, s)
    PROVE  MirrorInv'
<1>1. /\ Active(c, s) /\ kind[s] = "file" /\ job[c].do = "delete"
      /\ \A p \in Path : Newest(held[s][p]) = None
      /\ After(c, s, {}, {}, TRUE) /\ UNCHANGED <<kind, held, calls>>
  BY CurrentIsNewest DEF FileAbsent
<1>2. job[c].paths \subseteq Path
  BY <1>1, ActiveFacts
<1>3. \A q \in job[c].paths : Newest(held'[s][q]) = Result(job[c], q)
  BY <1>1, <1>2 DEF Result
<1>4. Touches(c, s, {}) /\ Shapes'
  BY <1>1 DEF Touches, MirrorInv, Shapes
<1> QED BY <1>1, <1>3, <1>4, FileDone

\* A file call brings back what it has read of the paths it is not about.
LEMMA FileWriteTouches ==
    ASSUME MirrorInv, NEW c \in Client, NEW s \in Store, FileWrite(c, s)
    PROVE  /\ Changed(job[c], job[c].copy[s]) \in Contents
           /\ job[c].left[s] = job[c].paths
           /\ Touches(c, s, {})
<1> DEFINE x == Changed(job[c], job[c].copy[s])
<1>1. /\ Active(c, s) /\ kind[s] = "file" /\ job[c].copy[s] # NotYet
      /\ held' = [held EXCEPT ![s] = [p \in Path |-> First(x[p])]]
  BY DEF FileWrite
<1>2. job[c] \in Job /\ job[c].left[s] = job[c].paths /\ job[c].left[s] # {}
  BY <1>1, ActiveFacts DEF Shaped
<1>3. job[c].copy[s] \in Contents /\ job[c].vals \in Contents
  BY <1>1, <1>2 DEF Job
<1>4. \A p \in Path : x[p] = IF p \notin job[c].paths THEN job[c].copy[s][p]
                             ELSE IF job[c].do = "put" THEN job[c].vals[p] ELSE None
  BY DEF Changed
<1>5. x \in Contents
  BY <1>3 DEF Changed, Contents
<1> HIDE DEF x
<1>6. \A t \in Store, p \in Path : held'[t][p] = IF t = s THEN First(x[p]) ELSE held[t][p]
  BY <1>1 DEF MirrorInv, TypeOK
<1>7. ASSUME NEW p \in Path, p \notin job[c].paths, <<s, p>> \notin parted
      PROVE  held'[s][p] = held[s][p]
  BY <1>1, <1>2, <1>4, <1>6, <1>7 DEF MirrorInv, FileCopies, Shapes
<1>8. Touches(c, s, {})
  BY <1>2, <1>6, <1>7 DEF Touches
<1> QED BY <1>2, <1>5, <1>8 DEF x

LEMMA FileWriteMirrors ==
    ASSUME MirrorInv, TypeOK', NEW c \in Client, NEW s \in Store, FileWrite(c, s)
    PROVE  MirrorInv'
<1> DEFINE x == Changed(job[c], job[c].copy[s])
<1>1. /\ Active(c, s) /\ kind[s] = "file" /\ job[c].copy[s] # NotYet
      /\ held' = [held EXCEPT ![s] = [p \in Path |-> First(x[p])]]
      /\ After(c, s, {}, {}, TRUE) /\ kind' = kind
  BY DEF FileWrite
<1>2. x \in Contents /\ Touches(c, s, {})
  BY FileWriteTouches
<1>3. Shaped(job[c]) /\ job[c].paths \subseteq Path
  BY <1>1, ActiveFacts
<1>4. job[c].do # "rollback"
  BY <1>1, <1>3 DEF Shaped
<1>5. \A p \in job[c].paths : x[p] = Result(job[c], p)
  BY <1>3, <1>4 DEF Changed, Result
<1> HIDE DEF x
<1>6. Shapes'
  BY <1>1, <1>2, FileShapes
<1>7. \A p \in Path : held'[s][p] = First(x[p]) /\ x[p] \in Value \cup {None}
  BY <1>1, <1>2 DEF MirrorInv, TypeOK, Contents
<1>8. \A p \in job[c].paths : Newest(held'[s][p]) = Result(job[c], p)
  BY <1>3, <1>5, <1>7, NewestOf
<1> QED BY <1>1, <1>2, <1>4, <1>6, <1>8, FileDone

LEMMA FileRemoveMirrors ==
    ASSUME MirrorInv, TypeOK', NEW c \in Client, NEW s \in Store, FileRemove(c, s)
    PROVE  MirrorInv'
<1> DEFINE x == [p \in Path |-> None]
<1>1. /\ Active(c, s) /\ kind[s] = "file" /\ job[c].do = "tree"
      /\ held' = [held EXCEPT ![s] = [p \in Path |-> Empty]]
      /\ After(c, s, {}, {}, TRUE) /\ kind' = kind
  BY DEF FileRemove
<1>2. job[c].paths = Path /\ job[c].left[s] = Path
  BY <1>1, ActiveFacts DEF Shaped
<1>3. \A t \in Store, p \in Path : held'[t][p] = IF t = s THEN Empty ELSE held[t][p]
  BY <1>1 DEF MirrorInv, TypeOK
<1>4. Touches(c, s, {})
  BY <1>2, <1>3 DEF Touches
<1>5. Shapes'
  <2>1. Empty = First(Newest(Empty)) /\ Empty.top = 0
    BY NewestOf DEF First, Empty
  <2> QED BY <1>1, <1>3, <2>1 DEF MirrorInv, Shapes
<1>6. \A p \in job[c].paths : Newest(held'[s][p]) = Result(job[c], p)
  BY <1>1, <1>2, <1>3, NewestOf DEF Result
<1> QED BY <1>1, <1>4, <1>5, <1>6, FileDone

\* A new call changes nothing yet, and sets apart what overlaps.
LEMMA BeginMirrors ==
    ASSUME MirrorInv, TypeOK', NEW c \in Client, NEW do \in {"put", "delete", "tree", "rollback"},
           NEW how \in {"blind", "version", "option"}, NEW vals \in Contents,
           NEW P \in SUBSET Path, NEW v \in 0..MaxVersion, Begin(c, do, how, vals, P, v),
           do = "put" => \A p \in P : vals[p] \in Value,
           do = "tree" => P = Path,
           do = "rollback" => v \in Version /\ \A p, q \in P : p = q
    PROVE  MirrorInv'
<1> DEFINE j == [do |-> do, how |-> how, vals |-> vals, paths |-> P, target |-> v,
                 left |-> [s \in Store |-> P], copy |-> Idle.copy]
           rivals == {d \in Client \ {c} : job[d].do # "idle"}
<1>1. /\ job[c].do = "idle" /\ job' = [job EXCEPT ![c] = j]
      /\ parted' = parted \cup Mixed(c, P) /\ UNCHANGED <<kind, held>>
  BY DEF Begin
<1>2. /\ job'[c] = j /\ \A d \in Client \ {c} : job'[d] = job[d]
      /\ job[c] = Idle /\ \A d \in Client : Shaped(job[d])
      /\ Primary \notin Mirror /\ Primary \in Store /\ Mirror \subseteq Store
  <2> HIDE DEF j
  <2>1. /\ job'[c] = j /\ \A d \in Client \ {c} : job'[d] = job[d]
        /\ \A d \in Client : Shaped(job[d])
    BY <1>1 DEF MirrorInv, TypeOK, JobsShaped
  <2>2. job[c] = Idle
    BY <1>1, <2>1 DEF Shaped
  <2>3. Primary \notin Mirror /\ Primary \in Store /\ Mirror \subseteq Store
    BY StoresAssumption DEF Store
  <2> QED BY <2>1, <2>2, <2>3
<1>3. /\ j.do = do /\ j.vals = vals /\ j.paths = P /\ j.target = v
      /\ \A s \in Store : j.left[s] = P /\ j.copy[s] = NotYet
  BY IdleShaped
<1> HIDE DEF j
<1>4. Mixed(c, P) = IF SomeFile THEN Store \X UNION {P \cup job[d].paths : d \in rivals}
                    ELSE Mirror \X UNION {P \cap job[d].paths : d \in rivals}
  BY DEF Mixed, SomeFile
<1>5. JobsShaped'
  <2>1. ASSUME NEW d \in Client \ {c} PROVE Shaped(job[d])'
    BY <1>1, <1>2 DEF Shaped
  <2>2. Shaped(job[c])'
    BY <1>1, <1>2, <1>3 DEF Shaped
  <2> QED BY <2>1, <2>2 DEF JobsShaped
<1>6. Overlaps'
  <2>1. ASSUME NEW d \in rivals, NEW p \in Path
        PROVE  /\ SomeFile /\ (p \in P \/ p \in job[d].paths) => \A s \in Store : <<s, p>> \in parted'
               /\ p \in P /\ p \in job[d].paths => \A m \in Mirror : <<m, p>> \in parted'
    BY <1>1, <1>2, <1>4
  <2>2. ASSUME NEW d \in Client, NEW e \in Client, d # e, job'[d].do # "idle", job'[e].do # "idle",
               NEW p \in job'[d].paths
        PROVE  /\ SomeFile => \A s \in Store : <<s, p>> \in parted'
               /\ p \in job'[e].paths => \A m \in Mirror : <<m, p>> \in parted'
    <3>0. p \in Path
      BY <2>2 DEF TypeOK, Job
    <3>1. CASE d = c
      BY <1>2, <1>3, <2>1, <2>2, <3>0, <3>1
    <3>2. CASE e = c
      BY <1>2, <1>3, <2>1, <2>2, <3>0, <3>2
    <3>3. CASE d # c /\ e # c
      BY <1>1, <1>2, <2>2, <3>3 DEF MirrorInv, Overlaps
    <3> QED BY <3>1, <3>2, <3>3
  <2>3. ASSUME NEW p \in Path, NEW m \in Mirror, <<Primary, p>> \in parted' PROVE <<m, p>> \in parted'
    <3>1. CASE <<Primary, p>> \in parted
      BY <1>1, <3>1 DEF MirrorInv, Overlaps
    <3>2. CASE <<Primary, p>> \in Mixed(c, P)
      BY <1>1, <1>2, <1>4, <3>2
    <3> QED BY <1>1, <2>3, <3>1, <3>2
  <2> QED BY <1>1, <2>2, <2>3 DEF Overlaps, SomeFile
<1>7. Shapes'
  BY <1>1 DEF MirrorInv, Shapes
<1>8. FileCopies'
  BY <1>1, <1>2, <1>3 DEF MirrorInv, FileCopies
<1>9. ASSUME NEW m \in Mirror, NEW p \in Path PROVE Told(m, p)'
  <2>1. ~Behind(c, m, p) /\ ~Behind(c, m, p)'
    BY <1>2, <1>3, IdleShaped DEF Behind
  <2>2. \A d \in Client : Behind(d, m, p)' <=> Behind(d, m, p)
    BY <1>2, <2>1 DEF Behind
  <2> QED BY <1>1, <1>2, <2>1, <2>2 DEF MirrorInv, Told, BothVaults
<1>10. ASSUME NEW m \in Mirror, NEW p \in Path, NEW d \in Client PROVE Found(d, m, p)'
  <2>1. Found(d, m, p)
    BY DEF MirrorInv
  <2> QED BY <1>1, <1>2, <1>3, <2>1 DEF Found
<1> QED BY <1>5, <1>6, <1>7, <1>8, <1>9, <1>10 DEF MirrorInv

\* Destroying the newest version in the primary sets the mirrors apart, and
\* destroying another one is what Alike allows.
LEMMA DeleteVersionMirrors ==
    ASSUME MirrorInv, TypeOK', NEW c \in Client, NEW p \in Path, NEW v \in Version, DeleteVersion(c, p, v)
    PROVE  MirrorInv'
<1> DEFINE h == held[Primary][p]
           g == [h EXCEPT !.is = [@ EXCEPT ![v] = Destroyed]]
<1>1. /\ kind[Primary] = "vault" /\ At(Primary, p, v) \in Value /\ Store1(Primary, p, g)
      /\ parted' = IF v = h.top THEN parted \cup (Mirror \X {p}) ELSE parted
      /\ kind' = kind /\ job' = job
  BY DEF DeleteVersion
<1>2. /\ Primary \in Store /\ Primary \notin Mirror /\ Mirror \subseteq Store
      /\ None \notin Value /\ Destroyed # None /\ v # 0
  BY StoresAssumption DEF Store, Version
<1>3. h \in Secret /\ TypeOK
  BY <1>2 DEF MirrorInv, TypeOK
<1>4. /\ g.top = h.top
      /\ \A w \in Version : g.is[w] = IF w = v THEN Destroyed ELSE h.is[w]
  BY <1>3 DEF Secret
<1> HIDE DEF g
<1>5. \A t \in Store, q \in Path : held'[t][q] = IF t = Primary /\ q = p THEN g ELSE held[t][q]
  BY <1>1, <1>2, <1>3, HeldOf
<1>6. h.is[v] \in Value
  BY <1>1, <1>2 DEF At
<1>7. h.top = 0 \/ h.top \in Version
  BY <1>3, StoresAssumption DEF Secret, Version
<1>8. JobsShaped'
  BY <1>1 DEF MirrorInv, JobsShaped, Shaped
<1>9. Overlaps'
  BY <1>1, <1>2 DEF MirrorInv, Overlaps, SomeFile
<1>10. Shapes'
  <2> SUFFICES ASSUME NEW t \in Store, NEW q \in Path
               PROVE  /\ kind[t] = "file" => held'[t][q] = First(Newest(held'[t][q]))
                      /\ held'[t][q].top > 0 => held'[t][q].is[held'[t][q].top] # None
    BY <1>1 DEF Shapes
  <2>1. CASE ~(t = Primary /\ q = p)
    BY <1>5, <2>1 DEF MirrorInv, Shapes
  <2>2. CASE t = Primary /\ q = p
    <3>1. held'[t][q] = g /\ kind[t] = "vault"
      BY <1>1, <1>5, <2>2
    <3>2. h.top > 0 => h.is[h.top] # None /\ h.top \in Version
      BY <1>2, <1>7 DEF MirrorInv, Shapes
    <3> QED BY <1>2, <1>4, <3>1, <3>2
  <2> QED BY <2>1, <2>2
<1>11. FileCopies'
  <2> SUFFICES ASSUME NEW d \in Client, NEW t \in Store, kind[t] = "file", job[d].left[t] # {},
                      job[d].copy[t] # NotYet, NEW q \in Path \ job[d].paths, <<t, q>> \notin parted'
               PROVE  job[d].copy[t][q] = Newest(held'[t][q])
    BY <1>1 DEF FileCopies
  <2>1. t # Primary /\ <<t, q>> \notin parted
    BY <1>1
  <2> QED BY <1>5, <2>1 DEF MirrorInv, FileCopies
<1>12. ASSUME NEW m \in Mirror, NEW q \in Path PROVE Told(m, q)'
  <2>1. CASE <<m, q>> \in parted'
    BY <2>1 DEF Told
  <2>2. CASE <<m, q>> \notin parted' /\ q # p
    <3>1. /\ held'[Primary][q] = held[Primary][q] /\ held'[m][q] = held[m][q]
          /\ <<m, q>> \notin parted /\ Told(m, q)
      BY <1>1, <1>2, <1>5, <2>2 DEF MirrorInv
    <3> QED BY <1>1, <3>1 DEF Told, Behind, BothVaults
  <2>3. CASE <<m, q>> \notin parted' /\ q = p
    <3>1. <<m, p>> \notin parted /\ v # h.top /\ Told(m, p)
      BY <1>1, <2>3 DEF MirrorInv
    <3>2. held'[m][p] = held[m][p] /\ held'[Primary][p] = g
      BY <1>2, <1>5
    <3>3. Newest(g) = Newest(h) /\ (g.top > 0 => g.is[g.top] = h.is[h.top])
      <4>1. h.top \in Version => g.is[h.top] = h.is[h.top]
        BY <1>4, <3>1
      <4> QED BY <1>4, <1>7, <4>1 DEF Newest
    <3>4. ASSUME NEW k, Alike(h, k) PROVE Alike(g, k)
      BY <1>4, <3>3, <3>4 DEF Alike
    <3>5. h # Empty
      <4>1. Empty.is[v] = None
        BY DEF Empty
      <4> QED BY <1>2, <1>6, <4>1
    <3> HIDE DEF h
    <3>6. ASSUME NEW k, NEW vaults, Same(h, k, vaults) PROVE Same(g, k, vaults)
      BY <3>3, <3>4, <3>6 DEF Same
    <3>7. ASSUME NEW j, NEW k, NEW vaults, Ahead(j, p, h, k, vaults) PROVE Ahead(j, p, g, k, vaults)
      BY <3>3, <3>4, <3>5, <3>7 DEF Ahead
    <3>8. held[Primary][p] = h
      BY DEF h
    <3>9. /\ (\A d \in Client : ~Behind(d, m, p)) => Same(g, held[m][p], BothVaults(m))
          /\ \A d \in Client : Behind(d, m, p) => Ahead(job[d], p, g, held[m][p], BothVaults(m))
      BY <3>1, <3>6, <3>7, <3>8 DEF Told
    <3> QED BY <1>1, <2>3, <3>2, <3>9 DEF Told, Behind, BothVaults
  <2> QED BY <2>1, <2>2, <2>3
<1>13. ASSUME NEW m \in Mirror, NEW q \in Path, NEW d \in Client PROVE Found(d, m, q)'
  <2>1. held'[m][q] = held[m][q] /\ Found(d, m, q)
    BY <1>2, <1>5 DEF MirrorInv
  <2> QED BY <1>1, <2>1 DEF Found
<1> QED BY <1>8, <1>9, <1>10, <1>11, <1>12, <1>13 DEF MirrorInv

\* A step that leaves the stores and the calls as they are.
LEMMA QuietMirrors ==
    ASSUME MirrorInv, TypeOK', UNCHANGED <<kind, held, job, parted>>
    PROVE  MirrorInv'
<1>1. JobsShaped' /\ Overlaps' /\ Shapes' /\ FileCopies'
  BY DEF MirrorInv, JobsShaped, Shaped, Overlaps, SomeFile, Shapes, FileCopies
<1>2. ASSUME NEW m \in Mirror, NEW p \in Path PROVE Told(m, p)' /\ \A c \in Client : Found(c, m, p)'
  BY DEF MirrorInv, Told, Found, Behind, BothVaults
<1> QED BY <1>1, <1>2 DEF MirrorInv

LEMMA CallMirrors ==
    ASSUME MirrorInv, TypeOK', NEW c \in Client, Call(c)
    PROVE  MirrorInv'
<1>0. 0 \in 0..MaxVersion /\ Version \subseteq 0..MaxVersion /\ Idle.vals \in Contents
  BY StoresAssumption DEF Version, Idle, Contents
<1>1. CASE PutValues(c)
  <2>1. PICK vals \in Offered, how \in {"blind", "version", "option"} :
               Begin(c, "put", how, vals, {p \in Path : vals[p] # None}, 0)
    BY <1>1 DEF PutValues
  <2>2. vals \in Contents
    BY OfferedAssumption DEF Contents
  <2>3. \A p \in {q \in Path : vals[q] # None} : vals[p] \in Value
    BY <2>2 DEF Contents
  <2> QED BY <1>0, <2>1, <2>2, <2>3, BeginMirrors
<1>2. CASE DeleteValues(c)
  <2>1. PICK P \in SUBSET Path : Begin(c, "delete", "blind", Idle.vals, P, 0)
    BY <1>2 DEF DeleteValues
  <2> QED BY <1>0, <2>1, BeginMirrors
<1>3. CASE DeleteTree(c)
  BY <1>0, <1>3, BeginMirrors DEF DeleteTree
<1>4. CASE RollbackValue(c)
  <2>1. PICK p \in Path, v \in Version : Begin(c, "rollback", "blind", Idle.vals, {p}, v)
    BY <1>4 DEF RollbackValue
  <2> QED BY <1>0, <2>1, BeginMirrors
<1>5. ASSUME NEW p \in Path, GetValue(c, p) PROVE MirrorInv'
  BY <1>5, QuietMirrors DEF GetValue
<1>6. ASSUME NEW p \in Path, NEW v \in Version, DeleteVersion(c, p, v) PROVE MirrorInv'
  BY <1>6, DeleteVersionMirrors
<1> QED BY <1>1, <1>2, <1>3, <1>4, <1>5, <1>6 DEF Call

\* A request that Vault refuses, or that fails, ends what it is part of.
LEMMA FailureMirrors ==
    ASSUME MirrorInv, TypeOK', NEW c \in Client, NEW s \in Store,
           Fails(c, s) \/ \E p \in Path : CASConflict(c, s, p)
    PROVE  MirrorInv'
<1>1. /\ Active(c, s) /\ After(c, s, job[c].left[s], {}, FALSE) /\ UNCHANGED <<kind, held>>
  BY DEF Fails, CASConflict
<1>2. Stops(c, s)
  BY <1>1, AfterStops DEF MirrorInv
<1> QED BY <1>1, <1>2, StopsInv, ActiveFacts

LEMMA CrashMirrors ==
    ASSUME MirrorInv, TypeOK', NEW c \in Client, Crash(c)
    PROVE  MirrorInv'
<1>1. Stops(c, Primary) /\ job[c].do # "idle"
  BY CrashStops DEF MirrorInv, Crash
<1>2. Primary \in Store
  BY DEF Store
<1> QED BY <1>1, <1>2, StopsInv

LEMMA InitMirrors == Init => MirrorInv
<1> SUFFICES ASSUME Init PROVE MirrorInv
  OBVIOUS
<1>1. TypeOK
  BY InitType
<1>2. /\ \A c \in Client : job[c] = Idle
      /\ parted = {}
      /\ \A s \in Store, p \in Path : held[s][p] = First(Start[p])
      /\ Primary \in Store /\ Mirror \subseteq Store
  BY DEF Init, Store
<1>3. JobsShaped /\ Overlaps
  BY <1>2, IdleShaped DEF JobsShaped, Overlaps
<1>4. Shapes
  <2>1. [p \in Path |-> Start[p]] \in Contents
    BY StoresAssumption DEF Contents
  <2>2. ASSUME NEW p \in Path
        PROVE  /\ First(Start[p]) = First(Newest(First(Start[p])))
               /\ First(Start[p]).top > 0 => First(Start[p]).is[First(Start[p]).top] # None
    <3>1. Newest(First(Start[p])) = Start[p]
      BY StoresAssumption, NewestOf
    <3>2. 1 \in Version
      BY StoresAssumption DEF Version
    <3> QED BY <3>1, <3>2, StoresAssumption DEF First, Empty
  <2> QED BY <1>2, <2>2 DEF Shapes
<1>5. FileCopies
  BY <1>2, IdleShaped DEF FileCopies
<1>6. ASSUME NEW m \in Mirror, NEW p \in Path PROVE Told(m, p) /\ \A c \in Client : Found(c, m, p)
  <2>1. held[Primary][p] = held[m][p]
    BY <1>2
  <2>2. Same(held[Primary][p], held[m][p], BothVaults(m))
    BY <2>1 DEF Same, Alike
  <2>3. \A c \in Client : ~Behind(c, m, p)
    BY <1>2, IdleShaped DEF Behind
  <2>4. \A c \in Client : job[c].do # "rollback"
    BY <1>2, IdleShaped
  <2> QED BY <2>2, <2>3, <2>4 DEF Told, Found
<1> QED BY <1>1, <1>3, <1>4, <1>5, <1>6 DEF MirrorInv

LEMMA NextMirrors == MirrorInv /\ [Next]_vars => MirrorInv'
<1> SUFFICES ASSUME MirrorInv, [Next]_vars PROVE MirrorInv'
  OBVIOUS
<1>1. TypeOK'
  BY NextType DEF MirrorInv
<1>2. CASE UNCHANGED vars
  BY <1>1, <1>2, QuietMirrors DEF vars
<1>3. ASSUME NEW c \in Client, VaultStep(c) PROVE MirrorInv'
  <2>1. PICK s \in Store :
          \/ \E p \in Path : PutPath(c, s, p) \/ CASConflict(c, s, p) \/ DeletePath(c, s, p)
                           \/ RollbackRead(c, s, p) \/ RollbackWrite(c, s, p)
          \/ ListTree(c, s)
    BY <1>3 DEF VaultStep
  <2> QED BY <1>1, <2>1, PutPathMirrors, FailureMirrors, DeletePathMirrors,
             RollbackReadMirrors, RollbackWriteMirrors, ListTreeMirrors
<1>4. ASSUME NEW c \in Client, FileStep(c) PROVE MirrorInv'
  <2>1. PICK s \in Store : FileRead(c, s) \/ FileAbsent(c, s) \/ FileWrite(c, s) \/ FileRemove(c, s)
    BY <1>4 DEF FileStep
  <2> QED BY <1>1, <2>1, FileReadMirrors, FileAbsentMirrors, FileWriteMirrors, FileRemoveMirrors
<1>5. ASSUME NEW c \in Client, NEW s \in Store, Fails(c, s) PROVE MirrorInv'
  BY <1>1, <1>5, FailureMirrors
<1> QED BY <1>1, <1>2, <1>3, <1>4, <1>5, CallMirrors, CrashMirrors DEF Next

(* Mirrors follow.  When no call is under way, a mirror has the values of   *)
(* the primary for every path that no failure, death, overlap or destroyed  *)
(* newest version has set apart: while a call is between the primary and    *)
(* the mirror, the primary is where the call will lead the mirror.          *)
THEOREM MirrorsKeepUp == Spec => []MirrorsFollow
<1>1. MirrorInv => MirrorsFollow
  <2> SUFFICES ASSUME MirrorInv, \A c \in Client : job[c].do = "idle",
                      NEW m \in Mirror, NEW p \in Path, <<m, p>> \notin parted
               PROVE  Current(m, p) = Current(Primary, p)
    BY DEF MirrorsFollow
  <2>0. \A c \in Client : job[c] = Idle
    BY DEF MirrorInv, JobsShaped, Shaped
  <2>1. \A c \in Client : ~Behind(c, m, p)
    BY <2>0, IdleShaped DEF Behind, Store
  <2>2. Same(held[Primary][p], held[m][p], BothVaults(m))
    BY <2>1 DEF MirrorInv, Told
  <2>3. m \in Store /\ Primary \in Store
    BY DEF Store
  <2> QED BY <2>2, <2>3, CurrentIsNewest DEF Same
<1> QED BY <1>1, InitMirrors, NextMirrors, PTL DEF Spec

-----------------------------------------------------------------------------
(* What a step writes.                                                      *)

\* A step of a call at s writes there, and of the paths it is not about only
\* such as are set apart.
LEMMA StepTouches ==
    ASSUME MirrorInv, NEW c \in Client, NEW s \in Store,
           \/ \E p \in Path : PutPath(c, s, p) \/ DeletePath(c, s, p) \/ RollbackWrite(c, s, p)
           \/ FileWrite(c, s) \/ FileRemove(c, s)
    PROVE  Active(c, s) /\ Touches(c, s, {})
<1>1. ASSUME NEW p \in Path, PutPath(c, s, p) \/ DeletePath(c, s, p) \/ RollbackWrite(c, s, p)
      PROVE  Active(c, s) /\ Touches(c, s, {})
  <2>1. Active(c, s) /\ p \in job[c].left[s] /\ \E h : Store1(s, p, h)
    BY <1>1 DEF PutPath, DeletePath, RollbackWrite
  <2>2. PICK h : \A t \in Store, q \in Path : held'[t][q] = IF t = s /\ q = p THEN h ELSE held[t][q]
    BY <2>1, HeldOf DEF MirrorInv
  <2> QED BY <2>1, <2>2 DEF Touches
<1>2. CASE FileWrite(c, s)
  BY <1>2, FileWriteTouches DEF FileWrite
<1>3. CASE FileRemove(c, s)
  <2>1. /\ Active(c, s) /\ job[c].do = "tree" /\ kind[s] = "file"
        /\ held' = [held EXCEPT ![s] = [p \in Path |-> Empty]]
    BY <1>3 DEF FileRemove
  <2>2. job[c].left[s] = Path
    BY <2>1, ActiveFacts DEF Shaped
  <2>3. \A t \in Store, p \in Path : t # s => held'[t][p] = held[t][p]
    BY <2>1 DEF MirrorInv, TypeOK
  <2> QED BY <2>1, <2>2, <2>3 DEF Touches
<1> QED BY <1>1, <1>2, <1>3

\* Every step writes as a step of a call, or destroys one version, or leaves
\* the stores alone.
LEMMA WhatIsWritten ==
    ASSUME MirrorInv, [Next]_vars
    PROVE  \/ held' = held
           \/ \E c \in Client, s \in Store : Active(c, s) /\ Touches(c, s, {})
           \/ \E c \in Client, p \in Path, v \in Version : DeleteVersion(c, p, v)
<1>1. ASSUME NEW c \in Client, Call(c)
      PROVE  held' = held \/ \E p \in Path, v \in Version : DeleteVersion(c, p, v)
  BY <1>1 DEF Call, PutValues, DeleteValues, DeleteTree, RollbackValue, Begin, GetValue
<1>2. ASSUME NEW c \in Client, VaultStep(c) \/ FileStep(c)
      PROVE  held' = held \/ \E s \in Store : Active(c, s) /\ Touches(c, s, {})
  <2>1. PICK s \in Store :
          \/ \E p \in Path : PutPath(c, s, p) \/ CASConflict(c, s, p) \/ DeletePath(c, s, p)
                           \/ RollbackRead(c, s, p) \/ RollbackWrite(c, s, p)
          \/ ListTree(c, s)
          \/ FileRead(c, s) \/ FileAbsent(c, s) \/ FileWrite(c, s) \/ FileRemove(c, s)
    BY <1>2 DEF VaultStep, FileStep
  <2>2. \/ \E p \in Path : PutPath(c, s, p) \/ DeletePath(c, s, p) \/ RollbackWrite(c, s, p)
        \/ FileWrite(c, s) \/ FileRemove(c, s)
        \/ held' = held
    BY <2>1 DEF CASConflict, RollbackRead, ListTree, FileRead, FileAbsent
  <2> QED BY <2>2, StepTouches
<1>3. ASSUME NEW c \in Client, (\E s \in Store : Fails(c, s)) \/ Crash(c) PROVE held' = held
  BY <1>3 DEF Fails, Crash
<1>4. CASE UNCHANGED vars
  BY <1>4 DEF vars
<1> QED BY <1>1, <1>2, <1>3, <1>4 DEF Next

LEMMA OthersStep ==
    ASSUME MirrorInv, TypeOK', [Next]_vars, NEW s \in Store, NEW p \in Path,
           held'[s][p].top # held[s][p].top \/ Current(s, p)' \notin {Current(s, p), None}
    PROVE  (\E c \in Client : p \in job[c].paths /\ Active(c, s)) \/ <<s, p>> \in parted
<1>1. held'[s][p] # held[s][p]
  BY DEF Current, At
<1>2. ASSUME NEW c \in Client, NEW t \in Store, Active(c, t), Touches(c, t, {})
      PROVE  (p \in job[c].paths /\ Active(c, s)) \/ <<s, p>> \in parted
  BY <1>1, <1>2, ActiveFacts DEF Touches
<1>3. ASSUME NEW c \in Client, NEW q \in Path, NEW v \in Version, DeleteVersion(c, q, v)
      PROVE  FALSE
  <2> DEFINE h == held[Primary][q]
             g == [h EXCEPT !.is = [@ EXCEPT ![v] = Destroyed]]
  <2>1. Store1(Primary, q, g) /\ Primary \in Store
    BY <1>3 DEF DeleteVersion, Store
  <2>2. h \in Secret
    BY <2>1 DEF MirrorInv, TypeOK
  <2>3. g.top = h.top /\ \A w \in Version : g.is[w] \in {h.is[w], Destroyed}
    BY <2>2 DEF Secret
  <2>4. h.top = 0 \/ h.top \in Version
    BY <2>2, StoresAssumption DEF Secret, Version
  <2> HIDE DEF g
  <2>5. s = Primary /\ p = q /\ held'[s][p] = g
    BY <1>1, <2>1, HeldOf DEF MirrorInv
  <2>6. Newest(g) \in {Newest(h), None}
    BY <2>3, <2>4 DEF Newest
  <2>7. Current(s, p) = Newest(h) /\ Current(s, p)' = Newest(g)
    <3>1. Current(s, p) = Newest(held[s][p])
      BY CurrentIsNewest
    <3>2. Current(s, p)' = Newest(held'[s][p])
      BY DEF Current, At, Newest
    <3> QED BY <2>5, <3>1, <3>2
  <2> QED BY <2>3, <2>5, <2>6, <2>7
<1> QED BY <1>1, <1>2, <1>3, WhatIsWritten

\* A step of another client leaves the call as it is, so it is c's own put
\* that has met the version, and the version still means what c has read.
LEMMA UnreadStep ==
    ASSUME MirrorInv, VersionMeansValue, [Next]_vars, NEW c \in Client, NEW p \in Path,
           job[c].do = "put", job[c].how # "blind", kind[Primary] = "vault",
           seen[c][p].version > 0, p \notin reborn[c],
           p \in job[c].left[Primary], p \notin job'[c].left[Primary],
           held'[Primary][p] # held[Primary][p]
    PROVE  At(Primary, p, held[Primary][p].top) \in {seen[c][p].val, Destroyed}
<1>0. TypeOK /\ Primary \in Store
  BY DEF MirrorInv, Store
<1>1. PICK d \in Client : Call(d) \/ VaultStep(d) \/ FileStep(d) \/ (\E s \in Store : Fails(d, s)) \/ Crash(d)
  BY DEF Next, vars
<1>2. ~Crash(d) /\ \A s \in Store : ~Fails(d, s)
  BY DEF Crash, Fails
<1>3. ~Call(d)
  <2>1. ASSUME NEW q \in Path, NEW v \in Version, DeleteVersion(d, q, v) PROVE FALSE
    BY <2>1 DEF DeleteVersion
  <2> QED BY <2>1 DEF Call, PutValues, DeleteValues, DeleteTree, RollbackValue, Begin, GetValue
<1>4. ~FileStep(d)
  <2> SUFFICES ASSUME NEW s \in Store, FileRead(d, s) \/ FileAbsent(d, s) \/ FileWrite(d, s) \/ FileRemove(d, s)
               PROVE  FALSE
    BY DEF FileStep
  <2>1. CASE FileRead(d, s) \/ FileAbsent(d, s)
    BY <2>1 DEF FileRead, FileAbsent
  <2>2. CASE FileWrite(d, s) \/ FileRemove(d, s)
    <3>1. s # Primary /\ \E x : held' = [held EXCEPT ![s] = x]
      BY <2>2 DEF FileWrite, FileRemove
    <3> QED BY <1>0, <3>1 DEF TypeOK
  <2> QED BY <2>1, <2>2
<1>5. VaultStep(d)
  BY <1>1, <1>2, <1>3, <1>4
<1>6. PICK s \in Store :
        \/ \E q \in Path : PutPath(d, s, q) \/ CASConflict(d, s, q) \/ DeletePath(d, s, q)
                         \/ RollbackRead(d, s, q) \/ RollbackWrite(d, s, q)
        \/ ListTree(d, s)
  BY <1>5 DEF VaultStep
<1>7. PICK q \in Path : PutPath(d, s, q) \/ DeletePath(d, s, q) \/ RollbackWrite(d, s, q)
  BY <1>6 DEF CASConflict, RollbackRead, ListTree
<1>8. s = Primary /\ q = p
  <2>1. \E h : Store1(s, q, h)
    BY <1>7 DEF PutPath, DeletePath, RollbackWrite
  <2> QED BY <1>0, <2>1, HeldOf
<1>9. d = c
  <2>1. \E D : \E R \in SUBSET Path : After(d, s, R, D, TRUE) /\ kind' = kind
    <3>1. job[d].left[s] \in SUBSET Path
      BY <1>0, JobOf
    <3>2. job[d].left[s] \ {q} \in SUBSET Path /\ {} \in SUBSET Path
      BY <3>1
    <3> QED BY <1>7, <3>2 DEF PutPath, DeletePath, RollbackWrite
  <2>2. \E R : Goes(d, s, R)
    BY <1>0, <2>1, AfterGoes
  <2> QED BY <2>2 DEF Goes
<1>10. PutPath(c, Primary, p)
  BY <1>7, <1>8, <1>9 DEF DeletePath, RollbackWrite
<1>11. seen[c][p].version = held[Primary][p].top
  <2>1. job[c].how \in {"version", "option"}
    BY <1>0 DEF TypeOK, Job
  <2>2. Expected(c, Primary, p) = seen[c][p].version
    BY <2>1 DEF Expected
  <2>3. seen[c][p].version # -1
    OBVIOUS
  <2> QED BY <1>10, <2>2, <2>3 DEF PutPath
<1>12. At(Primary, p, held[Primary][p].top) # None
  <2>1. held[Primary][p].top # 0
    BY <1>11
  <2> QED BY <1>0, <1>11, <2>1 DEF At, MirrorInv, Shapes
<1> QED BY <1>11, <1>12 DEF VersionMeansValue

(* Writes mind others.  A checked put replaces no value that its client has *)
(* not seen, unless the path was deleted since the read, and only a call    *)
(* about a path changes what a store answers for it, in a Vault always and  *)
(* in a file unless another call overlapped.                                *)
THEOREM WritesAreMindful == Spec => WritesMindOthers
<1>1. MirrorInv /\ VersionMeansValue /\ [Next]_vars =>
        \A c \in Client, p \in Path :
          /\ job[c].do = "put" /\ job[c].how # "blind" /\ kind[Primary] = "vault"
          /\ seen[c][p].version > 0 /\ p \notin reborn[c]
          /\ p \in job[c].left[Primary] /\ p \notin job'[c].left[Primary]
          /\ held'[Primary][p] # held[Primary][p]
          => At(Primary, p, held[Primary][p].top) \in {seen[c][p].val, Destroyed}
  BY UnreadStep
<1>2. MirrorInv /\ TypeOK' /\ [Next]_vars =>
        \A s \in Store, p \in Path :
          \/ held'[s][p].top # held[s][p].top
          \/ Current(s, p)' \notin {Current(s, p), None}
          => (\E c \in Client : p \in job[c].paths /\ Active(c, s)) \/ <<s, p>> \in parted
  BY OthersStep
<1>3. MirrorInv => TypeOK
  BY DEF MirrorInv
<1>4. Spec => []MirrorInv
  BY InitMirrors, NextMirrors, PTL DEF Spec
<1>5. Spec => NothingUnreadReplaced
  BY <1>1, <1>4, VersionsMeanValues, PTL DEF Spec, NothingUnreadReplaced
<1>6. Spec => OthersUntouched
  BY <1>2, <1>3, <1>4, PTL DEF Spec, OthersUntouched
<1> QED BY <1>5, <1>6 DEF WritesMindOthers

=============================================================================

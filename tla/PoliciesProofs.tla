--------------------------- MODULE PoliciesProofs ---------------------------
(***************************************************************************)
(* Policies in the Vault: types, that a refresh leaves every application   *)
(* with the policy its labels ask for, that the child store keeps one to   *)
(* read by, that users have the access they were given, and that only      *)
(* managers whose knowledge of a role is at fault take anything from it.   *)
(*                                                                         *)
(* Whose a policy is can be told by its name only, so the proofs begin     *)
(* with names: a workspace's name covers its own policies, and those of    *)
(* two applications differ.  All else about sequences is left behind then. *)
(***************************************************************************)
EXTENDS MCPolicies, SequenceTheorems, TLAPS

-----------------------------------------------------------------------------
(* Names.                                                                   *)

LEMMA OneWord ==
    ASSUME NEW S, NEW x \in S
    PROVE  <<x>> \in Seq(S) /\ Len(<<x>>) = 1 /\ <<x>>[1] = x
OBVIOUS

LEMMA NameIs ==
    ASSUME NEW w \in Seq(STRING), NEW a \in STRING
    PROVE  /\ PolicyName(w, a) \in Seq(STRING) /\ Len(PolicyName(w, a)) = Len(w) + 2
           /\ <<"zhi">> \o w \in Seq(STRING) /\ Len(<<"zhi">> \o w) = Len(w) + 1
           /\ \A i \in 1 .. Len(w) + 1 : PolicyName(w, a)[i] = (<<"zhi">> \o w)[i]
           /\ \A i \in 1 .. Len(w) : PolicyName(w, a)[i + 1] = w[i]
           /\ PolicyName(w, a)[Len(w) + 2] = a
<1>1. <<"zhi">> \in Seq(STRING) /\ Len(<<"zhi">>) = 1 /\ <<a>> \in Seq(STRING) /\ Len(<<a>>) = 1 /\ <<a>>[1] = a
  BY OneWord, PoliciesAssumption
<1> DEFINE s == <<"zhi">> \o w
<1>2. /\ s \in Seq(STRING) /\ Len(s) = Len(w) + 1
      /\ \A i \in 1 .. Len(w) + 1 : s[i] = IF i <= 1 THEN <<"zhi">>[i] ELSE w[i - 1]
  BY <1>1, ConcatProperties
<1> HIDE DEF s
<1>3. /\ s \o <<a>> \in Seq(STRING) /\ Len(s \o <<a>>) = Len(s) + 1
      /\ \A i \in 1 .. Len(s) + 1 : (s \o <<a>>)[i] = IF i <= Len(s) THEN s[i] ELSE <<a>>[i - Len(s)]
  BY <1>1, <1>2, ConcatProperties
<1>4. PolicyName(w, a) = s \o <<a>>
  BY DEF PolicyName, s
<1>5. Len(w) \in Nat
  BY LenProperties
<1> QED BY <1>1, <1>2, <1>3, <1>4, <1>5 DEF s

LEMMA NameCovered ==
    ASSUME NEW w \in Seq(STRING), NEW a \in STRING
    PROVE  Covers(w, PolicyName(w, a))
<1> DEFINE s == <<"zhi">> \o w
           t == PolicyName(w, a)
<1>1. /\ s \in Seq(STRING) /\ t \in Seq(STRING) /\ Len(t) = Len(s) + 1 /\ Len(s) \in Nat
      /\ \A i \in 1 .. Len(s) : t[i] = s[i]
  BY NameIs
<1> HIDE DEF s, t
<1>2. SubSeq(s, 1, Len(s)) = SubSeq(t, 1, Len(s))
  BY <1>1
<1>3. s # t
  BY <1>1
<1> QED BY <1>1, <1>2, <1>3 DEF Covers, IsStrictPrefix, IsPrefix, s, t

LEMMA NameParts ==
    ASSUME NEW w \in Seq(STRING), NEW a \in STRING
    PROVE  Front(Tail(PolicyName(w, a))) = w /\ Last(PolicyName(w, a)) = a
<1> DEFINE n == PolicyName(w, a)
<1>1. n \in Seq(STRING) /\ Len(n) = Len(w) + 2 /\ n[Len(w) + 2] = a /\ \A i \in 1 .. Len(w) : n[i + 1] = w[i]
  BY NameIs
<1> HIDE DEF n
<1>2. Len(w) \in Nat /\ n # <<>>
  BY <1>1, LenProperties
<1>3. Last(n) = a
  BY <1>1 DEF Last
<1>4. Tail(n) \in Seq(STRING) /\ Len(Tail(n)) = Len(w) + 1 /\ \A i \in 1 .. Len(w) : Tail(n)[i] = w[i]
  BY <1>1, <1>2, HeadTailProperties
<1>5. Front(Tail(n)) \in Seq(STRING) /\ Len(Front(Tail(n))) = Len(w) /\ \A i \in 1 .. Len(w) : Front(Tail(n))[i] = w[i]
  BY <1>2, <1>4 DEF Front
<1>6. Front(Tail(n)) = w
  BY <1>5, SeqEqual
<1> QED BY <1>3, <1>6 DEF n

LEMMA Workspaces ==
    ASSUME NEW f \in Named, NEW m \in Manager
    PROVE  f[m] \in Workspace /\ f[m] \in Seq(STRING)
BY PoliciesAssumption DEF Workspace

LEMMA OwnPolicies ==
    ASSUME name \in Named, NEW m \in Manager, NEW a \in App
    PROVE  /\ AppPolicy(m, a) \in Name
           /\ Covers(name[m], AppPolicy(m, a))
           /\ \A b \in App : AppPolicy(m, b) = AppPolicy(m, a) => a = b
<1>1. name[m] \in Workspace /\ name[m] \in Seq(STRING) /\ \A b \in App : b \in STRING
  BY Workspaces, PoliciesAssumption
<1>2. \A b \in App : AppPolicy(m, b)[Len(name[m]) + 2] = b
  BY <1>1, NameIs DEF AppPolicy
<1>3. AppPolicy(m, a) \in Name
  BY <1>1 DEF AppPolicy, Name
<1>4. Covers(name[m], AppPolicy(m, a))
  BY <1>1, NameCovered DEF AppPolicy
<1> QED BY <1>2, <1>3, <1>4

LEMMA Others == UserPolicy \in Name /\ ChildPolicy \in Name
BY DEF Name

-----------------------------------------------------------------------------
(* Types.                                                                   *)

LEMMA IdleType == Idle \in JobOf(OfApps, App) /\ NoAccess \in Access
BY DEF Idle, NoAccess, JobOf, OfApps, Access

LEMMA JobIs ==
    ASSUME TypeOK, NEW m \in Manager
    PROVE  /\ job[m].at \in OfPolicies => job[m] \in JobOf(OfPolicies, Name)
           /\ job[m].at \in OfApps => job[m] \in JobOf(OfApps, App)
           /\ job[m].at \in OfPolicies \cup OfApps
<1>1. job[m] \in Job
  BY DEF TypeOK
<1>2. OfPolicies \cap OfApps = {}
  BY DEF OfPolicies, OfApps
<1> QED BY <1>1, <1>2 DEF Job, JobOf

LEMMA Moves ==
    ASSUME TypeOK, NEW m \in Manager, NEW j \in Job, job' = [job EXCEPT ![m] = j]
    PROVE  job' \in [Manager -> Job]
BY DEF TypeOK

LEMMA InitType == Init => TypeOK
<1> SUFFICES ASSUME Init PROVE TypeOK
  OBVIOUS
<1>1. /\ name \in Named /\ labels \in [App -> SUBSET Rule] /\ ledger \subseteq Rule /\ clean \in BOOLEAN
      /\ calls \in 0..MaxCalls /\ unsure \subseteq Manager
  BY PoliciesAssumption DEF Init
<1>2. job \in [Manager -> Job] /\ given \in [Manager -> SUBSET App] /\ access \in [Granter -> Access]
  BY IdleType DEF Init, Job
<1>3. apps \in [Manager -> {App, App \ TokenApp}] /\ admin \in [Manager -> {"none", "good", "bad"}]
      /\ child \in [Manager -> {"none", "good", "ended"}]
  BY DEF Init
<1>4. role \in [Name -> {None} \cup Has]
  <2>1. \A n \in Name : {n} \in Has /\ Extra \in Has
    BY DEF Has
  <2> QED BY <2>1 DEF Init
<1>5. policy \in [Name -> {None} \cup Document]
  <2>1. [tree |-> <<>>, rules |-> Rule] \in Document
    BY DEF Document
  <2>2. ASSUME NEW n \in Name, Managed(n)
        PROVE  [tree |-> Front(Tail(n)), rules |-> labels[Last(n)]] \in Document
    <3>1. PICK m \in Manager, a \in App : n = PolicyName(name[m], a)
      BY <2>2 DEF Managed
    <3>2. name[m] \in Workspace /\ name[m] \in Seq(STRING) /\ a \in STRING
      BY <1>1, Workspaces, PoliciesAssumption
    <3>3. Front(Tail(n)) = name[m] /\ Last(n) = a
      BY <3>1, <3>2, NameParts
    <3> QED BY <1>1, <3>2, <3>3 DEF Document
  <2> QED BY <2>1, <2>2 DEF Init
<1> QED BY <1>1, <1>2, <1>3, <1>4, <1>5 DEF TypeOK

LEMMA CalledType == TypeOK /\ Called => calls' \in 0..MaxCalls
BY PoliciesAssumption DEF TypeOK, Called

LEMMA RequestType ==
    ASSUME TypeOK, NEW m \in Manager, NEW n \in Name, NEW new \in {None} \cup Document,
           job[m].at \in OfPolicies, Request(m, n, new)
    PROVE  TypeOK'
<1>1. job[m] \in JobOf(OfPolicies, Name)
  BY JobIs
<1>2. PICK works \in {Works(m) /\ Accepted(new), FALSE} :
        /\ policy' = IF works THEN [policy EXCEPT ![n] = new] ELSE policy
        /\ job' = [job EXCEPT ![m].left = @ \ {n}, ![m].failed = @ \/ ~works]
  BY DEF Request
<1>3. [job[m] EXCEPT !.left = @ \ {n}, !.failed = @ \/ ~works] \in Job
  BY <1>1 DEF Job, JobOf
<1>4. job' \in [Manager -> Job]
  <2>1. job' = [job EXCEPT ![m] = [job[m] EXCEPT !.left = @ \ {n}, !.failed = @ \/ ~works]]
    BY <1>1, <1>2 DEF TypeOK, JobOf
  <2> QED BY <1>3, <2>1, Moves
<1>5. policy' \in [Name -> {None} \cup Document]
  BY <1>2 DEF TypeOK
<1> QED BY <1>4, <1>5 DEF Request, TypeOK, managers, grants

LEMMA BuiltType ==
    ASSUME TypeOK, NEW m \in Manager, NEW a \in App
    PROVE  Built(m, a) \in Document
<1>1. job[m].read \in [App -> SUBSET Rule]
  BY JobIs DEF JobOf
<1>2. name[m] \in Workspace
  BY Workspaces DEF TypeOK
<1> QED BY <1>1, <1>2 DEF Built, Document

LEMMA AppsAre ==
    ASSUME TypeOK, NEW m \in Manager
    PROVE  apps[m] \subseteq App /\ Desired(m) \subseteq Name
<1>1. apps[m] \subseteq App
  BY DEF TypeOK
<1> QED BY <1>1, OwnPolicies DEF Desired, TypeOK

\* What a role has together with what it gets.
LEMMA RolesAre ==
    ASSUME NEW h \in Has, NEW n \in Name
    PROVE  h \cup {n} \in Has /\ h \cup Extra \in Has /\ {} \in Has
BY DEF Has

LEMMA KnownType == TypeOK => {} \in Has /\ \A n \in Name : Known(role[n]) \in Has
BY DEF TypeOK, Known, Has

LEMMA ManagerTypes ==
    ASSUME TypeOK, NEW m \in Manager,
           \/ Login(m) \/ PutChildPolicy(m) \/ ChildLogin(m) \/ TokenEnds(m)
           \/ GetValues(m) \/ Refresh(m) \/ Restart(m)
    PROVE  TypeOK'
<1> USE DEF TypeOK, managers, grants
<1>0. apps[m] \subseteq App /\ Desired(m) \subseteq Name
  BY AppsAre
<1>1. CASE Login(m)
  <2>1. [Idle EXCEPT !.at = "child policy"] \in Job /\ Idle \in Job
    BY IdleType DEF Job, JobOf, OfApps
  <2>2. job' \in [Manager -> Job]
    BY <1>1, <2>1, Moves DEF Login
  <2>3. admin' \in [Manager -> {"none", "good", "bad"}]
    BY <1>1 DEF Login
  <2>4. calls' \in 0..MaxCalls
    BY <1>1, CalledType DEF Login
  <2> QED BY <1>1, <2>2, <2>3, <2>4 DEF Login
<1>2. CASE PutChildPolicy(m)
  <2>1. job[m] \in JobOf(OfApps, App)
    BY <1>2, JobIs DEF PutChildPolicy, OfApps
  <2>2. \A b \in BOOLEAN : [job[m] EXCEPT !.at = OnChildPolicy(b)] \in Job
    BY <2>1 DEF Job, JobOf, OfApps, OnChildPolicy
  <2>3. job' \in [Manager -> Job]
    BY <1>2, <2>2, Moves DEF PutChildPolicy
  <2>4. [tree |-> <<>>, rules |-> Rule] \in Document
    BY DEF Document
  <2>5. policy' \in [Name -> {None} \cup Document]
    BY <1>2, <2>4, Others DEF PutChildPolicy
  <2> QED BY <1>2, <2>3, <2>5 DEF PutChildPolicy
<1>3. CASE ChildLogin(m)
  <2>1. job' \in [Manager -> Job]
    BY <1>3, IdleType, Moves DEF ChildLogin, Job
  <2> QED BY <1>3, <2>1 DEF ChildLogin
<1>4. CASE TokenEnds(m)
  BY <1>4 DEF TokenEnds
<1>5. CASE GetValues(m)
  <2>1. [Idle EXCEPT !.at = "list", !.read = labels] \in Job
    BY IdleType DEF Job, JobOf, OfApps
  <2>2. job' \in [Manager -> Job] /\ calls' \in 0..MaxCalls
    BY <1>5, <2>1, Moves, CalledType DEF GetValues
  <2> QED BY <1>5, <2>2 DEF GetValues
<1>6. CASE List(m)
  <2>1. job[m] \in JobOf(OfApps, App)
    BY <1>6, JobIs DEF List, OfApps
  <2>2. Matched(m) \subseteq Name
    BY DEF Matched
  <2>3. [job[m] EXCEPT !.at = "write", !.listed = Matched(m), !.left = Desired(m)] \in Job
    BY <1>0, <2>1, <2>2 DEF Job, JobOf, OfPolicies
  <2>4. [job[m] EXCEPT !.at = "roles", !.failed = TRUE, !.left = apps[m] \ TokenApp] \in Job
    BY <1>0, <2>1 DEF Job, JobOf, OfApps
  <2>5. \/ job' = [job EXCEPT ![m] = [job[m] EXCEPT !.at = "write", !.listed = Matched(m), !.left = Desired(m)]]
        \/ job' = [job EXCEPT ![m] = [job[m] EXCEPT !.at = "roles", !.failed = TRUE, !.left = apps[m] \ TokenApp]]
    BY <1>6, <2>1 DEF List, JobOf
  <2>6. job' \in [Manager -> Job]
    BY <2>3, <2>4, <2>5, Moves
  <2> QED BY <1>6, <2>6 DEF List
<1>7. CASE WritePolicy(m)
  <2>1. PICK a \in apps[m] : Request(m, AppPolicy(m, a), Built(m, a))
    BY <1>7 DEF WritePolicy
  <2> QED BY <1>0, <1>7, <2>1, BuiltType, OwnPolicies, RequestType DEF WritePolicy, OfPolicies
<1>8. CASE DeletePolicy(m)
  <2>1. PICK n \in job[m].left : Request(m, n, None)
    BY <1>8 DEF DeletePolicy
  <2>2. n \in Name
    BY <1>8, JobIs DEF DeletePolicy, OfPolicies, JobOf
  <2> QED BY <1>8, <2>1, <2>2, RequestType DEF DeletePolicy, OfPolicies
<1>9. CASE PoliciesDone(m)
  <2>1. job[m] \in JobOf(OfPolicies, Name)
    BY <1>9, JobIs DEF PoliciesDone, OfPolicies
  <2>2. [job[m] EXCEPT !.at = "delete", !.left = Stale(m)] \in Job
    BY <2>1 DEF Job, JobOf, OfPolicies, Stale
  <2>3. [job[m] EXCEPT !.at = "roles", !.left = apps[m] \ TokenApp] \in Job
    BY <1>0, <2>1 DEF Job, JobOf, OfApps
  <2>4. \/ job' = [job EXCEPT ![m] = [job[m] EXCEPT !.at = "delete", !.left = Stale(m)]]
        \/ job' = [job EXCEPT ![m] = [job[m] EXCEPT !.at = "roles", !.left = apps[m] \ TokenApp]]
    BY <1>9, <2>1 DEF PoliciesDone, JobOf
  <2>5. job' \in [Manager -> Job]
    BY <2>2, <2>3, <2>4, Moves
  <2> QED BY <1>9, <2>5 DEF PoliciesDone
<1>10. CASE ReadRole(m)
  <2>1. job[m] \in JobOf(OfApps, App)
    BY <1>10, JobIs DEF ReadRole, OfApps
  <2>2. PICK a \in job[m].left :
          \/ job' = [job EXCEPT ![m].left = @ \ {a}]
          \/ \E held \in {{}, Known(role[AppPolicy(m, a)])} :
                job' = [job EXCEPT ![m].seen = [app |-> a, policies |-> held]]
    BY <1>10 DEF ReadRole
  <2>3. a \in App
    BY <2>1 DEF JobOf
  <2>4. {{}, Known(role[AppPolicy(m, a)])} \subseteq Has
    BY <2>3, OwnPolicies, KnownType
  <2>5. [job[m] EXCEPT !.left = @ \ {a}] \in Job
    BY <2>1 DEF Job, JobOf
  <2>6. \A held \in Has : [job[m] EXCEPT !.seen = [app |-> a, policies |-> held]] \in Job
    BY <2>1, <2>3 DEF Job, JobOf
  <2>7. job' \in [Manager -> Job]
    BY <2>2, <2>4, <2>5, <2>6, Moves
  <2>8. unsure' \subseteq Manager
    BY <1>10 DEF ReadRole
  <2> QED BY <1>10, <2>7, <2>8 DEF ReadRole
<1>11. CASE WriteRole(m)
  <2>1. job[m].seen \in [app : App, policies : Has]
    BY <1>11, JobIs DEF WriteRole, JobOf
  <2>2. AppPolicy(m, job[m].seen.app) \in Name
    BY <2>1, OwnPolicies
  <2>3. RolePolicies(job[m].seen.policies, AppPolicy(m, job[m].seen.app)) \in Has
    BY <2>1, <2>2, RolesAre DEF RolePolicies
  <2>4. \A b \in BOOLEAN : [job[m] EXCEPT !.seen = None, !.left = @ \ {job[m].seen.app}, !.failed = @ \/ b] \in Job
    <3>1. job[m] \in JobOf(OfPolicies, Name) \/ job[m] \in JobOf(OfApps, App)
      BY DEF Job
    <3> QED BY <3>1 DEF Job, JobOf
  <2>5. PICK works \in {Works(m), FALSE} :
          /\ role' = IF works THEN [role EXCEPT ![AppPolicy(m, job[m].seen.app)] =
                            RolePolicies(job[m].seen.policies, AppPolicy(m, job[m].seen.app))] ELSE role
          /\ job' = [job EXCEPT ![m].seen = None, ![m].left = @ \ {job[m].seen.app}, ![m].failed = @ \/ ~works]
    BY <1>11 DEF WriteRole
  <2>6. job' \in [Manager -> Job]
    BY <2>4, <2>5, Moves DEF Works
  <2>7. role' \in [Name -> {None} \cup Has]
    BY <2>2, <2>3, <2>5
  <2> QED BY <1>11, <2>6, <2>7 DEF WriteRole
<1>12. CASE Generate(m)
  <2>1. job[m] \in JobOf(OfApps, App)
    BY <1>12, JobIs DEF Generate, OfApps
  <2>2. [job[m] EXCEPT !.at = "done"] \in Job
    BY <2>1 DEF Job, JobOf, OfApps
  <2>3. job' \in [Manager -> Job]
    BY <1>12, <2>2, Moves DEF Generate
  <2>4. given' \in [Manager -> SUBSET App]
    BY <1>0, <1>12 DEF Generate
  <2> QED BY <1>12, <2>3, <2>4 DEF Generate
<1>13. CASE Restart(m)
  <2>1. job' \in [Manager -> Job] /\ calls' \in 0..MaxCalls
    BY <1>13, IdleType, Moves, CalledType DEF Restart, Job
  <2> QED BY <1>13, <2>1 DEF Restart
<1> QED BY <1>1, <1>2, <1>3, <1>4, <1>5, <1>6, <1>7, <1>8, <1>9, <1>10, <1>11, <1>12, <1>13 DEF Refresh

LEMMA AccessIs ==
    ASSUME TypeOK, NEW g \in Granter
    PROVE  access[g] \in Access
BY DEF TypeOK

LEMMA RuleSets ==
    ASSUME NEW S \in SUBSET Rule, NEW paths \in SUBSET Path, NEW T \in SUBSET Rule
    PROVE  Without(S, paths) \subseteq Rule /\ S \cup T \subseteq Rule
BY DEF Without

LEMMA ParsedType == TypeOK => \A n \in Name : Parsed(policy[n]) \subseteq Rule
BY DEF TypeOK, Parsed, Document

LEMMA MergedType ==
    ASSUME NEW call \in Access
    PROVE  Merged(call) \subseteq Rule /\ Doc(call) \in {None} \cup Document
<1>1. Merged(call) \subseteq Rule
  BY RuleSets DEF Merged, Access
<1> QED BY <1>1 DEF Doc, Document

LEMMA GranterTypes ==
    ASSUME TypeOK, NEW g \in Granter,
           GrantAccess(g) \/ RevokeAccess(g) \/ ReadAccess(g) \/ WriteAccess(g)
    PROVE  TypeOK'
<1> USE DEF TypeOK, managers
<1>1. CASE GrantAccess(g)
  <2>1. PICK new \in Grants : access' = [access EXCEPT ![g] = [NoAccess EXCEPT !.at = "read", !.rules = new]]
    BY <1>1 DEF GrantAccess
  <2>2. [NoAccess EXCEPT !.at = "read", !.rules = new] \in Access
    BY IdleType, PoliciesAssumption DEF Access
  <2>3. access' \in [Granter -> Access]
    BY <2>1, <2>2
  <2>4. calls' \in 0..MaxCalls
    BY <1>1, CalledType DEF GrantAccess
  <2>5. clean' \in BOOLEAN
    BY <1>1 DEF GrantAccess
  <2> QED BY <1>1, <2>3, <2>4, <2>5 DEF GrantAccess
<1>2. CASE RevokeAccess(g)
  <2>1. PICK paths \in SUBSET Path :
          access' = [access EXCEPT ![g] = [NoAccess EXCEPT !.at = IF paths = {} THEN "write" ELSE "read",
                                                           !.what = "revoke", !.paths = paths]]
    BY <1>2 DEF RevokeAccess
  <2>2. [NoAccess EXCEPT !.at = IF paths = {} THEN "write" ELSE "read", !.what = "revoke", !.paths = paths] \in Access
    BY IdleType DEF Access
  <2>3. access' \in [Granter -> Access]
    BY <2>1, <2>2
  <2>4. calls' \in 0..MaxCalls
    BY <1>2, CalledType DEF RevokeAccess
  <2>5. clean' \in BOOLEAN
    BY <1>2 DEF RevokeAccess
  <2> QED BY <1>2, <2>3, <2>4, <2>5 DEF RevokeAccess
<1>3. CASE ReadAccess(g)
  <2>1. PICK works \in BOOLEAN :
          /\ access' = [access EXCEPT ![g].at = "write",
                                      ![g].seen = IF works THEN Parsed(policy[UserPolicy]) ELSE {}]
          /\ clean' = (clean /\ works)
    BY <1>3 DEF ReadAccess
  <2>2. Parsed(policy[UserPolicy]) \subseteq Rule
    BY ParsedType, Others
  <2>3. [access[g] EXCEPT !.at = "write", !.seen = IF works THEN Parsed(policy[UserPolicy]) ELSE {}] \in Access
    BY <2>2, AccessIs DEF Access
  <2>4. access' \in [Granter -> Access] /\ clean' \in BOOLEAN
    BY <2>1, <2>3
  <2> QED BY <1>3, <2>4 DEF ReadAccess
<1>4. CASE WriteAccess(g)
  <2>1. policy' \in [Name -> {None} \cup Document]
    BY <1>4, MergedType, AccessIs, Others DEF WriteAccess
  <2>2. ledger' \subseteq Rule
    <3>1. access[g].rules \subseteq Rule /\ access[g].paths \subseteq Path
      BY AccessIs DEF Access
    <3>2. ledger \cup access[g].rules \subseteq Rule /\ Without(ledger, access[g].paths) \subseteq Rule
      BY <3>1, RuleSets
    <3> QED BY <1>4, <3>2 DEF WriteAccess
  <2>3. access' \in [Granter -> Access] /\ clean' \in BOOLEAN
    BY <1>4, IdleType DEF WriteAccess
  <2> QED BY <1>4, <2>1, <2>2, <2>3 DEF WriteAccess
<1> QED BY <1>1, <1>2, <1>3, <1>4

LEMMA SaveType == TypeOK /\ Save => TypeOK'
BY PoliciesAssumption, CalledType DEF TypeOK, Save, managers, grants

LEMMA OperatorType == ASSUME TypeOK, NEW n \in Name, Operator(n) PROVE TypeOK'
<1>1. Known(role[n]) \cup Extra \in Has
  BY KnownType, RolesAre
<1>2. role' \in [Name -> {None} \cup Has] /\ calls' \in 0..MaxCalls /\ unsure' \subseteq Manager
  BY <1>1, CalledType DEF TypeOK, Operator
<1> QED BY <1>2 DEF TypeOK, Operator, managers, grants

LEMMA StepType == TypeOK /\ [Next]_vars => TypeOK'
<1> SUFFICES ASSUME TypeOK, [Next]_vars PROVE TypeOK'
  OBVIOUS
<1>1. ASSUME NEW m \in Manager,
             \/ Login(m) \/ PutChildPolicy(m) \/ ChildLogin(m) \/ TokenEnds(m)
             \/ GetValues(m) \/ Refresh(m) \/ Restart(m)
      PROVE  TypeOK'
  BY <1>1, ManagerTypes
<1>2. ASSUME NEW g \in Granter, GrantAccess(g) \/ RevokeAccess(g) \/ ReadAccess(g) \/ WriteAccess(g)
      PROVE  TypeOK'
  BY <1>2, GranterTypes
<1>3. ASSUME NEW m \in Manager, NEW a \in App \ TokenApp, Operator(AppPolicy(m, a))
      PROVE  TypeOK'
  BY <1>3, OwnPolicies, OperatorType DEF TypeOK
<1>4. CASE UNCHANGED vars
  BY <1>4 DEF TypeOK, vars
<1> QED BY <1>1, <1>2, <1>3, <1>4, SaveType DEF Next

\* The managers' calls, the policies and roles, and the granters' calls keep
\* to their types.
THEOREM TypeCorrect == Spec => []TypeOK
<1> QED BY InitType, StepType, PTL DEF Spec
-----------------------------------------------------------------------------
(* The inductive invariant.                                                 *)

Refreshing(m) == job[m].at \in {"write", "delete", "roles", "done"}

\* What a refresh deletes it has listed, and only what its workspace's name
\* covers is listed.
Listing ==
    \A m \in Manager :
        /\ job[m].at = "write" => job[m].left \subseteq Desired(m)
        /\ job[m].at = "delete" => job[m].left \subseteq Stale(m)
        /\ job[m].at \in OfPolicies => \A n \in job[m].listed : Covers(name[m], n)

\* The role that has been read is still to be written.
Reading ==
    \A m \in Manager : job[m].seen # None => job[m].at = "roles" /\ job[m].seen.app \in job[m].left

\* As long as nothing failed: what was written is there, ...
WrittenThere(m) ==
    Refreshing(m) => \A a \in apps[m] :
        \/ policy[AppPolicy(m, a)] = Built(m, a)
        \/ job[m].at = "write" /\ AppPolicy(m, a) \in job[m].left

\* ... what is not wanted is gone, listed, or still to be deleted, ...
RemovedGone(m) ==
    Refreshing(m) => \A a \in App \ apps[m] :
        \/ policy[AppPolicy(m, a)] = None
        \/ job[m].at = "write" /\ AppPolicy(m, a) \in job[m].listed
        \/ job[m].at = "delete" /\ AppPolicy(m, a) \in job[m].left

HasPolicy(m, a) ==
    role[AppPolicy(m, a)] # None /\ AppPolicy(m, a) \in role[AppPolicy(m, a)]

\* ... and a role that was dealt with has its policy.
RolesThere(m) ==
    /\ job[m].at = "roles" => \A a \in apps[m] \ TokenApp : a \in job[m].left \/ HasPolicy(m, a)
    /\ job[m].at = "done" => \A a \in given[m] \ TokenApp : HasPolicy(m, a)

Following ==
    \A m \in Manager :
        ~job[m].failed /\ Unshared(m) => WrittenThere(m) /\ RemovedGone(m) /\ RolesThere(m)

ChildKept ==
    (\A o \in Manager : ~Covers(name[o], ChildPolicy)) =>
        \A m \in Manager :
            child[m] = "good" \/ job[m].at = "child login" => policy[ChildPolicy] # None

\* A revocation of everything reads nothing.
Whole(call) == call.what = "revoke" /\ call.paths = {}

\* No workspace is named like the tree.
Uncovered == \A m \in Manager : ~Covers(name[m], UserPolicy)

\* Nobody but the granters writes the user's policy, one of them at a time,
\* and it writes by what it has read.
AccessKept ==
    clean =>
        /\ \A g, h \in Granter : access[g].at # "idle" /\ access[h].at # "idle" => g = h
        /\ \A g \in Granter : access[g].at = "read" => ~Whole(access[g])
        /\ Uncovered =>
              /\ Parsed(policy[UserPolicy]) = ledger
              /\ \A g \in Granter :
                    access[g].at = "write" => access[g].seen = IF Whole(access[g]) THEN {} ELSE ledger

\* No application's policy has the name of the child's or of the user's: no
\* workspace "child-secret" with an application "zhi", and none that is named
\* like the tree with one that is named like the user.
NamesApart == \A w \in Workspace, a \in App : PolicyName(w, a) \notin {ChildPolicy, UserPolicy}

-----------------------------------------------------------------------------
(* What a step does to the policies, to the roles and to one manager.       *)

ManagerStep(m) ==
    \/ Login(m) \/ PutChildPolicy(m) \/ ChildLogin(m) \/ GetValues(m) \/ Refresh(m) \/ Restart(m)

LEMMA WhoMoves ==
    ASSUME TypeOK, Next, NEW m \in Manager
    PROVE  /\ name' = name
           /\ \/ ManagerStep(m)
              \/ /\ job'[m] = job[m] /\ apps'[m] = apps[m] /\ given'[m] = given[m]
                 /\ child'[m] \in {child[m], "ended"}
<1>1. ASSUME NEW o \in Manager, ManagerStep(o)
      PROVE  /\ name' = name
             /\ o # m => /\ job'[m] = job[m] /\ apps'[m] = apps[m] /\ given'[m] = given[m]
                         /\ child'[m] = child[m]
  <2> USE DEF TypeOK, managers, grants
  <2>1. CASE Login(o)
    BY <2>1 DEF Login
  <2>2. CASE PutChildPolicy(o)
    BY <2>2 DEF PutChildPolicy
  <2>3. CASE ChildLogin(o)
    BY <2>3 DEF ChildLogin
  <2>4. CASE GetValues(o)
    BY <2>4 DEF GetValues
  <2>5. CASE List(o)
    BY <2>5 DEF List
  <2>6. CASE WritePolicy(o)
    BY <2>6 DEF WritePolicy, Request
  <2>7. CASE DeletePolicy(o)
    BY <2>7 DEF DeletePolicy, Request
  <2>8. CASE PoliciesDone(o)
    BY <2>8 DEF PoliciesDone
  <2>9. CASE ReadRole(o)
    BY <2>9 DEF ReadRole
  <2>10. CASE WriteRole(o)
    BY <2>10 DEF WriteRole
  <2>11. CASE Generate(o)
    BY <2>11 DEF Generate
  <2>12. CASE Restart(o)
    BY <2>12 DEF Restart
  <2> QED BY <1>1, <2>1, <2>2, <2>3, <2>4, <2>5, <2>6, <2>7, <2>8, <2>9, <2>10, <2>11, <2>12 DEF ManagerStep, Refresh
<1>2. ASSUME NEW o \in Manager, TokenEnds(o)
      PROVE  /\ name' = name /\ job' = job /\ apps' = apps /\ given' = given
             /\ child'[m] \in {child[m], "ended"}
  BY <1>2 DEF TokenEnds, grants, TypeOK
<1>3. ASSUME \/ \E g \in Granter : GrantAccess(g) \/ RevokeAccess(g) \/ ReadAccess(g) \/ WriteAccess(g)
             \/ Save
             \/ \E o \in Manager, a \in App \ TokenApp : Operator(AppPolicy(o, a))
      PROVE  /\ name' = name /\ job' = job /\ apps' = apps /\ given' = given /\ child' = child
  BY <1>3 DEF GrantAccess, RevokeAccess, ReadAccess, WriteAccess, Save, Operator, managers
<1>4. CASE \E o \in Manager : ManagerStep(o)
  BY <1>1, <1>4
<1>5. CASE \E o \in Manager : TokenEnds(o)
  BY <1>2, <1>5
<1> QED BY <1>3, <1>4, <1>5 DEF Next, ManagerStep

LEMMA PolicyWrites ==
    ASSUME TypeOK, Listing, Next, NEW n \in Name
    PROVE  \/ policy'[n] = policy[n]
           \/ n = ChildPolicy /\ policy'[n] # None
           \/ \E o \in Manager : Covers(name[o], n) /\ (WritePolicy(o) \/ DeletePolicy(o))
           \/ n = UserPolicy /\ \E g \in Granter : WriteAccess(g)
<1>1. ASSUME NEW o \in Manager, WritePolicy(o) \/ DeletePolicy(o), policy'[n] # policy[n]
      PROVE  Covers(name[o], n)
  <2>1. CASE WritePolicy(o)
    <3>1. PICK a \in apps[o] : Request(o, AppPolicy(o, a), Built(o, a))
      BY <2>1 DEF WritePolicy
    <3>2. n = AppPolicy(o, a)
      BY <1>1, <3>1 DEF Request, TypeOK
    <3> QED BY <3>2, AppsAre, OwnPolicies DEF TypeOK
  <2>2. CASE DeletePolicy(o)
    <3>1. PICK k \in job[o].left : Request(o, k, None)
      BY <2>2 DEF DeletePolicy
    <3>2. n = k
      BY <1>1, <3>1 DEF Request, TypeOK
    <3>3. job[o].left \subseteq Stale(o) /\ \A l \in job[o].listed : Covers(name[o], l)
      BY <2>2 DEF DeletePolicy, Listing, OfPolicies
    <3> QED BY <3>2, <3>3 DEF Stale
  <2> QED BY <1>1, <2>1, <2>2
<1>2. ASSUME NEW o \in Manager, PutChildPolicy(o), policy'[n] # policy[n]
      PROVE  n = ChildPolicy /\ policy'[n] # None
  <2>1. policy' = [policy EXCEPT ![ChildPolicy] = [tree |-> <<>>, rules |-> Rule]]
    BY <1>2 DEF PutChildPolicy
  <2>2. n = ChildPolicy /\ policy'[n] = [tree |-> <<>>, rules |-> Rule]
    BY <1>2, <2>1 DEF TypeOK
  <2>3. [tree |-> <<>>, rules |-> Rule] \in Document
    BY DEF Document
  <2> QED BY <2>2, <2>3, PoliciesAssumption
<1>3. ASSUME NEW g \in Granter, WriteAccess(g), policy'[n] # policy[n]
      PROVE  n = UserPolicy
  BY <1>3 DEF WriteAccess, TypeOK
<1>4. ASSUME NEW o \in Manager,
             \/ Login(o) \/ ChildLogin(o) \/ TokenEnds(o) \/ GetValues(o) \/ List(o)
             \/ PoliciesDone(o) \/ ReadRole(o) \/ WriteRole(o) \/ Generate(o) \/ Restart(o)
      PROVE  policy' = policy
  BY <1>4 DEF Login, ChildLogin, TokenEnds, GetValues, List, PoliciesDone, ReadRole, WriteRole, Generate, Restart
<1>5. ASSUME \/ \E g \in Granter : GrantAccess(g) \/ RevokeAccess(g) \/ ReadAccess(g)
             \/ Save
             \/ \E o \in Manager, a \in App \ TokenApp : Operator(AppPolicy(o, a))
      PROVE  policy' = policy
  BY <1>5 DEF GrantAccess, RevokeAccess, ReadAccess, Save, Operator
<1> QED BY <1>1, <1>2, <1>3, <1>4, <1>5 DEF Next, Refresh

\* A role that has its own policy keeps it, whoever writes to it.
LEMMA RoleKeeps ==
    ASSUME TypeOK, Next, NEW m \in Manager, NEW a \in App, HasPolicy(m, a)
    PROVE  HasPolicy(m, a)'
<1> DEFINE n == AppPolicy(m, a)
<1>1. n \in Name /\ AppPolicy(m, a)' = n
  BY OwnPolicies, WhoMoves DEF TypeOK, AppPolicy
<1>2. role[n] # None /\ n \in role[n]
  BY DEF HasPolicy
<1>3. SUFFICES role'[n] # None /\ n \in role'[n]
  BY <1>1 DEF HasPolicy
<1> HIDE DEF n
<1>4. ASSUME NEW o \in Manager, WriteRole(o) PROVE role'[n] # None /\ n \in role'[n]
  <2> DEFINE k == AppPolicy(o, job[o].seen.app)
  <2>1. job[o].seen \in [app : App, policies : Has]
    BY <1>4, JobIs DEF WriteRole, JobOf
  <2>2. k \in Name
    BY <2>1, OwnPolicies DEF TypeOK
  <2>3. \/ role' = role
        \/ role' = [role EXCEPT ![k] = RolePolicies(job[o].seen.policies, k)]
    BY <1>4 DEF WriteRole
  <2> HIDE DEF k
  <2>4. RolePolicies(job[o].seen.policies, k) \in Has /\ k \in RolePolicies(job[o].seen.policies, k)
    BY <2>1, <2>2, RolesAre DEF RolePolicies
  <2> QED BY <1>1, <1>2, <2>2, <2>3, <2>4, PoliciesAssumption DEF TypeOK
<1>5. ASSUME NEW o \in Manager, NEW b \in App \ TokenApp, Operator(AppPolicy(o, b))
      PROVE  role'[n] # None /\ n \in role'[n]
  <2> DEFINE k == AppPolicy(o, b)
  <2>1. role' = [role EXCEPT ![k] = Known(role[k]) \cup Extra]
    BY <1>5 DEF Operator
  <2>2. k \in Name
    BY OwnPolicies DEF TypeOK
  <2> HIDE DEF k
  <2>3. n = k => n \in Known(role[k])
    BY <1>2 DEF Known
  <2>4. Known(role[k]) \cup Extra \in Has
    BY <2>2, KnownType, RolesAre
  <2> QED BY <1>1, <1>2, <2>1, <2>3, <2>4, PoliciesAssumption DEF TypeOK
<1>6. ASSUME NEW o \in Manager,
             \/ Login(o) \/ PutChildPolicy(o) \/ ChildLogin(o) \/ TokenEnds(o) \/ GetValues(o) \/ List(o)
             \/ WritePolicy(o) \/ DeletePolicy(o) \/ PoliciesDone(o) \/ ReadRole(o) \/ Generate(o) \/ Restart(o)
      PROVE  role' = role
  BY <1>6 DEF Login, PutChildPolicy, ChildLogin, TokenEnds, GetValues, List, WritePolicy, DeletePolicy,
       Request, PoliciesDone, ReadRole, Generate, Restart
<1>7. ASSUME \/ \E g \in Granter : GrantAccess(g) \/ RevokeAccess(g) \/ ReadAccess(g) \/ WriteAccess(g)
             \/ Save
      PROVE  role' = role
  BY <1>7 DEF GrantAccess, RevokeAccess, ReadAccess, WriteAccess, Save
<1> QED BY <1>2, <1>4, <1>5, <1>6, <1>7 DEF Next, Refresh

-----------------------------------------------------------------------------
(* What a manager's own step does to its call.                              *)

Same(m) == job'[m].read = job[m].read /\ apps' = apps /\ name' = name

LEMMA StartMoves ==
    ASSUME TypeOK, NEW m \in Manager
    PROVE  /\ Login(m) => job'[m].at \in {"idle", "child policy"} /\ job'[m].seen = None
           /\ PutChildPolicy(m) => /\ job'[m].at \in {"idle", "child login"} /\ job'[m].seen = job[m].seen
                                   /\ job'[m].at = "child login" => policy'[ChildPolicy] # None
           /\ ChildLogin(m) \/ Restart(m) => job'[m].at = "idle" /\ job'[m].seen = None
           /\ GetValues(m) => job'[m].at = "list" /\ job'[m].seen = None
<1>1. ASSUME PutChildPolicy(m)
      PROVE  /\ job'[m].at \in {"idle", "child login"} /\ job'[m].seen = job[m].seen
             /\ job'[m].at = "child login" => policy'[ChildPolicy] # None
  <2>1. PICK written \in BOOLEAN :
          /\ \/ policy' = [policy EXCEPT ![ChildPolicy] = [tree |-> <<>>, rules |-> Rule]]
             \/ ~written /\ UNCHANGED policy
          /\ job' = [job EXCEPT ![m].at = OnChildPolicy(written)]
    BY <1>1 DEF PutChildPolicy
  <2>2. job[m] \in JobOf(OfApps, App)
    BY <1>1, JobIs DEF PutChildPolicy, OfApps
  <2>3. job'[m].at = OnChildPolicy(written) /\ job'[m].seen = job[m].seen
    BY <2>1, <2>2 DEF TypeOK, JobOf
  <2>4. [tree |-> <<>>, rules |-> Rule] \in Document
    BY DEF Document
  <2>5. written => policy'[ChildPolicy] # None
    BY <2>1, <2>4, Others, PoliciesAssumption DEF TypeOK
  <2> QED BY <2>3, <2>5 DEF OnChildPolicy
<1>2. ASSUME Login(m) PROVE job'[m].at \in {"idle", "child policy"} /\ job'[m].seen = None
  <2>1. job'[m] = Idle \/ job'[m] = [Idle EXCEPT !.at = "child policy"]
    BY <1>2 DEF Login, TypeOK
  <2> DEFINE j == [Idle EXCEPT !.at = "child policy"]
  <2>2. j.at = "child policy" /\ j.seen = Idle.seen
    BY IdleType DEF JobOf
  <2>3. Idle.at = "idle" /\ Idle.seen = None
    BY DEF Idle
  <2> QED BY <2>1, <2>2, <2>3
<1>3. ASSUME ChildLogin(m) \/ Restart(m) PROVE job'[m].at = "idle" /\ job'[m].seen = None
  <2>1. job'[m] = Idle
    BY <1>3 DEF ChildLogin, Restart, TypeOK
  <2> QED BY <2>1 DEF Idle
<1>4. ASSUME GetValues(m) PROVE job'[m].at = "list" /\ job'[m].seen = None
  BY <1>4 DEF GetValues, Idle, TypeOK
<1> QED BY <1>1, <1>2, <1>3, <1>4

LEMMA ListMoves ==
    ASSUME TypeOK, NEW m \in Manager, List(m)
    PROVE  /\ Same(m) /\ job'[m].seen = job[m].seen /\ policy' = policy
           /\ \/ /\ job'[m].at = "write" /\ job'[m].listed = Matched(m) /\ job'[m].left = Desired(m)
                 /\ job'[m].failed = job[m].failed
              \/ job'[m].at = "roles" /\ job'[m].failed = TRUE
<1>1. job[m] \in JobOf(OfApps, App)
  BY JobIs DEF List, OfApps
<1>2. \/ job' = [job EXCEPT ![m] = [job[m] EXCEPT !.at = "write", !.listed = Matched(m), !.left = Desired(m)]]
      \/ job' = [job EXCEPT ![m] = [job[m] EXCEPT !.at = "roles", !.failed = TRUE, !.left = apps[m] \ TokenApp]]
  BY <1>1 DEF List, JobOf
<1>3. \/ job'[m] = [job[m] EXCEPT !.at = "write", !.listed = Matched(m), !.left = Desired(m)]
      \/ job'[m] = [job[m] EXCEPT !.at = "roles", !.failed = TRUE, !.left = apps[m] \ TokenApp]
  BY <1>2 DEF TypeOK
<1>4. /\ job'[m].read = job[m].read /\ job'[m].seen = job[m].seen
      /\ \/ /\ job'[m].at = "write" /\ job'[m].listed = Matched(m) /\ job'[m].left = Desired(m)
            /\ job'[m].failed = job[m].failed
         \/ job'[m].at = "roles" /\ job'[m].failed = TRUE
  BY <1>1, <1>3 DEF JobOf
<1> QED BY <1>4 DEF Same, List, managers

Writes(n, new) == policy' = [policy EXCEPT ![n] = new]

LEMMA RequestMoves ==
    ASSUME TypeOK, NEW m \in Manager, NEW n, NEW new, job[m].at \in OfPolicies, Request(m, n, new)
    PROVE  /\ Same(m) /\ job'[m].seen = job[m].seen /\ job'[m].at = job[m].at
           /\ job'[m].listed = job[m].listed /\ job'[m].left = job[m].left \ {n} /\ n \in job[m].left
           /\ \/ job'[m].failed = TRUE /\ policy' = policy
              \/ job'[m].failed = job[m].failed /\ Writes(n, new)
<1>1. job[m] \in JobOf(OfPolicies, Name)
  BY JobIs
<1>2. PICK works \in {Works(m) /\ Accepted(new), FALSE} :
        /\ policy' = IF works THEN [policy EXCEPT ![n] = new] ELSE policy
        /\ job' = [job EXCEPT ![m].left = @ \ {n}, ![m].failed = @ \/ ~works]
  BY DEF Request
<1>3. job' = [job EXCEPT ![m] = [job[m] EXCEPT !.left = @ \ {n}, !.failed = @ \/ ~works]]
  BY <1>1, <1>2 DEF TypeOK, JobOf
<1>4. job'[m] = [job[m] EXCEPT !.left = @ \ {n}, !.failed = @ \/ ~works]
  BY <1>3 DEF TypeOK
<1>5. /\ job'[m].read = job[m].read /\ job'[m].seen = job[m].seen /\ job'[m].at = job[m].at
      /\ job'[m].listed = job[m].listed /\ job'[m].left = job[m].left \ {n}
      /\ job'[m].failed = (job[m].failed \/ ~works)
  BY <1>1, <1>4 DEF JobOf
<1>6. job[m].failed \in BOOLEAN /\ works \in BOOLEAN
  BY <1>1, <1>2 DEF JobOf, Works
<1>7. \/ job'[m].failed = TRUE /\ policy' = policy
      \/ job'[m].failed = job[m].failed /\ Writes(n, new)
  BY <1>2, <1>5, <1>6 DEF Writes
<1> QED BY <1>5, <1>7 DEF Same, Request, managers

LEMMA DoneMoves ==
    ASSUME TypeOK, NEW m \in Manager, PoliciesDone(m)
    PROVE  /\ Same(m) /\ job'[m].seen = job[m].seen /\ job'[m].failed = job[m].failed /\ policy' = policy
           /\ job[m].left = {} /\ job[m].at \in OfPolicies
           /\ \/ job[m].at = "write" /\ job'[m].at = "delete" /\ job'[m].left = Stale(m)
                 /\ job'[m].listed = job[m].listed
              \/ job[m].at = "delete" /\ job'[m].at = "roles" /\ job'[m].left = apps[m] \ TokenApp
<1>1. job[m] \in JobOf(OfPolicies, Name)
  BY JobIs DEF PoliciesDone, OfPolicies
<1>2. \/ job[m].at = "write" /\ job'[m] = [job[m] EXCEPT !.at = "delete", !.left = Stale(m)]
      \/ job[m].at = "delete" /\ job'[m] = [job[m] EXCEPT !.at = "roles", !.left = apps[m] \ TokenApp]
  BY <1>1 DEF PoliciesDone, TypeOK, JobOf
<1>3. /\ job'[m].seen = job[m].seen /\ job'[m].failed = job[m].failed /\ job'[m].read = job[m].read
      /\ \/ job[m].at = "write" /\ job'[m].at = "delete" /\ job'[m].left = Stale(m)
            /\ job'[m].listed = job[m].listed
         \/ job[m].at = "delete" /\ job'[m].at = "roles" /\ job'[m].left = apps[m] \ TokenApp
  BY <1>1, <1>2 DEF JobOf
<1> QED BY <1>1, <1>3 DEF Same, PoliciesDone, managers, JobOf

LEMMA ReadMoves ==
    ASSUME TypeOK, NEW m \in Manager, ReadRole(m)
    PROVE  /\ Same(m) /\ policy' = policy /\ role' = role /\ job[m].at = "roles" /\ job'[m].at = "roles"
           /\ job'[m].failed = job[m].failed /\ job[m].seen = None
           /\ \E a \in job[m].left :
                \/ HasPolicy(m, a) /\ job'[m].left = job[m].left \ {a} /\ job'[m].seen = None
                \/ job'[m].left = job[m].left /\ job'[m].seen.app = a
<1>1. job[m] \in JobOf(OfApps, App)
  BY JobIs DEF ReadRole, OfApps
<1>2. PICK a \in job[m].left :
        \/ HasPolicy(m, a) /\ job' = [job EXCEPT ![m].left = @ \ {a}]
        \/ \E h : job' = [job EXCEPT ![m].seen = [app |-> a, policies |-> h]]
  BY DEF ReadRole, HasPolicy, Known
<1>3. job[m].at = "roles" /\ job[m].seen = None
  BY DEF ReadRole
<1>4. CASE HasPolicy(m, a) /\ job' = [job EXCEPT ![m].left = @ \ {a}]
  <2>1. job'[m] = [job[m] EXCEPT !.left = @ \ {a}]
    BY <1>1, <1>4 DEF TypeOK, JobOf
  <2>2. /\ job'[m].at = "roles" /\ job'[m].failed = job[m].failed /\ job'[m].read = job[m].read
        /\ job'[m].left = job[m].left \ {a} /\ job'[m].seen = None
    BY <1>1, <1>3, <2>1 DEF JobOf
  <2> QED BY <1>3, <1>4, <2>2 DEF Same, ReadRole, managers
<1>5. CASE \E h : job' = [job EXCEPT ![m].seen = [app |-> a, policies |-> h]]
  <2>1. PICK h : job' = [job EXCEPT ![m].seen = [app |-> a, policies |-> h]]
    BY <1>5
  <2>2. job'[m] = [job[m] EXCEPT !.seen = [app |-> a, policies |-> h]]
    BY <1>1, <2>1 DEF TypeOK, JobOf
  <2>3. /\ job'[m].at = "roles" /\ job'[m].failed = job[m].failed /\ job'[m].read = job[m].read
        /\ job'[m].left = job[m].left /\ job'[m].seen.app = a
    BY <1>1, <1>3, <2>2 DEF JobOf
  <2> QED BY <1>3, <2>3 DEF Same, ReadRole, managers
<1> QED BY <1>2, <1>4, <1>5

LEMMA WriteMoves ==
    ASSUME TypeOK, NEW m \in Manager, WriteRole(m)
    PROVE  /\ Same(m) /\ policy' = policy /\ job'[m].at = job[m].at /\ job'[m].seen = None
           /\ job[m].seen \in [app : App, policies : Has]
           /\ job'[m].left = job[m].left \ {job[m].seen.app}
           /\ \/ job'[m].failed = TRUE
              \/ /\ job'[m].failed = job[m].failed
                 /\ role' = [role EXCEPT ![AppPolicy(m, job[m].seen.app)] =
                                RolePolicies(job[m].seen.policies, AppPolicy(m, job[m].seen.app))]
<1> DEFINE n == AppPolicy(m, job[m].seen.app)
           new == RolePolicies(job[m].seen.policies, n)
<1>1. PICK works \in {Works(m), FALSE} :
        /\ role' = IF works THEN [role EXCEPT ![n] = new] ELSE role
        /\ job' = [job EXCEPT ![m].seen = None, ![m].left = @ \ {job[m].seen.app}, ![m].failed = @ \/ ~works]
  BY DEF WriteRole
<1> HIDE DEF new, n
<1>2. job[m] \in JobOf(OfPolicies, Name) \/ job[m] \in JobOf(OfApps, App)
  BY DEF TypeOK, Job
<1>3. job[m].seen # None /\ job[m].failed \in BOOLEAN /\ works \in BOOLEAN
  BY <1>1, <1>2 DEF WriteRole, JobOf, Works
<1>4. job[m].seen \in [app : App, policies : Has]
  BY <1>2, <1>3 DEF JobOf
<1>5. job'[m] = [job[m] EXCEPT !.seen = None, !.left = @ \ {job[m].seen.app}, !.failed = @ \/ ~works]
  BY <1>1, <1>2 DEF TypeOK, JobOf
<1>6. /\ job'[m].at = job[m].at /\ job'[m].seen = None /\ job'[m].read = job[m].read
      /\ job'[m].left = job[m].left \ {job[m].seen.app} /\ job'[m].failed = (job[m].failed \/ ~works)
  BY <1>2, <1>5 DEF JobOf
<1>7. \/ job'[m].failed = TRUE
      \/ job'[m].failed = job[m].failed /\ role' = [role EXCEPT ![n] = new]
  BY <1>1, <1>3, <1>6
<1> QED BY <1>4, <1>6, <1>7 DEF Same, WriteRole, managers, n, new

LEMMA GenerateMoves ==
    ASSUME TypeOK, NEW m \in Manager, Generate(m)
    PROVE  /\ Same(m) /\ policy' = policy /\ role' = role
           /\ job[m].at = "roles" /\ job[m].left = {} /\ job[m].seen = None
           /\ job'[m].at = "done" /\ job'[m].seen = None /\ job'[m].failed = job[m].failed
           /\ given'[m] \subseteq apps[m]
<1>1. job[m] \in JobOf(OfApps, App)
  BY JobIs DEF Generate, OfApps
<1>2. job'[m] = [job[m] EXCEPT !.at = "done"]
  BY <1>1 DEF Generate, TypeOK, JobOf
<1>3. job'[m].at = "done" /\ job'[m].seen = job[m].seen /\ job'[m].failed = job[m].failed
      /\ job'[m].read = job[m].read
  BY <1>1, <1>2 DEF JobOf
<1>4. given'[m] \subseteq apps[m]
  BY DEF Generate, TypeOK
<1> QED BY <1>3, <1>4 DEF Same, Generate

-----------------------------------------------------------------------------
(* What is listed and what is read.                                         *)

LEMMA ListingStep == TypeOK /\ Listing /\ Reading /\ [Next]_vars => Listing' /\ Reading'
<1> SUFFICES ASSUME TypeOK, Listing, Reading, Next, NEW m \in Manager
             PROVE  /\ job'[m].at = "write" => job'[m].left \subseteq Desired(m)'
                    /\ job'[m].at = "delete" => job'[m].left \subseteq Stale(m)'
                    /\ job'[m].at \in OfPolicies => \A n \in job'[m].listed : Covers(name'[m], n)
                    /\ job'[m].seen # None => job'[m].at = "roles" /\ job'[m].seen.app \in job'[m].left
  BY DEF Listing, Reading, Desired, AppPolicy, Stale, vars
<1>1. name' = name
  BY WhoMoves
<1>2. /\ job[m].at = "write" => job[m].left \subseteq Desired(m)
      /\ job[m].at = "delete" => job[m].left \subseteq Stale(m)
      /\ job[m].at \in OfPolicies => \A n \in job[m].listed : Covers(name[m], n)
      /\ job[m].seen # None => job[m].at = "roles" /\ job[m].seen.app \in job[m].left
  BY DEF Listing, Reading
<1>3. apps'[m] = apps[m] => Desired(m)' = Desired(m)
  BY <1>1 DEF Desired, AppPolicy
<1>4. Stale(m)' = job'[m].listed \ Desired(m)'
  BY DEF Stale
<1>5. CASE job'[m] = job[m] /\ apps'[m] = apps[m]
  BY <1>1, <1>2, <1>3, <1>4, <1>5 DEF Stale
<1>6. CASE Login(m) \/ PutChildPolicy(m) \/ ChildLogin(m) \/ GetValues(m) \/ Restart(m)
  <2>1. PutChildPolicy(m) => job[m].seen = None
    BY <1>2 DEF PutChildPolicy
  <2>2. job'[m].at \in {"idle", "child policy", "child login", "list"} /\ job'[m].seen = None
    BY <1>6, <2>1, StartMoves
  <2> QED BY <2>2 DEF OfPolicies
<1>7. CASE List(m)
  <2>1. job[m].seen = None
    BY <1>2, <1>7 DEF List
  <2>2. \A n \in Matched(m) : Covers(name[m], n)
    BY DEF Matched
  <2> QED BY <1>1, <1>3, <1>7, <2>1, <2>2, ListMoves DEF OfPolicies, Same
<1>8. CASE WritePolicy(m) \/ DeletePolicy(m)
  <2>1. /\ Same(m) /\ job'[m].at = job[m].at /\ job'[m].left \subseteq job[m].left
        /\ job'[m].listed = job[m].listed /\ job'[m].seen = job[m].seen
    <3>1. PICK n, new : Request(m, n, new) /\ job[m].at \in OfPolicies
      BY <1>8 DEF WritePolicy, DeletePolicy, OfPolicies
    <3> QED BY <3>1, RequestMoves
  <2>2. job[m].seen = None
    BY <1>2, <1>8 DEF WritePolicy, DeletePolicy
  <2> QED BY <1>1, <1>2, <1>3, <1>4, <2>1, <2>2 DEF Same, Stale
<1>9. CASE PoliciesDone(m)
  <2>1. job[m].seen = None
    BY <1>2, <1>9, DoneMoves DEF OfPolicies
  <2> QED BY <1>1, <1>2, <1>3, <1>4, <1>9, <2>1, DoneMoves DEF OfPolicies, Same, Stale
<1>10. CASE ReadRole(m)
  BY <1>10, ReadMoves DEF OfPolicies
<1>11. CASE WriteRole(m)
  <2>1. job[m].at = "roles"
    BY <1>2, <1>11 DEF WriteRole
  <2> QED BY <1>11, <2>1, WriteMoves DEF OfPolicies
<1>12. CASE Generate(m)
  BY <1>12, GenerateMoves DEF OfPolicies
<1> QED BY <1>5, <1>6, <1>7, <1>8, <1>9, <1>10, <1>11, <1>12, WhoMoves DEF ManagerStep, Refresh

LEMMA ListingInit == Init => Listing /\ Reading
BY DEF Init, Listing, Reading, Idle, OfPolicies

LEMMA Base == Spec => [](TypeOK /\ Listing /\ Reading)
<1> QED BY InitType, StepType, ListingInit, ListingStep, PTL DEF Spec

-----------------------------------------------------------------------------
(* A refresh.                                                               *)

\* What is known of one manager's applications while nothing failed.
Follows(m) == WrittenThere(m) /\ RemovedGone(m) /\ RolesThere(m)

LEMMA NotRefreshing ==
    ASSUME NEW m \in Manager, job[m].at \in {"idle", "child policy", "child login", "list"}
    PROVE  Follows(m)
BY DEF Follows, WrittenThere, RemovedGone, RolesThere, Refreshing

\* What others do leaves them alone.
LEMMA OthersLeave ==
    ASSUME NamesApart, TypeOK, Listing, Next, NEW m \in Manager, Unshared(m), ~ManagerStep(m), Follows(m)
    PROVE  Follows(m)'
<1>1. name' = name /\ job'[m] = job[m] /\ apps'[m] = apps[m] /\ given'[m] = given[m]
  BY WhoMoves
<1>2. ASSUME NEW a \in App
      PROVE  AppPolicy(m, a)' = AppPolicy(m, a) /\ Built(m, a)' = Built(m, a)
  BY <1>1 DEF AppPolicy, Built
<1>3. ASSUME NEW a \in App
      PROVE  policy'[AppPolicy(m, a)] = policy[AppPolicy(m, a)]
  <2>1. AppPolicy(m, a) \in Name /\ AppPolicy(m, a) \notin {ChildPolicy, UserPolicy}
    BY OwnPolicies, Workspaces DEF TypeOK, NamesApart, AppPolicy
  <2>2. ASSUME NEW o \in Manager, Covers(name[o], AppPolicy(m, a)), WritePolicy(o) \/ DeletePolicy(o)
        PROVE  FALSE
    <3>1. o = m
      BY <2>2 DEF Unshared
    <3> QED BY <2>2, <3>1 DEF ManagerStep, Refresh
  <2> QED BY <2>1, <2>2, PolicyWrites
<1>4. apps[m] \subseteq App /\ given[m] \subseteq App
  BY AppsAre DEF TypeOK
<1>5. ASSUME NEW a \in App, HasPolicy(m, a) PROVE HasPolicy(m, a)'
  BY <1>5, RoleKeeps
<1>6. WrittenThere(m)'
  BY <1>1, <1>2, <1>3, <1>4 DEF Follows, WrittenThere, Refreshing
<1>7. RemovedGone(m)'
  BY <1>1, <1>2, <1>3 DEF Follows, RemovedGone, Refreshing
<1>8. RolesThere(m)'
  BY <1>1, <1>4, <1>5 DEF Follows, RolesThere
<1> QED BY <1>6, <1>7, <1>8 DEF Follows

LEMMA ListFollows ==
    ASSUME TypeOK, NEW m \in Manager, List(m), ~job'[m].failed
    PROVE  Follows(m)'
<1>1. /\ Same(m) /\ policy' = policy
      /\ job'[m].at = "write" /\ job'[m].listed = Matched(m) /\ job'[m].left = Desired(m)
  BY ListMoves
<1>2. \A a \in App : AppPolicy(m, a)' = AppPolicy(m, a)
  BY <1>1 DEF Same, AppPolicy
<1>3. apps[m] \subseteq App /\ apps' = apps
  BY <1>1, AppsAre DEF Same
<1>4. WrittenThere(m)'
  BY <1>1, <1>2, <1>3 DEF WrittenThere, Desired
<1>5. ASSUME NEW a \in App
      PROVE  policy[AppPolicy(m, a)] = None \/ AppPolicy(m, a) \in Matched(m)
  BY OwnPolicies DEF Matched, TypeOK
<1>6. RemovedGone(m)'
  BY <1>1, <1>2, <1>5 DEF RemovedGone
<1>7. RolesThere(m)'
  BY <1>1 DEF RolesThere
<1> QED BY <1>4, <1>6, <1>7 DEF Follows

LEMMA WriteFollows ==
    ASSUME TypeOK, NEW m \in Manager, WritePolicy(m), ~job'[m].failed, ~job[m].failed => Follows(m)
    PROVE  Follows(m)'
<1>1. PICK b \in apps[m] : Request(m, AppPolicy(m, b), Built(m, b))
  BY DEF WritePolicy
<1> DEFINE n == AppPolicy(m, b)
<1>2. job[m].at = "write" /\ apps[m] \subseteq App
  BY AppsAre DEF WritePolicy
<1>3. /\ Same(m) /\ job'[m].at = "write" /\ job'[m].listed = job[m].listed /\ job'[m].left = job[m].left \ {n}
      /\ ~job[m].failed /\ policy' = [policy EXCEPT ![n] = Built(m, b)]
  <2>1. job[m].at \in OfPolicies
    BY <1>2 DEF OfPolicies
  <2>2. /\ Same(m) /\ job'[m].at = job[m].at /\ job'[m].listed = job[m].listed
        /\ job'[m].left = job[m].left \ {n}
        /\ \/ job'[m].failed = TRUE
           \/ job'[m].failed = job[m].failed /\ Writes(n, Built(m, b))
    BY <1>1, <2>1, RequestMoves
  <2> QED BY <1>2, <2>2 DEF Writes
<1>4. ASSUME NEW a \in App
      PROVE  /\ AppPolicy(m, a)' = AppPolicy(m, a) /\ Built(m, a)' = Built(m, a)
             /\ AppPolicy(m, a) \in Name /\ (AppPolicy(m, a) = n => a = b)
  BY <1>2, <1>3, OwnPolicies DEF Same, AppPolicy, Built, TypeOK
<1>5. n \in Name /\ policy'[n] = Built(m, b)
  BY <1>2, <1>3, <1>4 DEF TypeOK
<1>6. \A a \in App : a # b => policy'[AppPolicy(m, a)] = policy[AppPolicy(m, a)]
  BY <1>3, <1>4 DEF TypeOK
<1> HIDE DEF n
<1>7. WrittenThere(m) /\ RemovedGone(m) /\ Refreshing(m) /\ apps' = apps
  BY <1>2, <1>3 DEF Follows, Refreshing, Same
<1>8. WrittenThere(m)'
  <2> SUFFICES ASSUME NEW a \in apps[m]
               PROVE  policy'[AppPolicy(m, a)] = Built(m, a) \/ AppPolicy(m, a) \in job'[m].left
    BY <1>2, <1>3, <1>4, <1>7 DEF WrittenThere
  <2>1. CASE a = b
    BY <1>5, <2>1 DEF n
  <2>2. CASE a # b
    BY <1>2, <1>3, <1>4, <1>6, <1>7, <2>2 DEF WrittenThere
  <2> QED BY <2>1, <2>2
<1>9. RemovedGone(m)'
  BY <1>2, <1>3, <1>4, <1>6, <1>7 DEF RemovedGone
<1>10. RolesThere(m)'
  BY <1>3 DEF RolesThere
<1> QED BY <1>8, <1>9, <1>10 DEF Follows

LEMMA DeleteFollows ==
    ASSUME TypeOK, Listing, NEW m \in Manager, DeletePolicy(m), ~job'[m].failed, ~job[m].failed => Follows(m)
    PROVE  Follows(m)'
<1>1. PICK n \in job[m].left : Request(m, n, None)
  BY DEF DeletePolicy
<1>2. job[m].at = "delete" /\ apps[m] \subseteq App
  BY AppsAre DEF DeletePolicy
<1>3. /\ Same(m) /\ job'[m].at = "delete" /\ job'[m].left = job[m].left \ {n}
      /\ ~job[m].failed /\ policy' = [policy EXCEPT ![n] = None]
  <2>1. job[m].at \in OfPolicies
    BY <1>2 DEF OfPolicies
  <2>2. /\ Same(m) /\ job'[m].at = job[m].at /\ job'[m].listed = job[m].listed
        /\ job'[m].left = job[m].left \ {n}
        /\ \/ job'[m].failed = TRUE
           \/ job'[m].failed = job[m].failed /\ Writes(n, None)
    BY <1>1, <2>1, RequestMoves
  <2> QED BY <1>2, <2>2 DEF Writes
<1>4. ASSUME NEW a \in App
      PROVE  /\ AppPolicy(m, a)' = AppPolicy(m, a) /\ Built(m, a)' = Built(m, a)
             /\ AppPolicy(m, a) \in Name
             /\ policy'[AppPolicy(m, a)] = IF AppPolicy(m, a) = n THEN None ELSE policy[AppPolicy(m, a)]
  BY <1>3, OwnPolicies DEF Same, AppPolicy, Built, TypeOK
<1>5. n \notin Desired(m)
  BY <1>1, <1>2 DEF Listing, Stale
<1>6. WrittenThere(m) /\ RemovedGone(m) /\ Refreshing(m) /\ apps' = apps
  BY <1>2, <1>3 DEF Follows, Refreshing, Same
<1>7. WrittenThere(m)'
  <2> SUFFICES ASSUME NEW a \in apps[m] PROVE policy'[AppPolicy(m, a)] = Built(m, a)
    BY <1>2, <1>3, <1>4, <1>6 DEF WrittenThere
  <2>1. AppPolicy(m, a) # n
    BY <1>5 DEF Desired
  <2> QED BY <1>2, <1>4, <1>6, <2>1 DEF WrittenThere
<1>8. RemovedGone(m)'
  <2> SUFFICES ASSUME NEW a \in App \ apps[m]
               PROVE  policy'[AppPolicy(m, a)] = None \/ AppPolicy(m, a) \in job'[m].left
    BY <1>3, <1>4, <1>6 DEF RemovedGone
  <2>1. policy[AppPolicy(m, a)] = None \/ AppPolicy(m, a) \in job[m].left
    BY <1>2, <1>6 DEF RemovedGone
  <2> QED BY <1>3, <1>4, <2>1
<1>9. RolesThere(m)'
  BY <1>3 DEF RolesThere
<1> QED BY <1>7, <1>8, <1>9 DEF Follows

LEMMA DoneFollows ==
    ASSUME TypeOK, NEW m \in Manager, PoliciesDone(m), Follows(m)
    PROVE  Follows(m)'
<1>1. /\ Same(m) /\ policy' = policy /\ job[m].left = {}
      /\ \/ job[m].at = "write" /\ job'[m].at = "delete" /\ job'[m].left = Stale(m)
         \/ job[m].at = "delete" /\ job'[m].at = "roles" /\ job'[m].left = apps[m] \ TokenApp
  BY DoneMoves
<1>2. ASSUME NEW a \in App
      PROVE  /\ AppPolicy(m, a)' = AppPolicy(m, a) /\ Built(m, a)' = Built(m, a)
             /\ a \notin apps[m] => AppPolicy(m, a) \notin Desired(m)
  <2>1. apps[m] \subseteq App
    BY AppsAre
  <2> QED BY <1>1, <2>1, OwnPolicies DEF Same, AppPolicy, Built, TypeOK, Desired
<1>3. WrittenThere(m) /\ RemovedGone(m) /\ Refreshing(m) /\ apps' = apps /\ apps[m] \subseteq App
  BY <1>1, AppsAre DEF Follows, Refreshing, Same
<1>4. WrittenThere(m)'
  BY <1>1, <1>2, <1>3 DEF WrittenThere
<1>5. RemovedGone(m)'
  BY <1>1, <1>2, <1>3 DEF RemovedGone, Stale
<1>6. RolesThere(m)'
  BY <1>1, <1>3 DEF RolesThere
<1> QED BY <1>4, <1>5, <1>6 DEF Follows

\* The steps that follow the policies leave those alone.
LEMMA PoliciesStay ==
    ASSUME TypeOK, NEW m \in Manager, Same(m), policy' = policy, Follows(m),
           job[m].at = "roles", job'[m].at \in {"roles", "done"}
    PROVE  WrittenThere(m)' /\ RemovedGone(m)'
<1>1. \A a \in App : AppPolicy(m, a)' = AppPolicy(m, a) /\ Built(m, a)' = Built(m, a)
  BY DEF Same, AppPolicy, Built
<1>2. apps[m] \subseteq App /\ apps' = apps
  BY AppsAre DEF Same
<1> QED BY <1>1, <1>2 DEF Follows, WrittenThere, RemovedGone, Refreshing

LEMMA ReadFollows ==
    ASSUME TypeOK, NEW m \in Manager, ReadRole(m), Follows(m)
    PROVE  Follows(m)'
<1>1. PICK a \in job[m].left :
        \/ HasPolicy(m, a) /\ job'[m].left = job[m].left \ {a}
        \/ job'[m].left = job[m].left
  BY ReadMoves
<1>2. Same(m) /\ policy' = policy /\ role' = role /\ job[m].at = "roles" /\ job'[m].at = "roles"
  BY ReadMoves
<1>3. \A b \in App : HasPolicy(m, b)' <=> HasPolicy(m, b)
  BY <1>2 DEF Same, HasPolicy, AppPolicy
<1>4. apps[m] \subseteq App /\ apps' = apps
  BY <1>2, AppsAre DEF Same
<1>5. RolesThere(m)'
  BY <1>1, <1>2, <1>3, <1>4 DEF Follows, RolesThere
<1> QED BY <1>2, <1>5, PoliciesStay DEF Follows

LEMMA WriteRoleFollows ==
    ASSUME TypeOK, Reading, Next, NEW m \in Manager, WriteRole(m), ~job'[m].failed, ~job[m].failed => Follows(m)
    PROVE  Follows(m)'
<1>1. PICK b \in App, had \in Has :
        /\ Same(m) /\ policy' = policy /\ job'[m].at = job[m].at
        /\ job'[m].left = job[m].left \ {b} /\ ~job[m].failed
        /\ role' = [role EXCEPT ![AppPolicy(m, b)] = RolePolicies(had, AppPolicy(m, b))]
  BY WriteMoves
<1>2. job[m].at = "roles"
  BY DEF Reading, WriteRole
<1>3. HasPolicy(m, b)'
  <2> DEFINE n == AppPolicy(m, b)
  <2>1. n \in Name /\ AppPolicy(m, b)' = n
    BY <1>1, OwnPolicies DEF TypeOK, Same, AppPolicy
  <2> HIDE DEF n
  <2>2. role'[n] = RolePolicies(had, n)
    BY <1>1, <2>1 DEF TypeOK, n
  <2>3. RolePolicies(had, n) \in Has /\ n \in RolePolicies(had, n)
    BY <2>1, RolesAre DEF RolePolicies
  <2> QED BY <2>1, <2>2, <2>3, PoliciesAssumption DEF HasPolicy
<1>4. apps[m] \subseteq App /\ apps' = apps
  BY <1>1, AppsAre DEF Same
<1>5. \A a \in apps[m] \ TokenApp : a \in job[m].left \/ HasPolicy(m, a)
  BY <1>1, <1>2 DEF Follows, RolesThere
<1>6. \A a \in App : HasPolicy(m, a) => HasPolicy(m, a)'
  BY RoleKeeps
<1>7. RolesThere(m)'
  BY <1>1, <1>2, <1>3, <1>4, <1>5, <1>6 DEF RolesThere
<1> QED BY <1>1, <1>2, <1>7, PoliciesStay DEF Follows

LEMMA GenerateFollows ==
    ASSUME TypeOK, NEW m \in Manager, Generate(m), Follows(m)
    PROVE  Follows(m)'
<1>1. /\ Same(m) /\ policy' = policy /\ role' = role /\ job[m].at = "roles" /\ job[m].left = {}
      /\ job'[m].at = "done" /\ given'[m] \subseteq apps[m]
  BY GenerateMoves
<1>2. \A b \in App : HasPolicy(m, b)' <=> HasPolicy(m, b)
  BY <1>1 DEF Same, HasPolicy, AppPolicy
<1>3. apps[m] \subseteq App
  BY AppsAre
<1>4. RolesThere(m)'
  BY <1>1, <1>2, <1>3 DEF Follows, RolesThere
<1> QED BY <1>1, <1>4, PoliciesStay DEF Follows

LEMMA FollowingStep ==
    ASSUME NamesApart
    PROVE  TypeOK /\ Listing /\ Reading /\ Following /\ [Next]_vars => Following'
<1> SUFFICES ASSUME TypeOK, Listing, Reading, Following, [Next]_vars,
                    NEW m \in Manager, ~job'[m].failed, Unshared(m)'
             PROVE  Follows(m)'
  BY DEF Following, Follows
<1>1. CASE UNCHANGED vars
  BY <1>1 DEF vars, Following, Follows, WrittenThere, RemovedGone, RolesThere, Refreshing, HasPolicy,
     Built, AppPolicy, Unshared
<1>2. CASE Next
  <2>1. Unshared(m)
    <3>1. name' = name
      BY <1>2, WhoMoves
    <3> QED BY <3>1 DEF Unshared, AppPolicy
  <2>2. ~job[m].failed => Follows(m)
    BY <2>1 DEF Following, Follows
  <2>3. CASE ~ManagerStep(m)
    <3>1. job'[m] = job[m]
      BY <1>2, <2>3, WhoMoves
    <3> QED BY <1>2, <2>1, <2>2, <2>3, <3>1, OthersLeave
  <2>4. CASE Login(m) \/ PutChildPolicy(m) \/ ChildLogin(m) \/ GetValues(m) \/ Restart(m)
    <3>1. job'[m].at \in {"idle", "child policy", "child login", "list"}
      BY <2>4, StartMoves
    <3> QED BY <3>1 DEF Follows, WrittenThere, RemovedGone, RolesThere, Refreshing
  <2>5. CASE List(m)
    BY <2>5, ListFollows
  <2>6. CASE WritePolicy(m)
    BY <2>2, <2>6, WriteFollows
  <2>7. CASE DeletePolicy(m)
    BY <2>2, <2>7, DeleteFollows
  <2>8. CASE PoliciesDone(m)
    BY <2>2, <2>8, DoneMoves, DoneFollows
  <2>9. CASE ReadRole(m)
    BY <2>2, <2>9, ReadMoves, ReadFollows
  <2>10. CASE WriteRole(m)
    BY <1>2, <2>2, <2>10, WriteRoleFollows
  <2>11. CASE Generate(m)
    BY <2>2, <2>11, GenerateMoves, GenerateFollows
  <2> QED BY <2>3, <2>4, <2>5, <2>6, <2>7, <2>8, <2>9, <2>10, <2>11 DEF ManagerStep, Refresh
<1> QED BY <1>1, <1>2

LEMMA FollowingInit == Init => Following
<1> SUFFICES ASSUME Init, NEW m \in Manager PROVE Follows(m)
  BY DEF Following, Follows
<1>1. job[m].at = "idle"
  BY DEF Init, Idle
<1> QED BY <1>1, NotRefreshing

LEMMA FollowingSays == TypeOK /\ Following => PoliciesFollowLabels
<1> SUFFICES ASSUME TypeOK, Following, NEW m \in Manager, job[m].at = "done", ~job[m].failed, Unshared(m),
                    NEW a \in App
             PROVE  /\ policy[AppPolicy(m, a)] = IF a \in apps[m] THEN Built(m, a) ELSE None
                    /\ a \in given[m] \ TokenApp => AppPolicy(m, a) \in role[AppPolicy(m, a)]
  BY DEF PoliciesFollowLabels
<1>1. WrittenThere(m) /\ RemovedGone(m) /\ RolesThere(m)
  BY DEF Following
<1> QED BY <1>1 DEF WrittenThere, RemovedGone, RolesThere, Refreshing, HasPolicy

-----------------------------------------------------------------------------
(* The child's policy.                                                      *)

LEMMA ChildStep == TypeOK /\ Listing /\ ChildKept /\ [Next]_vars => ChildKept'
<1> SUFFICES ASSUME TypeOK, Listing, ChildKept, Next, \A o \in Manager : ~Covers(name'[o], ChildPolicy),
                    NEW m \in Manager, child'[m] = "good" \/ job'[m].at = "child login"
             PROVE  policy'[ChildPolicy] # None
  BY DEF ChildKept, vars
<1>1. \A o \in Manager : ~Covers(name[o], ChildPolicy)
  BY WhoMoves
<1>2. policy[ChildPolicy] # None => policy'[ChildPolicy] # None
  BY <1>1, PolicyWrites, Others, UserAssumption
<1>3. child[m] = "good" \/ job[m].at = "child login" => policy[ChildPolicy] # None
  BY <1>1 DEF ChildKept
<1>4. CASE ~ManagerStep(m)
  <2>1. job'[m] = job[m] /\ child'[m] \in {child[m], "ended"}
    BY <1>4, WhoMoves
  <2> QED BY <1>2, <1>3, <2>1
<1>5. CASE Login(m)
  BY <1>2, <1>3, <1>5, StartMoves DEF Login
<1>6. CASE PutChildPolicy(m)
  BY <1>2, <1>3, <1>6, StartMoves DEF PutChildPolicy, managers
<1>7. CASE ChildLogin(m)
  BY <1>2, <1>3, <1>7 DEF ChildLogin
<1>8. CASE GetValues(m)
  BY <1>2, <1>3, <1>8, StartMoves DEF GetValues
<1>9. CASE Restart(m)
  <2>1. child'[m] = "none"
    BY <1>9 DEF Restart, TypeOK
  <2> QED BY <1>9, <2>1, StartMoves
<1>10. CASE Refresh(m)
  <2>1. child' = child
    BY <1>10 DEF Refresh, List, WritePolicy, DeletePolicy, Request, PoliciesDone, ReadRole, WriteRole, Generate,
       managers
  <2>2. ASSUME WritePolicy(m) \/ DeletePolicy(m)
        PROVE  job'[m].at # "child login"
    <3>1. PICK n, new : Request(m, n, new) /\ job[m].at \in OfPolicies
      BY <2>2 DEF WritePolicy, DeletePolicy, OfPolicies
    <3>2. job'[m].at \in OfPolicies
      BY <3>1, RequestMoves
    <3> QED BY <3>2 DEF OfPolicies
  <2>3. ASSUME WriteRole(m)
        PROVE  job'[m].at = job[m].at
    BY <2>3, WriteMoves
  <2>4. job'[m].at = "child login" => job[m].at = "child login"
    BY <1>10, <2>2, <2>3, ListMoves, DoneMoves, ReadMoves, GenerateMoves DEF Refresh
  <2> QED BY <1>2, <1>3, <2>1, <2>4
<1> QED BY <1>4, <1>5, <1>6, <1>7, <1>8, <1>9, <1>10 DEF ManagerStep

LEMMA ChildInit == Init => ChildKept
<1> SUFFICES ASSUME Init, NEW m \in Manager, child[m] = "good" \/ job[m].at = "child login"
             PROVE  policy[ChildPolicy] # None
  BY DEF ChildKept
<1>1. job[m].at = "idle"
  BY DEF Init, Idle
<1>2. PICK before \in BOOLEAN :
        /\ policy[ChildPolicy] = IF ~before THEN None ELSE [tree |-> <<>>, rules |-> Rule]
        /\ admin = [o \in Manager |-> IF before THEN "good" ELSE "none"]
        /\ child = admin
  BY Others DEF Init
<1>3. [tree |-> <<>>, rules |-> Rule] \in Document
  BY DEF Document
<1> QED BY <1>1, <1>2, <1>3, PoliciesAssumption

LEMMA ChildSays == ChildKept => ChildCanRead
BY DEF ChildKept, ChildCanRead

\* A refresh without failures leaves every application with the policy that
\* its labels ask for, those that were removed with none, and whoever got a
\* secret with the policy by its role; and a child store that was logged in
\* keeps a policy to read by: whatever other managers, granters, operators
\* and saves do in between.
THEOREM PoliciesStayInPlace ==
    ASSUME NamesApart
    PROVE  Spec => []PoliciesInPlace
<1>1. Init => Following /\ ChildKept
  BY FollowingInit, ChildInit
<1>2. (TypeOK /\ Listing /\ Reading) /\ Following /\ ChildKept /\ [Next]_vars => Following' /\ ChildKept'
  BY FollowingStep, ChildStep
<1>3. TypeOK /\ Following /\ ChildKept => PoliciesInPlace
  BY FollowingSays, ChildSays DEF PoliciesInPlace
<1> QED BY <1>1, <1>2, <1>3, Base, PTL DEF Spec

-----------------------------------------------------------------------------
(* The user's policy.                                                       *)

LEMMA ParsedDoc ==
    ASSUME NEW call \in Access
    PROVE  Parsed(Doc(call)) = Merged(call)
<1>1. CASE call.what = "revoke" /\ Merged(call) = {}
  BY <1>1 DEF Doc, Parsed
<1>2. CASE ~(call.what = "revoke" /\ Merged(call) = {})
  <2>1. Doc(call) = [tree |-> Tree, rules |-> Merged(call)]
    BY <1>2 DEF Doc
  <2>2. Doc(call) # None
    <3>1. [tree |-> Tree, rules |-> Merged(call)] \in Document
      BY MergedType DEF Document
    <3> QED BY <2>1, <3>1, PoliciesAssumption
  <2> QED BY <2>1, <2>2 DEF Parsed
<1> QED BY <1>1, <1>2

\* What a step does to the user's policy and to the ledger, unless it is
\* the write of a granter.
LEMMA UserPolicyStays ==
    ASSUME TypeOK, Listing, Next, Uncovered, \A g \in Granter : ~WriteAccess(g)
    PROVE  policy'[UserPolicy] = policy[UserPolicy] /\ ledger' = ledger
<1>1. policy'[UserPolicy] = policy[UserPolicy]
  BY PolicyWrites, Others, UserAssumption DEF Uncovered
<1>2. ASSUME NEW m \in Manager,
             \/ Login(m) \/ PutChildPolicy(m) \/ ChildLogin(m) \/ TokenEnds(m) \/ GetValues(m) \/ List(m)
             \/ PoliciesDone(m) \/ ReadRole(m) \/ WriteRole(m) \/ Generate(m) \/ Restart(m)
      PROVE  ledger' = ledger
  BY <1>2 DEF Login, PutChildPolicy, ChildLogin, TokenEnds, GetValues, List, PoliciesDone, ReadRole, WriteRole,
     Generate, Restart, grants
<1>3. ASSUME NEW m \in Manager, WritePolicy(m) \/ DeletePolicy(m) PROVE ledger' = ledger
  BY <1>3 DEF WritePolicy, DeletePolicy, Request, grants
<1>4. ASSUME \/ \E g \in Granter : GrantAccess(g) \/ RevokeAccess(g) \/ ReadAccess(g)
             \/ Save
             \/ \E m \in Manager, a \in App \ TokenApp : Operator(AppPolicy(m, a))
      PROVE  ledger' = ledger
  BY <1>4 DEF GrantAccess, RevokeAccess, ReadAccess, Save, Operator, grants
<1> QED BY <1>1, <1>2, <1>3, <1>4 DEF Next, Refresh

GranterStep(g) == GrantAccess(g) \/ RevokeAccess(g) \/ ReadAccess(g) \/ WriteAccess(g)

OthersSame(g) == name' = name /\ \A h \in Granter \ {g} : access'[h] = access[h]

\* Those who are not granters touch neither the calls nor the history of them.
LEMMA NoGranter ==
    ASSUME Next, \A g \in Granter : ~GranterStep(g)
    PROVE  access' = access /\ clean' = clean
<1>1. ASSUME NEW m \in Manager,
             \/ Login(m) \/ PutChildPolicy(m) \/ ChildLogin(m) \/ TokenEnds(m) \/ GetValues(m) \/ List(m)
             \/ PoliciesDone(m) \/ ReadRole(m) \/ WriteRole(m) \/ Generate(m) \/ Restart(m)
      PROVE  access' = access /\ clean' = clean
  BY <1>1 DEF Login, PutChildPolicy, ChildLogin, TokenEnds, GetValues, List, PoliciesDone, ReadRole, WriteRole,
     Generate, Restart, grants
<1>2. ASSUME NEW m \in Manager, WritePolicy(m) \/ DeletePolicy(m) PROVE access' = access /\ clean' = clean
  BY <1>2 DEF WritePolicy, DeletePolicy, Request, grants
<1>3. ASSUME Save \/ \E m \in Manager, a \in App \ TokenApp : Operator(AppPolicy(m, a))
      PROVE  access' = access /\ clean' = clean
  BY <1>3 DEF Save, Operator, grants
<1> QED BY <1>1, <1>2, <1>3 DEF GranterStep, Next, Refresh

LEMMA GrantMoves ==
    ASSUME TypeOK, NEW g \in Granter, GrantAccess(g)
    PROVE  /\ OthersSame(g) /\ policy' = policy /\ ledger' = ledger
           /\ access'[g].at = "read" /\ ~Whole(access'[g])
           /\ clean' => clean /\ Alone(g)
<1>1. PICK new \in Grants : access' = [access EXCEPT ![g] = [NoAccess EXCEPT !.at = "read", !.rules = new]]
  BY DEF GrantAccess
<1>2. access'[g] = [NoAccess EXCEPT !.at = "read", !.rules = new]
  BY <1>1 DEF TypeOK
<1>3. access'[g].at = "read" /\ access'[g].what = "grant"
  BY <1>2 DEF NoAccess
<1>4. OthersSame(g)
  BY <1>1 DEF OthersSame, GrantAccess, TypeOK
<1> QED BY <1>3, <1>4 DEF GrantAccess, Whole

LEMMA RevokeMoves ==
    ASSUME TypeOK, NEW g \in Granter, RevokeAccess(g)
    PROVE  /\ OthersSame(g) /\ policy' = policy /\ ledger' = ledger
           /\ access'[g].at = "read" => ~Whole(access'[g])
           /\ access'[g].at = "write" => Whole(access'[g]) /\ access'[g].seen = {}
           /\ clean' => clean /\ Alone(g)
<1>1. PICK paths \in SUBSET Path :
        access' = [access EXCEPT ![g] = [NoAccess EXCEPT !.at = IF paths = {} THEN "write" ELSE "read",
                                                         !.what = "revoke", !.paths = paths]]
  BY DEF RevokeAccess
<1>2. access'[g] = [NoAccess EXCEPT !.at = IF paths = {} THEN "write" ELSE "read",
                                    !.what = "revoke", !.paths = paths]
  BY <1>1 DEF TypeOK
<1>3. /\ access'[g].at = IF paths = {} THEN "write" ELSE "read"
      /\ access'[g].what = "revoke" /\ access'[g].paths = paths /\ access'[g].seen = {}
  BY <1>2 DEF NoAccess
<1>4. OthersSame(g)
  BY <1>1 DEF OthersSame, RevokeAccess, TypeOK
<1> QED BY <1>3, <1>4 DEF RevokeAccess, Whole

LEMMA ReadAccessMoves ==
    ASSUME TypeOK, NEW g \in Granter, ReadAccess(g)
    PROVE  /\ OthersSame(g) /\ policy' = policy /\ ledger' = ledger
           /\ access[g].at = "read" /\ access'[g].at = "write"
           /\ Whole(access[g])' <=> Whole(access[g])
           /\ clean' => clean /\ access'[g].seen = Parsed(policy[UserPolicy])
<1>1. PICK works \in BOOLEAN :
        /\ access' = [access EXCEPT ![g].at = "write",
                                    ![g].seen = IF works THEN Parsed(policy[UserPolicy]) ELSE {}]
        /\ clean' = (clean /\ works)
  BY DEF ReadAccess
<1>2. access[g] \in Access
  BY AccessIs
<1>3. access'[g] = [access[g] EXCEPT !.at = "write", !.seen = IF works THEN Parsed(policy[UserPolicy]) ELSE {}]
  BY <1>1, <1>2 DEF TypeOK, Access
<1>4. /\ access'[g].at = "write" /\ access'[g].what = access[g].what /\ access'[g].paths = access[g].paths
      /\ access'[g].seen = IF works THEN Parsed(policy[UserPolicy]) ELSE {}
  BY <1>2, <1>3 DEF Access
<1>5. OthersSame(g)
  BY <1>1 DEF OthersSame, ReadAccess, TypeOK
<1>6. Whole(access[g])' <=> Whole(access[g])
  BY <1>4 DEF Whole
<1>7. clean' => clean /\ access'[g].seen = Parsed(policy[UserPolicy])
  BY <1>1, <1>4
<1> QED BY <1>4, <1>5, <1>6, <1>7 DEF ReadAccess

LEMMA WriteAccessMoves ==
    ASSUME TypeOK, NEW g \in Granter, WriteAccess(g)
    PROVE  /\ OthersSame(g) /\ access[g].at = "write" /\ access'[g].at = "idle"
           /\ ledger' = IF access[g].what = "grant" THEN ledger \cup access[g].rules
                        ELSE IF access[g].paths = {} THEN {} ELSE Without(ledger, access[g].paths)
           /\ clean' => clean /\ Parsed(policy'[UserPolicy]) = Merged(access[g])
<1>1. clean' => clean /\ policy' = [policy EXCEPT ![UserPolicy] = Doc(access[g])]
  BY DEF WriteAccess
<1>2. clean' => policy'[UserPolicy] = Doc(access[g])
  BY <1>1, Others DEF TypeOK
<1>3. access[g] \in Access
  BY AccessIs
<1>4. access'[g] = NoAccess /\ OthersSame(g)
  BY DEF OthersSame, WriteAccess, TypeOK
<1>5. access'[g].at = "idle"
  BY <1>4 DEF NoAccess
<1> QED BY <1>1, <1>2, <1>3, <1>4, <1>5, ParsedDoc DEF WriteAccess

\* What a granter writes is what the ledger says by then.
LEMMA MergedIs ==
    ASSUME NEW call \in Access, NEW l, call.seen = IF Whole(call) THEN {} ELSE l
    PROVE  Merged(call) = IF call.what = "grant" THEN l \cup call.rules
                          ELSE IF call.paths = {} THEN {} ELSE Without(l, call.paths)
<1>1. call.what \in {"grant", "revoke"}
  BY DEF Access
<1>2. CASE call.what = "grant"
  BY <1>2 DEF Merged, Whole
<1>3. CASE call.what = "revoke" /\ call.paths = {}
  BY <1>3 DEF Merged, Whole, Without
<1>4. CASE call.what = "revoke" /\ call.paths # {}
  BY <1>4 DEF Merged, Whole
<1> QED BY <1>1, <1>2, <1>3, <1>4

\* While no call failed or ran beside another, the invariant in its parts.
OneCall == \A g, h \in Granter : access[g].at # "idle" /\ access[h].at # "idle" => g = h
ReadsSome == \A g \in Granter : access[g].at = "read" => ~Whole(access[g])
HasSeen(g) == access[g].at = "write" => access[g].seen = IF Whole(access[g]) THEN {} ELSE ledger
LedgerTrue == Parsed(policy[UserPolicy]) = ledger /\ \A g \in Granter : HasSeen(g)

LEMMA AccessParts == AccessKept <=> (clean => OneCall /\ ReadsSome /\ (Uncovered => LedgerTrue))
BY DEF AccessKept, OneCall, ReadsSome, LedgerTrue, HasSeen

LEMMA GranterKeeps ==
    ASSUME TypeOK, Listing, Next, NEW g \in Granter, GranterStep(g), clean',
           clean => OneCall /\ ReadsSome /\ (Uncovered => LedgerTrue)
    PROVE  OneCall' /\ ReadsSome' /\ (Uncovered' => LedgerTrue')
<1>1. OthersSame(g) /\ clean
  BY GrantMoves, RevokeMoves, ReadAccessMoves, WriteAccessMoves DEF GranterStep
<1>2. \A h \in Granter \ {g} : access'[h].at = "idle"
  <2>1. CASE GrantAccess(g) \/ RevokeAccess(g)
    BY <1>1, <2>1, GrantMoves, RevokeMoves DEF Alone, OthersSame
  <2>2. CASE ReadAccess(g) \/ WriteAccess(g)
    <3>1. access[g].at \in {"read", "write"}
      BY <2>2, ReadAccessMoves, WriteAccessMoves
    <3> QED BY <1>1, <3>1 DEF OthersSame, OneCall
  <2> QED BY <2>1, <2>2 DEF GranterStep
<1>3. OneCall'
  BY <1>2 DEF OneCall
<1>4. ReadsSome'
  <2>1. access'[g].at = "read" => ~Whole(access'[g])
    BY GrantMoves, RevokeMoves, ReadAccessMoves, WriteAccessMoves DEF GranterStep
  <2> QED BY <1>2, <2>1 DEF ReadsSome
<1>5. ASSUME Uncovered' PROVE LedgerTrue'
  <2>1. LedgerTrue
    BY <1>1, <1>5 DEF Uncovered, OthersSame
  <2>2. \A h \in Granter \ {g} : HasSeen(h)'
    BY <1>2 DEF HasSeen
  <2>3. CASE GrantAccess(g)
    BY <2>1, <2>2, <2>3, GrantMoves DEF LedgerTrue, HasSeen
  <2>4. CASE RevokeAccess(g)
    BY <2>1, <2>2, <2>4, RevokeMoves DEF LedgerTrue, HasSeen
  <2>5. CASE ReadAccess(g)
    <3>1. ~Whole(access[g])
      BY <1>1, <2>5, ReadAccessMoves DEF ReadsSome
    <3> QED BY <2>1, <2>2, <2>5, <3>1, ReadAccessMoves DEF LedgerTrue, HasSeen
  <2>6. CASE WriteAccess(g)
    <3>1. access[g] \in Access /\ access[g].seen = IF Whole(access[g]) THEN {} ELSE ledger
      BY <2>1, <2>6, AccessIs, WriteAccessMoves DEF LedgerTrue, HasSeen
    <3>2. Parsed(policy'[UserPolicy]) = ledger' /\ access'[g].at = "idle"
      BY <2>6, <3>1, WriteAccessMoves, MergedIs
    <3> QED BY <2>2, <3>2 DEF LedgerTrue, HasSeen
  <2> QED BY <2>3, <2>4, <2>5, <2>6 DEF GranterStep
<1> QED BY <1>3, <1>4, <1>5

LEMMA AccessStep == TypeOK /\ Listing /\ AccessKept /\ [Next]_vars => AccessKept'
<1> SUFFICES ASSUME TypeOK, Listing, clean => OneCall /\ ReadsSome /\ (Uncovered => LedgerTrue), [Next]_vars, clean'
             PROVE  OneCall' /\ ReadsSome' /\ (Uncovered' => LedgerTrue')
  BY AccessParts DEF AccessKept, OneCall, ReadsSome, LedgerTrue, HasSeen
<1>1. CASE UNCHANGED vars
  BY <1>1 DEF vars, OneCall, ReadsSome, Whole, Uncovered, LedgerTrue, HasSeen
<1>2. CASE Next /\ \E g \in Granter : GranterStep(g)
  BY <1>2, GranterKeeps
<1>3. CASE Next /\ \A g \in Granter : ~GranterStep(g)
  <2>1. access' = access /\ clean' = clean
    BY <1>3, NoGranter
  <2>2. OneCall' /\ ReadsSome'
    BY <2>1 DEF OneCall, ReadsSome
  <2>3. ASSUME Uncovered' PROVE LedgerTrue'
    <3>1. Uncovered
      <4>1. CASE \E m \in Manager : TRUE
        BY <1>3, <2>3, <4>1, WhoMoves DEF Uncovered
      <4>2. CASE ~\E m \in Manager : TRUE
        BY <4>2 DEF Uncovered
      <4> QED BY <4>1, <4>2
    <3>2. policy'[UserPolicy] = policy[UserPolicy] /\ ledger' = ledger
      BY <1>3, <3>1, UserPolicyStays DEF GranterStep
    <3> QED BY <2>1, <3>1, <3>2 DEF LedgerTrue, HasSeen
  <2> QED BY <2>2, <2>3
<1> QED BY <1>1, <1>2, <1>3

LEMMA AccessInit == Init => AccessKept
<1> SUFFICES ASSUME Init PROVE OneCall /\ ReadsSome /\ (Uncovered => LedgerTrue)
  BY AccessParts
<1>1. \A g \in Granter : access[g].at = "idle"
  BY DEF Init, NoAccess
<1>2. ASSUME Uncovered PROVE policy[UserPolicy] = None
  <2>1. ~Managed(UserPolicy)
    <3> SUFFICES ASSUME NEW m \in Manager, NEW a \in App, UserPolicy = PolicyName(name[m], a) PROVE FALSE
      BY DEF Managed
    <3>1. name \in Named
      BY DEF Init
    <3> QED BY <1>2, <3>1, OwnPolicies DEF Uncovered, AppPolicy
  <2> QED BY <2>1, Others, UserAssumption DEF Init
<1>3. Uncovered => Parsed(policy[UserPolicy]) = ledger
  BY <1>2 DEF Parsed, Init
<1> QED BY <1>1, <1>3 DEF OneCall, ReadsSome, LedgerTrue, HasSeen

\* Between calls that neither failed nor ran side by side, a user has what
\* was granted and not revoked, whatever the managers do, unless one of their
\* workspaces is named like the tree.
THEOREM AccessIsKept == Spec => []AccessAsGranted
<1>1. (TypeOK /\ Listing /\ Reading) /\ AccessKept /\ [Next]_vars => AccessKept'
  BY AccessStep
<1>2. AccessKept => AccessAsGranted
  BY DEF AccessKept, AccessAsGranted, Uncovered
<1> QED BY <1>1, <1>2, AccessInit, Base, PTL DEF Spec

-----------------------------------------------------------------------------
(* The roles.                                                               *)

\* What managers have read of a role does not get out of date by what other
\* managers do: who has read it shows no policy that the role has lost, unless
\* the role has its own by now, and who read it well misses none, neither of
\* the role nor of what others are about to write.
RoleKnown(m, n) ==
    Writing(m, n) =>
        /\ n \notin Known(role[n]) => job[m].seen.policies \subseteq Known(role[n])
        /\ m \notin unsure =>
              /\ Known(role[n]) \ {n} \subseteq job[m].seen.policies
              /\ \A o \in Manager : Writing(o, n) => job[o].seen.policies \ {n} \subseteq job[m].seen.policies

RolesKnown == \A m \in Manager, n \in Name : RoleKnown(m, n)

\* What a step does to what managers have read and to the roles.
SeenSame(m) == job'[m].seen = job[m].seen

LEMMA SeenMoves ==
    ASSUME TypeOK, Listing, Reading, Next, NEW m \in Manager, NEW n \in Name, Writing(m, n)'
    PROVE  \/ Writing(m, n) /\ SeenSame(m)
           \/ /\ ReadRole(m) /\ role' = role /\ n \notin job'[m].seen.policies
              /\ \/ job'[m].seen.policies = Known(role[n])
                 \/ job'[m].seen.policies = {} /\ m \in unsure'
<1>1. name' = name
  BY WhoMoves
<1>2. SeenSame(m) => Writing(m, n)
  BY <1>1 DEF Writing, SeenSame, AppPolicy
<1>3. CASE ~ManagerStep(m)
  BY <1>2, <1>3, WhoMoves DEF SeenSame
<1>4. CASE Login(m) \/ ChildLogin(m) \/ GetValues(m) \/ Restart(m) \/ WriteRole(m) \/ Generate(m)
  BY <1>4, StartMoves, WriteMoves, GenerateMoves DEF Writing
<1>5. CASE PutChildPolicy(m) \/ List(m) \/ PoliciesDone(m)
  BY <1>2, <1>5, StartMoves, ListMoves, DoneMoves DEF SeenSame
<1>6. CASE WritePolicy(m) \/ DeletePolicy(m)
  <2>1. PICK k, new : Request(m, k, new) /\ job[m].at \in OfPolicies
    BY <1>6 DEF WritePolicy, DeletePolicy, OfPolicies
  <2> QED BY <1>2, <2>1, RequestMoves DEF SeenSame
<1>7. CASE ReadRole(m)
  <2>1. job[m] \in JobOf(OfApps, App) /\ job[m].seen = None /\ role' = role
    BY <1>7, JobIs DEF ReadRole, OfApps
  <2>2. PICK a \in job[m].left, works \in {Works(m), FALSE} :
          LET held == IF works THEN Known(role[AppPolicy(m, a)]) ELSE {}
          IN /\ job' = IF AppPolicy(m, a) \in held THEN [job EXCEPT ![m].left = @ \ {a}]
                       ELSE [job EXCEPT ![m].seen = [app |-> a, policies |-> held]]
             /\ unsure' = IF works THEN unsure ELSE unsure \cup {m}
    BY <1>7 DEF ReadRole
  <2> DEFINE held == IF works THEN Known(role[AppPolicy(m, a)]) ELSE {}
  <2>3. CASE AppPolicy(m, a) \in held
    <3>1. job' = [job EXCEPT ![m] = [job[m] EXCEPT !.left = @ \ {a}]]
      BY <2>1, <2>2, <2>3 DEF TypeOK, JobOf
    <3>2. job'[m].seen = None
      BY <2>1, <3>1 DEF TypeOK, JobOf
    <3> QED BY <3>2 DEF Writing
  <2>4. CASE AppPolicy(m, a) \notin held
    <3>1. job' = [job EXCEPT ![m] = [job[m] EXCEPT !.seen = [app |-> a, policies |-> held]]]
      BY <2>1, <2>2, <2>4 DEF TypeOK, JobOf
    <3>2. job'[m].seen = [app |-> a, policies |-> held]
      BY <2>1, <3>1 DEF TypeOK, JobOf
    <3>3. AppPolicy(m, a) = n
      BY <1>1, <3>2 DEF Writing, AppPolicy
    <3>4. job'[m].seen.policies = held /\ n \notin held
      BY <2>4, <3>2, <3>3
    <3>5. held = Known(role[n]) \/ (held = {} /\ m \in unsure')
      BY <2>2, <3>3
    <3> QED BY <1>7, <2>1, <3>4, <3>5
  <2> QED BY <2>3, <2>4
<1> QED BY <1>3, <1>4, <1>5, <1>6, <1>7 DEF ManagerStep, Refresh

\* A role is changed by an operator, or by a manager that has read it.
LEMMA RoleMoves ==
    ASSUME TypeOK, Next, NEW n \in Name
    PROVE  \/ role'[n] = role[n]
           \/ /\ Known(role'[n]) = Known(role[n]) \cup Extra /\ job' = job
              /\ unsure' = unsure \cup {m \in Manager : Writing(m, n)}
           \/ \E o \in Manager :
                 /\ WriteRole(o) /\ Writing(o, n)
                 /\ Known(role'[n]) = job[o].seen.policies \cup {n} /\ role'[n] # None
<1>1. ASSUME NEW o \in Manager, WriteRole(o), role'[n] # role[n]
      PROVE  Writing(o, n) /\ Known(role'[n]) = job[o].seen.policies \cup {n} /\ role'[n] # None
  <2> DEFINE k == AppPolicy(o, job[o].seen.app)
             seen == job[o].seen
  <2>1. job[o].seen \in [app : App, policies : Has] /\ seen # None
    BY <1>1, WriteMoves DEF WriteRole
  <2>2. role' = [role EXCEPT ![k] = RolePolicies(seen.policies, k)]
    BY <1>1 DEF WriteRole
  <2> HIDE DEF k, seen
  <2>3. n = k /\ role'[n] = seen.policies \cup {n}
    BY <1>1, <2>2 DEF TypeOK, RolePolicies
  <2>4. seen.policies \cup {n} \in Has
    BY <2>1, RolesAre DEF seen
  <2>5. Known(role'[n]) = seen.policies \cup {n} /\ role'[n] # None
    BY <2>3, <2>4, PoliciesAssumption DEF Known
  <2> QED BY <2>1, <2>3, <2>5 DEF k, seen, Writing
<1>2. ASSUME NEW o \in Manager, NEW b \in App \ TokenApp, Operator(AppPolicy(o, b)), role'[n] # role[n]
      PROVE  /\ Known(role'[n]) = Known(role[n]) \cup Extra /\ job' = job
             /\ unsure' = unsure \cup {m \in Manager : Writing(m, n)}
  <2>1. n = AppPolicy(o, b)
    BY <1>2 DEF Operator, TypeOK
  <2>2. role'[n] = Known(role[n]) \cup Extra
    BY <1>2, <2>1 DEF Operator, TypeOK
  <2>3. Known(role[n]) \cup Extra \in Has
    BY KnownType, RolesAre
  <2>4. Known(role'[n]) = Known(role[n]) \cup Extra
    BY <2>2, <2>3, PoliciesAssumption DEF Known
  <2> QED BY <1>2, <2>1, <2>4 DEF Operator
<1>3. ASSUME NEW o \in Manager,
             \/ Login(o) \/ PutChildPolicy(o) \/ ChildLogin(o) \/ TokenEnds(o) \/ GetValues(o) \/ List(o)
             \/ WritePolicy(o) \/ DeletePolicy(o) \/ PoliciesDone(o) \/ ReadRole(o) \/ Generate(o) \/ Restart(o)
      PROVE  role' = role
  BY <1>3 DEF Login, PutChildPolicy, ChildLogin, TokenEnds, GetValues, List, WritePolicy, DeletePolicy,
       Request, PoliciesDone, ReadRole, Generate, Restart
<1>4. ASSUME \/ \E g \in Granter : GrantAccess(g) \/ RevokeAccess(g) \/ ReadAccess(g) \/ WriteAccess(g)
             \/ Save
      PROVE  role' = role
  BY <1>4 DEF GrantAccess, RevokeAccess, ReadAccess, WriteAccess, Save
<1> QED BY <1>1, <1>2, <1>3, <1>4 DEF Next, Refresh

\* Nobody is sure again before it wrote.
LEMMA UnsureStays ==
    ASSUME TypeOK, Listing, Reading, Next, NEW m \in Manager, NEW n \in Name, Writing(m, n), Writing(m, n)', m \in unsure
    PROVE  m \in unsure'
<1>1. ~WriteRole(m) /\ ~Restart(m)
  BY StartMoves, WriteMoves DEF Writing
<1>2. ASSUME NEW o \in Manager, WriteRole(o) \/ Restart(o) \/ ReadRole(o) PROVE m \in unsure'
  BY <1>1, <1>2 DEF WriteRole, Restart, ReadRole
<1>3. ASSUME NEW o \in Manager,
             \/ Login(o) \/ PutChildPolicy(o) \/ ChildLogin(o) \/ TokenEnds(o) \/ GetValues(o) \/ List(o)
             \/ WritePolicy(o) \/ DeletePolicy(o) \/ PoliciesDone(o) \/ Generate(o)
      PROVE  unsure' = unsure
  BY <1>3 DEF Login, PutChildPolicy, ChildLogin, TokenEnds, GetValues, List, WritePolicy, DeletePolicy,
       Request, PoliciesDone, Generate
<1>4. ASSUME \/ \E g \in Granter : GrantAccess(g) \/ RevokeAccess(g) \/ ReadAccess(g) \/ WriteAccess(g)
             \/ Save
      PROVE  unsure' = unsure
  BY <1>4 DEF GrantAccess, RevokeAccess, ReadAccess, WriteAccess, Save
<1>5. ASSUME NEW k, Operator(k) PROVE m \in unsure'
  BY <1>5 DEF Operator
<1> QED BY <1>2, <1>3, <1>4, <1>5 DEF Next, Refresh

LEMMA RolesKnownStep == TypeOK /\ Listing /\ Reading /\ RolesKnown /\ [Next]_vars => RolesKnown'
<1>1. ASSUME RolesKnown, UNCHANGED vars PROVE RolesKnown'
  BY <1>1 DEF vars, RolesKnown, RoleKnown, Writing, AppPolicy
<1> SUFFICES ASSUME TypeOK, Listing, Reading, RolesKnown, Next, NEW m \in Manager, NEW n \in Name, Writing(m, n)'
             PROVE  /\ n \notin Known(role'[n]) => job'[m].seen.policies \subseteq Known(role'[n])
                    /\ m \notin unsure' =>
                          /\ Known(role'[n]) \ {n} \subseteq job'[m].seen.policies
                          /\ \A o \in Manager :
                                Writing(o, n)' => job'[o].seen.policies \ {n} \subseteq job'[m].seen.policies
  BY <1>1 DEF RolesKnown, RoleKnown, Known
<1>2. ASSUME NEW o \in Manager, Writing(o, n)
      PROVE  /\ n \notin Known(role[n]) => job[o].seen.policies \subseteq Known(role[n])
             /\ o \notin unsure =>
                   /\ Known(role[n]) \ {n} \subseteq job[o].seen.policies
                   /\ \A l \in Manager : Writing(l, n) => job[l].seen.policies \ {n} \subseteq job[o].seen.policies
  BY <1>2 DEF RolesKnown, RoleKnown
<1>3. CASE Writing(m, n) /\ SeenSame(m)
  <2>1. job'[m].seen = job[m].seen
    BY <1>3 DEF SeenSame
  <2>2. m \notin unsure' => m \notin unsure
    BY <1>3, UnsureStays
  <2>3. n \notin Known(role'[n]) => job'[m].seen.policies \subseteq Known(role'[n])
    BY <1>2, <1>3, <2>1, RoleMoves
  <2>4. ASSUME m \notin unsure' PROVE Known(role'[n]) \ {n} \subseteq job'[m].seen.policies
    <3>1. m \notin {o \in Manager : Writing(o, n)} \/ role'[n] = role[n]
          \/ \E o \in Manager : Writing(o, n) /\ Known(role'[n]) = job[o].seen.policies \cup {n}
      BY <2>4, RoleMoves
    <3> QED BY <1>2, <1>3, <2>1, <2>2, <2>4, <3>1
  <2>5. ASSUME m \notin unsure', NEW o \in Manager, Writing(o, n)'
        PROVE  job'[o].seen.policies \ {n} \subseteq job'[m].seen.policies
    <3>1. \/ Writing(o, n) /\ job'[o].seen = job[o].seen
          \/ job'[o].seen.policies = Known(role[n]) \/ job'[o].seen.policies = {}
      BY <2>5, SeenMoves DEF SeenSame
    <3> QED BY <1>2, <1>3, <2>1, <2>2, <2>5, <3>1
  <2> QED BY <2>3, <2>4, <2>5
<1>4. CASE /\ ReadRole(m) /\ role' = role /\ n \notin job'[m].seen.policies
           /\ \/ job'[m].seen.policies = Known(role[n])
              \/ job'[m].seen.policies = {} /\ m \in unsure'
  <2>1. ASSUME m \notin unsure', NEW o \in Manager, Writing(o, n)'
        PROVE  job'[o].seen.policies \ {n} \subseteq job'[m].seen.policies
    <3>1. \/ Writing(o, n) /\ job'[o].seen = job[o].seen
          \/ job'[o].seen.policies = Known(role[n]) \/ job'[o].seen.policies = {}
      BY <2>1, SeenMoves DEF SeenSame
    <3>2. job'[m].seen.policies = Known(role[n]) /\ n \notin Known(role[n])
      BY <1>4, <2>1
    <3> QED BY <1>2, <3>1, <3>2
  <2> QED BY <1>4, <2>1
<1> QED BY <1>3, <1>4, SeenMoves

LEMMA RolesKnownInit == Init => RolesKnown
BY DEF Init, Idle, RolesKnown, RoleKnown, Writing

\* What a step of the managers takes from a role it takes unsurely.
RolesStep ==
    \A n \in DOMAIN role :
        \/ Known(role[n]) \subseteq Known(role'[n])
        \/ \E m \in unsure : Writing(m, n) /\ ~Writing(m, n)'

LEMMA RolesOnlyGrow == TypeOK /\ RolesKnown /\ [Next]_vars => [RolesStep]_vars
<1> SUFFICES ASSUME TypeOK, RolesKnown, Next, NEW n \in Name, ~(Known(role[n]) \subseteq Known(role'[n]))
             PROVE  \E m \in unsure : Writing(m, n) /\ ~Writing(m, n)'
  BY DEF RolesStep, TypeOK
<1>1. PICK o \in Manager : WriteRole(o) /\ Writing(o, n) /\ Known(role'[n]) = job[o].seen.policies \cup {n}
  BY RoleMoves
<1>2. o \in unsure
  <2>1. o \notin unsure => Known(role[n]) \ {n} \subseteq job[o].seen.policies
    BY <1>1 DEF RolesKnown, RoleKnown
  <2> QED BY <1>1, <2>1
<1>3. ~Writing(o, n)'
  BY <1>1, WriteMoves DEF Writing
<1> QED BY <1>1, <1>2, <1>3

\* However many managers refresh the same applications at a time, a role
\* loses a policy only by one whose own read of the role failed, or that read
\* it before an operator changed it.
THEOREM RolesArePreserved == Spec => RolesKeepPolicies
<1>1. TypeOK /\ Listing /\ Reading /\ RolesKnown /\ [Next]_vars => RolesKnown'
  BY RolesKnownStep
<1>2. TypeOK /\ RolesKnown /\ [Next]_vars => [RolesStep]_vars
  BY RolesOnlyGrow
<1> QED BY <1>1, <1>2, RolesKnownInit, Base, PTL DEF Spec, RolesKeepPolicies, RolesStep
=============================================================================

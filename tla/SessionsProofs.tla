--------------------------- MODULE SessionsProofs ---------------------------
(***************************************************************************)
(* Theorems about Sessions, for any tokens, leases, renewals and delays.   *)
(***************************************************************************)
EXTENDS Sessions, TLAPS

-----------------------------------------------------------------------------
(* Types.                                                                  *)

LEMMA IntervalType == \A s \in Nat : RenewInterval(s) \in Nat
BY DEF RenewInterval

LEMMA GrantType ==
    ASSUME TypeOK, NEW t, NEW l \in Leases, NEW r \in BOOLEAN
    PROVE  Grant(t, l, r) \in VaultTokens
BY SessionsAssumption DEF Grant, VaultTokens, Ticks, TypeOK

LEMMA InitTypeOK == Init => TypeOK
<1> SUFFICES ASSUME Init PROVE TypeOK
  OBVIOUS
<1>1. now \in 0 .. MaxNow /\ token \in Sent
  BY SessionsAssumption DEF Init, Sent
<1>2. \A t, l \in Nat : Grant(t, l, FALSE) \in VaultTokens
  BY SessionsAssumption DEF Init, Grant, VaultTokens, Ticks
<1>3. NotGranted \in VaultTokens
  BY DEF NotGranted, VaultTokens
<1>4. vault \in [Tokens -> VaultTokens]
  <2>1. PICK l \in Leases : vault = [t \in Tokens |-> IF t = token THEN Grant(t, l, FALSE) ELSE NotGranted]
    BY DEF Init
  <2>2. \A t : Grant(t, l, FALSE) \in VaultTokens
    BY <2>1, SessionsAssumption DEF Init, Grant, VaultTokens, Ticks
  <2> QED BY <2>1, <2>2, <1>3
<1>5. login \in [Logins -> LoginStates]
  BY DEF Init, NoLogin, LoginStates, Sent
<1>6. loops \in [Loops -> LoopStates] /\ \A k \in Loops : loops[k].pc \notin {"waiting", "sent"}
  BY DEF Init, NotStarted, LoopStates
<1>7. session \in SessionStates /\ request \in {"idle", "sent", "unauthorized"}
  BY DEF Init, Unauthenticated, SessionStates, Sent
<1> QED BY <1>1, <1>4, <1>5, <1>6, <1>7 DEF TypeOK, Init

LEMMA StepTypeOK == TypeOK /\ [Next]_vars => TypeOK'
<1> SUFFICES ASSUME TypeOK, [Next]_vars PROVE TypeOK'
  OBVIOUS
<1> USE DEF TypeOK
<1>a. NoLogin \in LoginStates /\ Ended \in LoopStates
  BY DEF NoLogin, LoginStates, Ended, NotStarted, LoopStates, Sent
<1>s. Checked \in SessionStates /\ Expired \in SessionStates /\ Unauthenticated \in SessionStates
  BY DEF Checked, Expired, Unauthenticated, SessionStates, Sent
<1>1. CASE \E p \in Logins : Exchange(p)
  <2> PICK p \in Logins : Exchange(p)
    BY <1>1
  <2>1. PICK t \in Tokens, l \in Leases, r \in BOOLEAN :
          /\ vault' = [vault EXCEPT ![t] = Grant(t, l, r)]
          /\ login' = [login EXCEPT ![p] =
               [pc |-> "answered", token |-> t, seen |-> t, at |-> now,
                ttl |-> l, expires |-> 0, renewable |-> r]]
    BY DEF Exchange
  <2>2. vault' \in [Tokens -> VaultTokens]
    BY <2>1, GrantType
  <2>3. login' \in [Logins -> LoginStates]
    BY <2>1, SessionsAssumption DEF LoginStates, Sent
  <2> QED BY <2>2, <2>3 DEF Exchange
<1>2. CASE \E p \in Logins : KeepToken(p)
  <2> PICK p \in Logins : KeepToken(p)
    BY <1>2
  <2>1. login[p].token \in Sent /\ now + Ticks(login[p].ttl) \in Nat
    BY SessionsAssumption DEF LoginStates, Ticks
  <2> DEFINE expires == IF login[p].ttl = 0 THEN 0 ELSE now + Ticks(login[p].ttl)
             stored == [login[p] EXCEPT !.pc = "stored", !.expires = expires]
  <2>2. stored \in LoginStates
    <3>1. expires \in Nat
      BY <2>1
    <3> HIDE DEF expires
    <3> QED BY <3>1 DEF LoginStates
  <2>3. login' = [login EXCEPT ![p] = stored]
    BY DEF KeepToken
  <2> HIDE DEF stored
  <2>4. login' \in [Logins -> LoginStates]
    BY <2>2, <2>3
  <2> QED BY <2>1, <2>4 DEF KeepToken
<1>3. CASE \E p \in Logins : PasteToken(p)
  <2> PICK p \in Logins : PasteToken(p)
    BY <1>3
  <2>1. PICK t \in Granted \cup {BadToken} :
          /\ token' = t
          /\ login' = [login EXCEPT ![p] = [NoLogin EXCEPT !.pc = "pasted", !.token = t]]
    BY DEF PasteToken
  <2>2. t \in Sent
    BY DEF Granted, Sent
  <2>3. [NoLogin EXCEPT !.pc = "pasted", !.token = t] \in LoginStates
    BY <2>2 DEF NoLogin, LoginStates
  <2> QED BY <2>1, <2>2, <2>3 DEF PasteToken
<1>4. CASE \E p \in Logins : Lookup(p)
  <2> PICK p \in Logins : Lookup(p)
    BY <1>4
  <2>1. CASE login' = [login EXCEPT ![p].pc = "refused"]
    BY <2>1 DEF Lookup, LoginStates
  <2>2. CASE Alive(token) /\ login' # [login EXCEPT ![p].pc = "refused"]
    <3>1. token \in Tokens /\ TimeToLive(token) \in Nat
      BY <2>2 DEF Alive, Granted, TimeToLive, VaultTokens
    <3>2. vault[token].expiry \in Nat /\ vault[token].renewable \in BOOLEAN
      BY <3>1 DEF VaultTokens
    <3> DEFINE expires == IF vault[token].lease = 0 THEN 0 ELSE vault[token].expiry
               stored == [login[p] EXCEPT
                            !.pc = "stored", !.seen = token, !.at = now,
                            !.ttl = TimeToLive(token), !.expires = expires,
                            !.renewable = vault[token].renewable]
    <3>3. stored \in LoginStates
      <4>1. expires \in Nat /\ now \in Nat
        BY <3>2, SessionsAssumption
      <4> HIDE DEF expires
      <4> QED BY <3>1, <3>2, <4>1 DEF LoginStates
    <3>4. login' = [login EXCEPT ![p] = stored]
      BY <2>2 DEF Lookup
    <3> HIDE DEF stored
    <3>5. login' \in [Logins -> LoginStates]
      BY <3>3, <3>4
    <3> QED BY <3>5 DEF Lookup
  <2> QED BY <2>1, <2>2 DEF Lookup
<1>5. CASE \E p \in Logins : DropToken(p)
  BY <1>5, <1>a DEF DropToken, AfterRefusal, Sent
<1>6. CASE \E p \in Logins : StartRenewal(p)
  <2> PICK p \in Logins : StartRenewal(p)
    BY <1>6
  <2>1. login' \in [Logins -> LoginStates]
    BY <1>a DEF StartRenewal, LoginStates, NoLogin
  <2>2. CASE UNCHANGED <<loops, stopRenew>>
    BY <2>1, <2>2 DEF StartRenewal
  <2>3. ASSUME login[p].ttl > 0, NEW k \in Loops, loops' = Restarted(k, p), stopRenew' = k
        PROVE  TypeOK'
    <3>1. loops' \in [Loops -> LoopStates]
      <4>1. login[p].ttl \in Nat /\ login[p].seen \in Tokens \cup {NoToken}
        BY DEF LoginStates
      <4>2. \A j \in Loops : [loops[j] EXCEPT !.stopped = TRUE] \in LoopStates
        BY DEF LoopStates
      <4> QED BY <2>3, <4>1, <4>2, IntervalType DEF Restarted, LoopStates
    <3>2. \A j \in Loops : loops'[j].pc \in {"waiting", "sent"} => loops'[j].ttl > 0
      BY <2>3 DEF Restarted, LoopStates
    <3> QED BY <2>1, <2>3, <3>1, <3>2 DEF StartRenewal
  <2> QED BY <2>2, <2>3 DEF StartRenewal
<1>7. CASE \E p \in Logins : OpenSession(p)
  BY <1>7, <1>a DEF OpenSession, NewSession, LoginStates, SessionStates
<1>8. CASE \E k \in Loops : Renew(k)
  <2> PICK k \in Loops : Renew(k)
    BY <1>8
  <2>1. now \in Nat /\ loops[k] \in LoopStates /\ loops[k].ttl > 0
    BY SessionsAssumption DEF Renew
  <2>2. CASE Alive(token) /\ vault' = [vault EXCEPT ![token].expiry = Extended(token)]
             /\ loops' = [loops EXCEPT ![k] = [loops[k] EXCEPT
                            !.pc = "sent", !.due = 0, !.at = now, !.keeps = token]]
    <3> DEFINE sent == [loops[k] EXCEPT !.pc = "sent", !.due = 0, !.at = now, !.keeps = token]
    <3>1. token \in Tokens
      BY <2>2 DEF Alive, Granted
    <3>2. Extended(token) \in Nat
      BY <3>1, SessionsAssumption DEF Extended, VaultTokens, Ticks
    <3>3. vault' \in [Tokens -> VaultTokens]
      BY <2>2, <3>1, <3>2 DEF VaultTokens
    <3>4. sent \in LoopStates /\ sent.ttl > 0
      BY <2>1, <3>1 DEF LoopStates
    <3> QED BY <2>2, <3>3, <3>4 DEF Renew
  <2>3. CASE UNCHANGED vault /\ loops' = [loops EXCEPT ![k] = [loops[k] EXCEPT
                                            !.pc = "sent", !.due = 0, !.at = now, !.ok = FALSE]]
    <3> DEFINE sent == [loops[k] EXCEPT !.pc = "sent", !.due = 0, !.at = now, !.ok = FALSE]
    <3>1. sent \in LoopStates /\ sent.ttl > 0
      BY <2>1 DEF LoopStates
    <3> QED BY <2>3, <3>1 DEF Renew
  <2> QED BY <2>2, <2>3 DEF Renew
<1>9. CASE \E k \in Loops : Renewed(k)
  <2> PICK k \in Loops : Renewed(k)
    BY <1>9
  <2> DEFINE due == now + RenewInterval(loops[k].ttl)
             waiting == [loops[k] EXCEPT !.pc = "waiting", !.due = due, !.at = 0]
  <2>1. due \in Nat /\ loops[k] \in LoopStates /\ loops[k].ttl > 0
    BY IntervalType, SessionsAssumption DEF LoopStates, Renewed
  <2>2. waiting \in LoopStates /\ waiting.ttl > 0
    BY <2>1 DEF LoopStates
  <2>3. loops' = [loops EXCEPT ![k] = Ended] \/ loops' = [loops EXCEPT ![k] = waiting]
    BY DEF Renewed
  <2> HIDE DEF waiting
  <2> QED BY <1>a, <2>2, <2>3 DEF Renewed, Ended, NotStarted
<1>10. CASE \E k \in Loops : LoopStops(k)
  <2> PICK k \in Loops : LoopStops(k)
    BY <1>10
  <2>1. loops' = [loops EXCEPT ![k] = Ended]
    BY DEF LoopStops
  <2>2. \A j \in Loops : loops'[j] = loops[j] \/ loops'[j].pc = "ended"
    BY <2>1 DEF Ended, NotStarted
  <2> QED BY <2>1, <2>2, <1>a DEF LoopStops
<1>11. CASE Status \/ Logout \/ (\E gated \in BOOLEAN : Request(gated)) \/ HandleAuthError
  BY <1>11, <1>s DEF Status, Logout, Request, HandleAuthError
<1>12. CASE Answer
  BY <1>12 DEF Answer
<1>13. CASE Tick
  BY <1>13, SessionsAssumption DEF Tick
<1>14. CASE UNCHANGED vars
  BY <1>14 DEF vars
<1> QED BY <1>1, <1>2, <1>3, <1>4, <1>5, <1>6, <1>7, <1>8, <1>9, <1>10, <1>11, <1>12,
           <1>13, <1>14 DEF Next

\* No operation leaves a state the others do not know, and a goroutine that
\* renews has an interval to go by.
THEOREM TypeCorrect == Spec => []TypeOK
BY InitTypeOK, StepTypeOK, PTL DEF Spec

-----------------------------------------------------------------------------
(* What Vault has granted it only extends.                                 *)

VaultInv == \A t \in Granted : /\ vault[t].expiry <= vault[t].last
                               /\ vault[t].expiry <= now + Ticks(vault[t].lease)

\* A grant that is left alone, or extended.
Kept(t) ==
    /\ vault'[t].granted = vault[t].granted
    /\ vault'[t].renewable = vault[t].renewable
    /\ vault'[t].lease = vault[t].lease
    /\ vault'[t].last = vault[t].last
    /\ vault[t].expiry <= vault'[t].expiry
    /\ vault[t].expiry = vault[t].last => vault'[t].expiry = vault[t].last

LEMMA InitVaultInv == Init => VaultInv
<1> SUFFICES ASSUME Init PROVE VaultInv
  OBVIOUS
<1>1. PICK l \in Leases : vault = [t \in Tokens |-> IF t = token THEN Grant(t, l, FALSE) ELSE NotGranted]
  BY DEF Init
<1>2. now = 0 /\ l \in Nat /\ l <= MaxLease /\ MaxLease \in Nat
  BY SessionsAssumption DEF Init
<1> QED BY <1>1, <1>2 DEF VaultInv, Granted, Grant, NotGranted, Ticks

LEMMA StepVault ==
    ASSUME TypeOK, VaultInv, [Next]_vars
    PROVE  VaultInv' /\ \A t \in Granted : Kept(t)
<1>0. now \in Nat /\ MaxLease \in Nat /\ vault \in [Tokens -> VaultTokens]
  BY SessionsAssumption DEF TypeOK
<1>f. \A t \in Tokens : /\ vault[t].expiry \in Nat /\ vault[t].last \in Nat
                        /\ vault[t].lease \in Nat
  BY <1>0 DEF VaultTokens
<1>1. CASE \E p \in Logins : Exchange(p)
  <2>1. PICK t \in Tokens \ Granted, l \in Leases, r \in BOOLEAN :
          vault' = [vault EXCEPT ![t] = Grant(t, l, r)]
    BY <1>1 DEF Exchange
  <2>2. now' = now /\ l \in Nat /\ l <= MaxLease
    BY <1>1, SessionsAssumption DEF Exchange
  <2>3. \A u \in Granted : vault'[u] = vault[u]
    BY <2>1 DEF Granted
  <2>4. \A u \in Granted' : u = t \/ u \in Granted
    BY <2>1, <1>0 DEF Granted
  <2>5. vault'[t] = Grant(t, l, r)
    BY <2>1, <1>0
  <2>6. VaultInv'
    BY <2>2, <2>3, <2>4, <2>5, <1>0 DEF VaultInv, Grant, Ticks
  <2>7. \A u \in Granted : Kept(u)
    BY <2>3, <1>f DEF Kept, Granted
  <2> QED BY <2>6, <2>7
<1>2. CASE \E k \in Loops : Renew(k)
  <2> PICK k \in Loops : Renew(k)
    BY <1>2
  <2>1. CASE UNCHANGED vault
    BY <2>1, <1>f DEF Renew, VaultInv, Kept, Granted
  <2>2. CASE Alive(token) /\ vault' = [vault EXCEPT ![token].expiry = Extended(token)]
    <3>1. token \in Granted /\ token \in Tokens /\ now' = now
      BY <2>2 DEF Alive, Granted, Renew
    <3>2. vault[token].expiry <= vault[token].last /\ vault[token].expiry <= now + Ticks(vault[token].lease)
      BY <3>1 DEF VaultInv
    <3>3. vault'[token] = [vault[token] EXCEPT !.expiry = Extended(token)]
      BY <2>2, <3>1, <1>0
    <3>4. \A u \in Tokens \ {token} : vault'[u] = vault[u]
      BY <2>2, <1>0
    <3>5. /\ vault'[token].expiry = Extended(token)
          /\ vault'[token].granted = vault[token].granted
          /\ vault'[token].renewable = vault[token].renewable
          /\ vault'[token].lease = vault[token].lease
          /\ vault'[token].last = vault[token].last
      BY <3>1, <3>3, <1>0 DEF VaultTokens
    <3>6. Kept(token) /\ Extended(token) <= vault[token].last
          /\ Extended(token) <= now + Ticks(vault[token].lease)
      BY <3>1, <3>2, <3>5, <1>0, <1>f DEF Kept, Extended, Ticks
    <3>7. \A u \in Granted : Kept(u)
      BY <3>4, <3>6, <1>f DEF Kept, Granted
    <3>8. Granted' = Granted
      BY <3>4, <3>5, <3>1 DEF Granted
    <3>9. VaultInv'
      BY <3>1, <3>4, <3>5, <3>6, <3>8 DEF VaultInv, Granted
    <3> QED BY <3>7, <3>9
  <2> QED BY <2>1, <2>2 DEF Renew
<1>3. CASE Tick
  <2>1. now' = now + 1 /\ vault' = vault
    BY <1>3 DEF Tick
  <2> QED BY <2>1, <1>0, <1>f DEF VaultInv, Kept, Granted, Ticks
<1>4. CASE UNCHANGED <<now, vault>>
  BY <1>4, <1>f DEF VaultInv, Kept, Granted
<1>5. CASE \E p \in Logins : \/ KeepToken(p) \/ PasteToken(p) \/ Lookup(p) \/ DropToken(p)
                            \/ StartRenewal(p) \/ OpenSession(p)
  BY <1>4, <1>5 DEF KeepToken, PasteToken, Lookup, DropToken, StartRenewal, OpenSession
<1>6. CASE \E k \in Loops : Renewed(k) \/ LoopStops(k)
  BY <1>4, <1>6 DEF Renewed, LoopStops
<1>7. CASE Status \/ Logout \/ (\E gated \in BOOLEAN : Request(gated)) \/ Answer \/ HandleAuthError
  BY <1>4, <1>7 DEF Status, Logout, Request, Answer, HandleAuthError
<1>8. CASE UNCHANGED vars
  BY <1>4, <1>8 DEF vars
<1> QED BY <1>1, <1>2, <1>3, <1>5, <1>6, <1>7, <1>8 DEF Next

-----------------------------------------------------------------------------
(* One goroutine renews.                                                   *)

LEMMA StepOneRenewal == TypeOK /\ OneRenewal /\ [Next]_vars => OneRenewal'
<1> SUFFICES ASSUME TypeOK, OneRenewal, [Next]_vars PROVE OneRenewal'
  OBVIOUS
<1> USE DEF OneRenewal, Renewing
<1>0. loops \in [Loops -> LoopStates]
  BY DEF TypeOK
<1>1. CASE \E p \in Logins : StartRenewal(p)
  <2>1. CASE UNCHANGED <<loops, stopRenew>>
    BY <2>1
  <2>2. ASSUME NEW p \in Logins, NEW k \in Loops, loops' = Restarted(k, p), stopRenew' = k
        PROVE  OneRenewal'
    BY <2>2, <1>0 DEF Restarted, LoopStates
  <2> QED BY <1>1, <2>1, <2>2 DEF StartRenewal
<1>2. CASE \E k \in Loops : Renew(k) \/ Renewed(k) \/ LoopStops(k)
  <2>0. PICK k \in Loops : Renew(k) \/ Renewed(k) \/ LoopStops(k)
    BY <1>2
  <2>1. stopRenew' = stopRenew /\ \A j \in Loops \ {k} : loops'[j] = loops[j]
    BY <2>0, <1>0 DEF Renew, Renewed, LoopStops
  <2>2. Renewing(k)' => Renewing(k)
    <3>1. CASE loops' = [loops EXCEPT ![k] = Ended]
      <4>1. loops'[k].pc = "ended"
        BY <3>1, <1>0 DEF Ended, NotStarted
      <4> QED BY <4>1
    <3>3. CASE Renewed(k) /\ loops' # [loops EXCEPT ![k] = Ended]
      <4>1. loops[k] \in LoopStates /\ loops[k].pc = "sent"
        BY <3>3, <1>0 DEF Renewed
      <4>2. PICK due : loops' = [loops EXCEPT ![k] = [loops[k] EXCEPT
                                   !.pc = "waiting", !.due = due, !.at = 0]]
        BY <3>3 DEF Renewed
      <4>3. loops'[k].stopped = loops[k].stopped
        BY <4>1, <4>2, <1>0 DEF LoopStates
      <4> QED BY <4>1, <4>3
    <3>4. LoopStops(k) => loops' = [loops EXCEPT ![k] = Ended]
      BY DEF LoopStops
    <3>2. CASE Renew(k)
      <4>1. loops[k] \in LoopStates /\ loops[k].pc = "waiting"
        BY <3>2, <1>0 DEF Renew
      <4>2. PICK sent \in {[loops[k] EXCEPT !.pc = "sent", !.due = 0, !.at = now, !.keeps = token],
                           [loops[k] EXCEPT !.pc = "sent", !.due = 0, !.at = now, !.ok = FALSE]} :
              loops' = [loops EXCEPT ![k] = sent]
        BY <3>2 DEF Renew
      <4>3. sent.stopped = loops[k].stopped
        BY <4>1, <4>2 DEF LoopStates
      <4> QED BY <4>1, <4>2, <4>3, <1>0
    <3> QED BY <2>0, <3>1, <3>2, <3>3, <3>4
  <2> QED BY <2>1, <2>2
<1>3. CASE UNCHANGED <<loops, stopRenew>>
  BY <1>3
<1>4. CASE \E p \in Logins : \/ Exchange(p) \/ KeepToken(p) \/ PasteToken(p) \/ Lookup(p)
                            \/ DropToken(p) \/ OpenSession(p)
  BY <1>3, <1>4 DEF Exchange, KeepToken, PasteToken, Lookup, DropToken, OpenSession
<1>5. CASE Status \/ Logout \/ (\E gated \in BOOLEAN : Request(gated)) \/ Answer
           \/ HandleAuthError \/ Tick
  BY <1>3, <1>5 DEF Status, Logout, Request, Answer, HandleAuthError, Tick
<1>6. CASE UNCHANGED vars
  BY <1>3, <1>6 DEF vars
<1> QED BY <1>1, <1>2, <1>4, <1>5, <1>6 DEF Next

\* startRenewal leaves one goroutine that renews, however logins overlap.
THEOREM RenewalIsOne == Spec => []OneRenewal
<1>1. Init => OneRenewal
  BY DEF Init, NotStarted, OneRenewal, Renewing
<1> QED BY <1>1, InitTypeOK, StepTypeOK, StepOneRenewal, PTL DEF Spec

-----------------------------------------------------------------------------
(* Renewals come in time.  What an answer of Vault says of a lease is out  *)
(* of date by Lag at most when the program acts on it, and whatever Vault  *)
(* has granted it has not taken back.                                      *)

LoginInv == \A p \in Logins : login[p].pc \in {"answered", "stored"} =>
    /\ login[p].seen \in Granted
    /\ now <= login[p].at + Lag
    /\ login[p].ttl > 0 => login[p].at + Ticks(login[p].ttl) <= vault[login[p].seen].expiry

LoopInTime(k) == LET t == loops[k].keeps IN
    Renewing(k) /\ loops[k].ok =>
        /\ t \in Granted
        /\ loops[k].pc = "waiting" =>
              /\ now <= loops[k].due + Lag
              /\ InTime(k) => \/ loops[k].due + Lag < vault[t].expiry
                             \/ vault[t].expiry = vault[t].last
        /\ loops[k].pc = "sent" =>
              /\ now <= loops[k].at + Lag
              /\ InTime(k) =>
                   \/ loops[k].at + RenewInterval(loops[k].ttl) + 2 * Lag < vault[t].expiry
                   \/ vault[t].expiry = vault[t].last

LoopInv == \A k \in Loops : LoopInTime(k) /\ (loops[k].pc = "waiting" => loops[k].ok)

RenewalInv == TypeOK /\ VaultInv /\ LoginInv /\ LoopInv

LEMMA InitRenewalInv == Init => RenewalInv
<1> SUFFICES ASSUME Init PROVE RenewalInv
  OBVIOUS
<1>1. \A p \in Logins : login[p].pc = "idle"
  BY DEF Init, NoLogin
<1>2. \A k \in Loops : loops[k].pc = "idle"
  BY DEF Init, NotStarted
<1>3. LoginInv
  BY <1>1 DEF LoginInv
<1>4. LoopInv
  BY <1>2 DEF LoopInv, LoopInTime, Renewing
<1> QED BY <1>3, <1>4, InitTypeOK, InitVaultInv DEF RenewalInv

LEMMA StepLoginInv ==
    ASSUME TypeOK, LoginInv, VaultInv, [Next]_vars, \A t \in Granted : Kept(t)
    PROVE  LoginInv'
<1>0. /\ now \in Nat /\ Lag \in Nat
      /\ vault \in [Tokens -> VaultTokens] /\ vault' \in [Tokens -> VaultTokens]
      /\ login \in [Logins -> LoginStates] /\ login' \in [Logins -> LoginStates]
  BY StepTypeOK, SessionsAssumption DEF TypeOK
<1>g. \A t \in Granted : t \in Granted'
  BY DEF Kept, Granted
\* The logins that a step leaves alone.
<1>k. ASSUME NEW q \in Logins, login'[q] = login[q], now' = now,
             login[q].pc \in {"answered", "stored"}
      PROVE  /\ login'[q].seen \in Granted'
             /\ now' <= login'[q].at + Lag
             /\ login'[q].ttl > 0 => login'[q].at + Ticks(login'[q].ttl) <= vault'[login'[q].seen].expiry
  <2>1. login[q].seen \in Granted /\ now <= login[q].at + Lag
    BY <1>k DEF LoginInv
  <2>2. login[q].seen \in Tokens /\ Kept(login[q].seen)
    BY <2>1 DEF Granted
  <2>3. /\ vault[login[q].seen].expiry \in Nat /\ vault'[login[q].seen].expiry \in Nat
        /\ login[q].at \in Nat /\ login[q].ttl \in Nat
    BY <1>0, <2>2 DEF VaultTokens, LoginStates
  <2> QED BY <1>k, <1>g, <2>1, <2>2, <2>3 DEF LoginInv, Kept, Ticks
<1>1. CASE \E p \in Logins : Exchange(p)
  <2> PICK p \in Logins : Exchange(p)
    BY <1>1
  <2>1. PICK t \in Tokens \ Granted, l \in Leases, r \in BOOLEAN :
          /\ vault' = [vault EXCEPT ![t] = Grant(t, l, r)]
          /\ login' = [login EXCEPT ![p] =
               [pc |-> "answered", token |-> t, seen |-> t, at |-> now,
                ttl |-> l, expires |-> 0, renewable |-> r]]
    BY DEF Exchange
  <2>2. now' = now /\ l \in Nat
    BY SessionsAssumption DEF Exchange
  <2>3. vault'[t] = Grant(t, l, r) /\ t \in Granted'
    BY <2>1, <1>0 DEF Granted, Grant
  <2>4. \A q \in Logins \ {p} : login'[q] = login[q]
    BY <2>1, <1>0
  <2>5. login'[p] = [pc |-> "answered", token |-> t, seen |-> t, at |-> now,
                     ttl |-> l, expires |-> 0, renewable |-> r]
    BY <2>1, <1>0
  <2> QED BY <1>k, <1>0, <2>2, <2>3, <2>4, <2>5 DEF LoginInv, Grant, Ticks
<1>2. CASE \E p \in Logins : KeepToken(p)
  <2> PICK p \in Logins : KeepToken(p)
    BY <1>2
  <2>1. \A q \in Logins \ {p} : login'[q] = login[q]
    BY <1>0 DEF KeepToken
  <2>2. /\ login[p].pc = "answered" /\ login'[p].seen = login[p].seen
        /\ login'[p].at = login[p].at /\ login'[p].ttl = login[p].ttl
        /\ now' = now /\ vault' = vault
    BY <1>0 DEF KeepToken, LoginStates
  <2> QED BY <1>k, <2>1, <2>2 DEF LoginInv, Granted
<1>3. CASE \E p \in Logins : Lookup(p)
  <2> PICK p \in Logins : Lookup(p)
    BY <1>3
  <2>1. now' = now /\ vault' = vault /\ \A q \in Logins \ {p} : login'[q] = login[q]
    BY <1>0 DEF Lookup
  <2>2. CASE login' = [login EXCEPT ![p].pc = "refused"]
    BY <1>k, <1>0, <2>1, <2>2 DEF LoginInv
  <2>3. CASE /\ Alive(token)
             /\ login' = [login EXCEPT ![p] = [@ EXCEPT
                  !.pc = "stored", !.seen = token, !.at = now,
                  !.ttl = TimeToLive(token),
                  !.expires = IF vault[token].lease = 0
                                THEN 0 ELSE vault[token].expiry,
                  !.renewable = vault[token].renewable]]
    <3>1. login'[p].seen = token /\ login'[p].at = now /\ login'[p].ttl = TimeToLive(token)
      BY <2>3, <1>0 DEF LoginStates
    <3>2. token \in Granted /\ token \in Tokens /\ vault[token].expiry \in Nat
      BY <2>3, <1>0 DEF Alive, Granted, VaultTokens
    <3>3. TimeToLive(token) > 0 => now + Ticks(TimeToLive(token)) <= vault[token].expiry
      BY <2>3, <3>2, <1>0 DEF TimeToLive, Ticks, Alive
    <3> QED BY <1>k, <1>0, <2>1, <3>1, <3>2, <3>3 DEF LoginInv, Granted
  <2> QED BY <2>2, <2>3 DEF Lookup
<1>4. CASE \E p \in Logins : PasteToken(p) \/ DropToken(p) \/ StartRenewal(p) \/ OpenSession(p)
  <2>0. PICK p \in Logins : PasteToken(p) \/ DropToken(p) \/ StartRenewal(p) \/ OpenSession(p)
    BY <1>4
  <2>1. now' = now /\ \A q \in Logins \ {p} : login'[q] = login[q]
    BY <1>0, <2>0 DEF PasteToken, DropToken, StartRenewal, OpenSession
  <2>2. login'[p].pc \notin {"answered", "stored"}
    <3>1. CASE PasteToken(p)
      <4>1. PICK t : login' = [login EXCEPT ![p] = [NoLogin EXCEPT !.pc = "pasted", !.token = t]]
        BY <3>1 DEF PasteToken
      <4> QED BY <4>1, <1>0 DEF NoLogin
    <3>2. CASE DropToken(p)
      BY <3>2, <1>0 DEF DropToken, NoLogin
    <3>3. CASE StartRenewal(p)
      BY <3>3, <1>0 DEF StartRenewal, NoLogin
    <3>4. CASE OpenSession(p)
      BY <3>4, <1>0 DEF OpenSession, NoLogin
    <3> QED BY <2>0, <3>1, <3>2, <3>3, <3>4
  <2> QED BY <1>k, <2>1, <2>2 DEF LoginInv
<1>5. CASE Tick
  <2>1. now' = now + 1 /\ vault' = vault /\ login' = login
    BY <1>5 DEF Tick
  <2>2. \A p \in Logins : login[p].pc \in {"answered", "stored"} => now < login[p].at + Lag /\ login[p].at \in Nat
    BY <1>5, <1>0 DEF Tick, Prompt, LoginStates
  <2> QED BY <1>0, <2>1, <2>2 DEF LoginInv, Granted
<1>6. CASE UNCHANGED <<now, login>>
  BY <1>6, <1>k DEF LoginInv
<1>7. CASE \E k \in Loops : Renew(k) \/ Renewed(k) \/ LoopStops(k)
  BY <1>6, <1>7 DEF Renew, Renewed, LoopStops
<1>8. CASE Status \/ Logout \/ (\E gated \in BOOLEAN : Request(gated)) \/ Answer \/ HandleAuthError
  BY <1>6, <1>8 DEF Status, Logout, Request, Answer, HandleAuthError
<1>9. CASE UNCHANGED vars
  BY <1>6, <1>9 DEF vars
<1> QED BY <1>1, <1>2, <1>3, <1>4, <1>5, <1>7, <1>8, <1>9 DEF Next

LEMMA StepLoopInv ==
    ASSUME RenewalInv, [Next]_vars, \A t \in Granted : Kept(t)
    PROVE  LoopInv'
<1>0. /\ now \in Nat /\ Lag \in Nat
      /\ vault \in [Tokens -> VaultTokens] /\ vault' \in [Tokens -> VaultTokens]
      /\ loops \in [Loops -> LoopStates] /\ loops' \in [Loops -> LoopStates]
      /\ login \in [Logins -> LoginStates]
  BY StepTypeOK, SessionsAssumption DEF TypeOK, RenewalInv
<1>f. \A k \in Loops : /\ loops[k].due \in Nat /\ loops[k].at \in Nat /\ loops[k].ttl \in Nat
                       /\ RenewInterval(loops[k].ttl) \in Nat
  BY <1>0, IntervalType DEF LoopStates
<1>v. \A t \in Granted : /\ vault[t].expiry \in Nat /\ vault'[t].expiry \in Nat
                         /\ vault[t].last \in Nat /\ vault[t].lease \in Nat
                         /\ t \in Granted' /\ Kept(t)
  BY <1>0 DEF VaultTokens, Granted, Kept
\* The goroutines that a step leaves alone, but for the stop channel.
<1>k. ASSUME NEW j \in Loops, now' = now,
             loops'[j] = loops[j] \/ loops'[j].stopped
      PROVE  LoopInTime(j)'
  <2>1. CASE loops'[j].stopped
    BY <2>1 DEF LoopInTime, Renewing
  <2>2. CASE loops'[j] = loops[j]
    <3> SUFFICES ASSUME Renewing(j), loops[j].ok PROVE LoopInTime(j)'
      BY <2>2 DEF LoopInTime, Renewing
    <3>1. LoopInTime(j) /\ loops[j].keeps \in Granted
      BY DEF RenewalInv, LoopInv, LoopInTime
    <3>2. InTime(j)' <=> InTime(j)
      BY <2>2, <3>1, <1>v DEF InTime, Kept
    <3> QED BY <1>k, <2>2, <3>1, <3>2, <1>0, <1>f, <1>v DEF LoopInTime, Kept
  <2> QED BY <1>k, <2>1, <2>2
<1>1. CASE \E p \in Logins : StartRenewal(p)
  <2>1. CASE UNCHANGED <<loops, now>>
    BY <2>1, <1>k DEF LoopInv, RenewalInv
  <2>2. ASSUME NEW p \in Logins, login[p].pc = "stored", login[p].ttl > 0,
               NEW k \in Loops, loops' = Restarted(k, p), UNCHANGED <<now, vault>>
        PROVE  LoopInv'
    <3>1. \A j \in Loops \ {k} : \/ loops'[j] = loops[j]
                                 \/ loops'[j].stopped /\ loops'[j].pc = loops[j].pc
                                                      /\ loops'[j].ok = loops[j].ok
      BY <2>2, <1>0 DEF Restarted, LoopStates
    <3>2. loops'[k] = [pc |-> "waiting", ttl |-> login[p].ttl, at |-> 0,
                       due |-> now + RenewInterval(login[p].ttl),
                       ok |-> TRUE, stopped |-> FALSE, keeps |-> login[p].seen]
      BY <2>2 DEF Restarted
    <3>3. /\ login[p].seen \in Granted /\ now <= login[p].at + Lag
          /\ login[p].at + Ticks(login[p].ttl) <= vault[login[p].seen].expiry
      BY <2>2 DEF RenewalInv, LoginInv
    <3>4. login[p].at \in Nat /\ login[p].ttl \in Nat /\ RenewInterval(login[p].ttl) \in Nat
      BY <1>0, IntervalType DEF LoginStates
    <3>5. LoopInTime(k)'
      BY <2>2, <3>2, <3>3, <3>4, <1>0, <1>v DEF LoopInTime, InTime, Ticks
    <3> QED BY <2>2, <3>1, <3>2, <3>5, <1>k DEF LoopInv, RenewalInv
  <2> QED BY <1>1, <2>1, <2>2 DEF StartRenewal
<1>2. CASE \E k \in Loops : Renew(k)
  <2> PICK k \in Loops : Renew(k)
    BY <1>2
  <2>1. now' = now /\ \A j \in Loops \ {k} : loops'[j] = loops[j]
    BY <1>0 DEF Renew
  <2>2. CASE Alive(token) /\ vault' = [vault EXCEPT ![token].expiry = Extended(token)]
             /\ loops' = [loops EXCEPT ![k] = [loops[k] EXCEPT
                            !.pc = "sent", !.due = 0, !.at = now, !.keeps = token]]
    <3>1. /\ loops'[k].pc = "sent" /\ loops'[k].at = now /\ loops'[k].keeps = token
          /\ loops'[k].ttl = loops[k].ttl /\ loops'[k].ok = loops[k].ok
      BY <2>2, <1>0 DEF LoopStates
    <3>2. token \in Granted /\ token \in Tokens
      BY <2>2 DEF Alive, Granted
    <3>3. vault'[token].expiry = Extended(token)
      BY <2>2, <3>2, <1>0 DEF VaultTokens
    <3>4. LoopInTime(k)'
      BY <2>1, <3>1, <3>2, <3>3, <1>0, <1>f, <1>v
         DEF LoopInTime, InTime, Extended, Ticks, Kept
    <3> QED BY <2>1, <3>1, <3>4, <1>k DEF LoopInv, RenewalInv
  <2>3. CASE loops' = [loops EXCEPT ![k] = [loops[k] EXCEPT
                         !.pc = "sent", !.due = 0, !.at = now, !.ok = FALSE]]
    <3>1. loops'[k].pc = "sent" /\ ~loops'[k].ok
      BY <2>3, <1>0 DEF LoopStates
    <3>2. LoopInTime(k)'
      BY <3>1 DEF LoopInTime
    <3> QED BY <2>1, <3>1, <3>2, <1>k DEF LoopInv, RenewalInv
  <2> QED BY <2>2, <2>3 DEF Renew
<1>3. CASE \E k \in Loops : Renewed(k) \/ LoopStops(k)
  <2>0. PICK k \in Loops : Renewed(k) \/ LoopStops(k)
    BY <1>3
  <2>1. now' = now /\ vault' = vault /\ \A j \in Loops \ {k} : loops'[j] = loops[j]
    BY <2>0, <1>0 DEF Renewed, LoopStops
  <2>2. CASE loops' = [loops EXCEPT ![k] = Ended]
    <3>1. loops'[k].pc = "ended"
      BY <2>2, <1>0 DEF Ended, NotStarted
    <3> QED BY <2>1, <3>1, <1>k DEF LoopInv, RenewalInv, LoopInTime, Renewing
  <2>3. CASE /\ loops[k].pc = "sent" /\ loops[k].ok
             /\ loops' = [loops EXCEPT ![k] = [loops[k] EXCEPT !.pc = "waiting",
                            !.due = now + RenewInterval(loops[k].ttl), !.at = 0]]
    <3>1. /\ loops'[k].pc = "waiting" /\ loops'[k].keeps = loops[k].keeps
          /\ loops'[k].due = now + RenewInterval(loops[k].ttl)
          /\ loops'[k].ttl = loops[k].ttl /\ loops'[k].ok = loops[k].ok
          /\ loops'[k].stopped = loops[k].stopped
      <4> DEFINE due == now + RenewInterval(loops[k].ttl)
      <4>1. loops[k] \in LoopStates /\ k \in DOMAIN loops
        BY <1>0
      <4>2. loops'[k] = [loops[k] EXCEPT !.pc = "waiting", !.due = due, !.at = 0]
        BY <2>3, <4>1
      <4> HIDE DEF due
      <4>3. /\ loops'[k].pc = "waiting" /\ loops'[k].keeps = loops[k].keeps
            /\ loops'[k].due = due
            /\ loops'[k].ttl = loops[k].ttl /\ loops'[k].ok = loops[k].ok
            /\ loops'[k].stopped = loops[k].stopped
        BY <4>1, <4>2 DEF LoopStates
      <4> QED BY <4>3 DEF due
    <3>2. LoopInTime(k)
      BY DEF RenewalInv, LoopInv
    <3>3. LoopInTime(k)'
      BY <2>1, <2>3, <3>1, <3>2, <1>0, <1>f, <1>v DEF LoopInTime, InTime, Renewing, Granted
    <3> QED BY <2>1, <2>3, <3>1, <3>3, <1>k DEF LoopInv, RenewalInv
  <2> QED BY <2>0, <2>2, <2>3 DEF Renewed, LoopStops
<1>4. CASE Tick
  <2>1. now' = now + 1 /\ vault' = vault /\ loops' = loops
    BY <1>4 DEF Tick
  <2>2. \A k \in Loops : /\ loops[k].pc = "waiting" => now < loops[k].due + Lag
                         /\ loops[k].pc = "sent" => now < loops[k].at + Lag
    BY <1>4 DEF Tick, Prompt
  <2>3. \A k \in Loops : LoopInTime(k)'
    BY <2>1, <2>2, <1>0, <1>f DEF RenewalInv, LoopInv, LoopInTime, InTime, Renewing, Granted
  <2> QED BY <2>1, <2>3 DEF LoopInv, RenewalInv
<1>5. CASE UNCHANGED <<now, loops>>
  BY <1>5, <1>k DEF LoopInv, RenewalInv
<1>6. CASE \E p \in Logins : \/ Exchange(p) \/ KeepToken(p) \/ PasteToken(p) \/ Lookup(p)
                            \/ DropToken(p) \/ OpenSession(p)
  BY <1>5, <1>6 DEF Exchange, KeepToken, PasteToken, Lookup, DropToken, OpenSession
<1>7. CASE Status \/ Logout \/ (\E gated \in BOOLEAN : Request(gated)) \/ Answer \/ HandleAuthError
  BY <1>5, <1>7 DEF Status, Logout, Request, Answer, HandleAuthError
<1>8. CASE UNCHANGED vars
  BY <1>5, <1>8 DEF vars
<1> QED BY <1>1, <1>2, <1>3, <1>4, <1>6, <1>7, <1>8 DEF Next

LEMMA RenewalStaysAlive == RenewalInv => StaysAlive
<1> SUFFICES ASSUME RenewalInv, NEW k \in Loops, Renewing(k), loops[k].ok, InTime(k)
             PROVE  Alive(loops[k].keeps) \/ vault[loops[k].keeps].expiry = vault[loops[k].keeps].last
  BY DEF StaysAlive
<1>1. LoopInTime(k) /\ loops[k].pc \in {"waiting", "sent"}
  BY DEF RenewalInv, LoopInv, Renewing
<1>2. loops[k].keeps \in Granted
  BY <1>1 DEF LoopInTime
<1>3. /\ now \in Nat /\ Lag \in Nat /\ loops[k].due \in Nat /\ loops[k].at \in Nat
      /\ RenewInterval(loops[k].ttl) \in Nat /\ vault[loops[k].keeps].expiry \in Nat
  BY <1>2, IntervalType, SessionsAssumption DEF RenewalInv, TypeOK, LoopStates, Granted, VaultTokens
<1> QED BY <1>1, <1>2, <1>3 DEF LoopInTime, Alive

\* Half the lease is soon enough, for every lease that leaves room for the
\* delays: while the goroutine renews and no renewal has failed, the token
\* it keeps stays alive as long as Vault can be made to extend it.
THEOREM RenewalInTime == Spec => []StaysAlive
<1>1. RenewalInv /\ [Next]_vars => RenewalInv'
  BY StepTypeOK, StepVault, StepLoginInv, StepLoopInv DEF RenewalInv
<1> QED BY <1>1, InitRenewalInv, RenewalStaysAlive, PTL DEF Spec

-----------------------------------------------------------------------------
(* Where logins come one at a time, the session and the token go together. *)

\* An expiry that promises no more than the token's own, but for Lag.
Promises(expires, t) ==
    /\ t \in Granted
    /\ expires = 0 <=> vault[t].lease = 0
    /\ vault[t].lease > 0 => expires <= vault[t].expiry + Lag

SessionPromises == session.status = "authenticated" =>
                     Promises(session.expires, session.of)

TokenIsSessions ==
    session.status = "authenticated" /\ (\A p \in Logins : login[p].pc \in {"idle", "answered"})
        => token \in {session.of, NoToken}

LoginHasToken(p) ==
    /\ login[p].pc = "answered" => /\ login[p].token = login[p].seen
                                   /\ login[p].ttl = vault[login[p].seen].lease
    /\ login[p].pc = "pasted" => token = login[p].token
    /\ login[p].pc \in {"stored", "returned"} =>
          token = login[p].token /\ Promises(login[p].expires, token)

SessionInv == RenewalInv /\ SessionPromises /\ TokenIsSessions
                         /\ \A p \in Logins : LoginHasToken(p)

LEMMA KeptPromises ==
    ASSUME TypeOK, [Next]_vars, \A t \in Granted : Kept(t), NEW e \in Nat, NEW t, Promises(e, t)
    PROVE  t \in Granted' /\ (e = 0 <=> vault'[t].lease = 0)
           /\ (vault'[t].lease > 0 => e <= vault'[t].expiry + Lag)
<1>1. t \in Granted /\ t \in Tokens /\ Kept(t)
  BY DEF Promises, Granted
<1>2. vault[t].expiry \in Nat /\ vault'[t].expiry \in Nat /\ Lag \in Nat
  BY <1>1, StepTypeOK, SessionsAssumption DEF TypeOK, VaultTokens
<1> QED BY <1>1, <1>2 DEF Promises, Kept, Granted

LEMMA StepSessionInv ==
    ASSUME \A p, q \in Logins : p = q, SessionInv, [Next]_vars
    PROVE  SessionInv'
<1>t. TypeOK /\ TypeOK' /\ \A t \in Granted : Kept(t)
  BY StepTypeOK, StepVault DEF SessionInv, RenewalInv
<1>r. RenewalInv'
  BY <1>t, StepVault, StepLoginInv, StepLoopInv DEF SessionInv, RenewalInv
<1>0. /\ now \in Nat /\ Lag \in Nat /\ session.expires \in Nat
      /\ vault \in [Tokens -> VaultTokens] /\ vault' \in [Tokens -> VaultTokens]
      /\ login \in [Logins -> LoginStates] /\ login' \in [Logins -> LoginStates]
  BY <1>t, SessionsAssumption DEF TypeOK, SessionStates
<1>p. \A e \in Nat : \A t : Promises(e, t) => Promises(e, t)'
  BY <1>t, KeptPromises DEF Promises
<1>o. ASSUME NEW p \in Logins, NEW r, login' = [login EXCEPT ![p] = r]
      PROVE  \A q \in Logins : q = p /\ login'[q] = r
  BY <1>o, <1>0
\* The session as it was, or no longer open, beside the same logins and token.
<1>k. ASSUME UNCHANGED <<token, login>>, session' = session \/ session'.status # "authenticated"
      PROVE  SessionInv'
  <2>1. SessionPromises'
    BY <1>k, <1>p, <1>0 DEF SessionInv, SessionPromises
  <2>2. TokenIsSessions'
    BY <1>k DEF SessionInv, TokenIsSessions
  <2>3. ASSUME NEW p \in Logins PROVE LoginHasToken(p)'
    <3>1. LoginHasToken(p) /\ login[p].expires \in Nat
      BY <1>0 DEF SessionInv, LoginStates
    <3>2. login[p].pc = "answered" => Kept(login[p].seen)
      BY <1>t DEF SessionInv, RenewalInv, LoginInv
    <3> QED BY <1>k, <1>p, <3>1, <3>2 DEF LoginHasToken, Kept
  <2> QED BY <1>r, <2>1, <2>2, <2>3 DEF SessionInv
<1>1. CASE \E p \in Logins : Exchange(p)
  <2> PICK p \in Logins : Exchange(p)
    BY <1>1
  <2>1. PICK t \in Tokens \ Granted, l \in Leases, r \in BOOLEAN :
          /\ vault' = [vault EXCEPT ![t] = Grant(t, l, r)]
          /\ login' = [login EXCEPT ![p] =
               [pc |-> "answered", token |-> t, seen |-> t, at |-> now,
                ttl |-> l, expires |-> 0, renewable |-> r]]
    BY DEF Exchange
  <2>2. \A q \in Logins : q = p /\ login'[q] =
               [pc |-> "answered", token |-> t, seen |-> t, at |-> now,
                ttl |-> l, expires |-> 0, renewable |-> r]
    BY <2>1, <1>o
  <2>3. vault'[t].lease = l
    BY <2>1, <1>0 DEF Grant
  <2>4. \A q \in Logins : LoginHasToken(q)'
    BY <2>2, <2>3 DEF LoginHasToken
  <2>5. UNCHANGED <<session, token>> /\ login[p].pc = "idle" /\ \A q \in Logins : q = p
    BY DEF Exchange
  <2>6. SessionPromises' /\ TokenIsSessions'
    BY <2>5, <1>p, <1>0 DEF SessionInv, SessionPromises, TokenIsSessions
  <2> QED BY <1>r, <2>4, <2>6 DEF SessionInv
<1>2. CASE \E p \in Logins : KeepToken(p)
  <2> PICK p \in Logins : KeepToken(p)
    BY <1>2
  <2> DEFINE t == login[p].token
  <2>1. /\ UNCHANGED <<now, vault, session>> /\ token' = t /\ \A q \in Logins : q = p
        /\ login'[p].pc = "stored" /\ login'[p].token = t
        /\ login'[p].expires = IF login[p].ttl = 0 THEN 0 ELSE now + Ticks(login[p].ttl)
    BY <1>0 DEF KeepToken, LoginStates
  <2>2. /\ t \in Granted /\ t \in Tokens /\ login[p].ttl = vault[t].lease
        /\ now <= login[p].at + Lag
        /\ login[p].ttl > 0 => login[p].at + Ticks(login[p].ttl) <= vault[t].expiry
    BY DEF KeepToken, SessionInv, RenewalInv, LoginInv, LoginHasToken, Granted
  <2>3. login[p].ttl \in Nat /\ login[p].at \in Nat /\ vault[t].expiry \in Nat
    BY <2>2, <1>0 DEF LoginStates, VaultTokens
  <2> HIDE DEF t
  <2>4. Promises(login'[p].expires, t)
    BY <2>1, <2>2, <2>3, <1>0 DEF Promises, Ticks
  <2>5. login'[p].expires \in Nat
    BY <1>0 DEF LoginStates
  <2>6. \A q \in Logins : LoginHasToken(q)'
    BY <2>1, <2>4, <2>5, <1>p DEF LoginHasToken
  <2>7. SessionPromises' /\ TokenIsSessions'
    BY <2>1, <1>p, <1>0 DEF SessionInv, SessionPromises, TokenIsSessions
  <2> QED BY <1>r, <2>6, <2>7 DEF SessionInv
<1>3. CASE \E p \in Logins : PasteToken(p)
  <2> PICK p \in Logins : PasteToken(p)
    BY <1>3
  <2>1. PICK t : token' = t /\ login' = [login EXCEPT ![p] =
                                           [NoLogin EXCEPT !.pc = "pasted", !.token = t]]
    BY DEF PasteToken
  <2> DEFINE pasted == [NoLogin EXCEPT !.pc = "pasted", !.token = t]
  <2>0. pasted.pc = "pasted" /\ pasted.token = t
    BY DEF NoLogin
  <2>2. \A q \in Logins : q = p /\ login'[q].pc = "pasted" /\ login'[q].token = t
    <3>1. \A q \in Logins : q = p /\ login'[q] = pasted
      BY <2>1, <1>0
    <3> QED BY <3>1, <2>0
  <2>3. \A q \in Logins : LoginHasToken(q)'
    BY <2>1, <2>2 DEF LoginHasToken
  <2>4. SessionPromises' /\ TokenIsSessions'
    BY <2>2, <1>p, <1>0 DEF PasteToken, SessionInv, SessionPromises, TokenIsSessions
  <2> QED BY <1>r, <2>3, <2>4 DEF SessionInv
<1>4. CASE \E p \in Logins : Lookup(p)
  <2> PICK p \in Logins : Lookup(p)
    BY <1>4
  <2>1. UNCHANGED <<now, vault, token, session>> /\ \A q \in Logins : q = p
    BY DEF Lookup
  <2>2. login[p].pc = "pasted" /\ token = login[p].token
    BY DEF Lookup, SessionInv, LoginHasToken
  <2>3. CASE login' = [login EXCEPT ![p].pc = "refused"]
    <3>1. login'[p].pc = "refused"
      BY <2>3, <1>0 DEF LoginStates
    <3> QED BY <1>r, <2>1, <3>1, <1>p, <1>0
          DEF SessionInv, SessionPromises, TokenIsSessions, LoginHasToken
  <2>4. CASE /\ Alive(token)
             /\ login' = [login EXCEPT ![p] = [@ EXCEPT
                  !.pc = "stored", !.seen = token, !.at = now,
                  !.ttl = TimeToLive(token),
                  !.expires = IF vault[token].lease = 0
                                THEN 0 ELSE vault[token].expiry,
                  !.renewable = vault[token].renewable]]
    <3>1. /\ login'[p].pc = "stored" /\ login'[p].token = token
          /\ login'[p].expires = IF vault[token].lease = 0 THEN 0 ELSE vault[token].expiry
      BY <2>2, <2>4, <1>0 DEF LoginStates
    <3>2. token \in Granted /\ token \in Tokens /\ (vault[token].lease = 0 \/ now < vault[token].expiry)
          /\ vault[token].expiry \in Nat /\ vault[token].lease \in Nat
      BY <2>4, <1>0 DEF Alive, Granted, VaultTokens
    <3>3. Promises(login'[p].expires, token)
      BY <3>1, <3>2, <1>0 DEF Promises
    <3>4. login'[p].expires \in Nat
      BY <1>0 DEF LoginStates
    <3>5. \A q \in Logins : LoginHasToken(q)'
      BY <2>1, <3>1, <3>3, <3>4, <1>p DEF LoginHasToken
    <3>6. SessionPromises' /\ TokenIsSessions'
      BY <2>1, <3>1, <1>p, <1>0 DEF SessionInv, SessionPromises, TokenIsSessions
    <3> QED BY <1>r, <3>5, <3>6 DEF SessionInv
  <2> QED BY <2>3, <2>4 DEF Lookup
<1>5. CASE \E p \in Logins : DropToken(p)
  <2> PICK p \in Logins : DropToken(p)
    BY <1>5
  <2>1. \A q \in Logins : q = p /\ login'[q].pc = "idle"
    BY <1>0 DEF DropToken, NoLogin
  <2>2. token' = NoToken /\ session' = session
    BY DEF DropToken, AfterRefusal
  <2>3. \A q \in Logins : LoginHasToken(q)'
    BY <2>1 DEF LoginHasToken
  <2> QED BY <1>r, <2>2, <2>3, <1>p, <1>0 DEF SessionInv, SessionPromises, TokenIsSessions
<1>6. CASE \E p \in Logins : StartRenewal(p)
  <2> PICK p \in Logins : StartRenewal(p)
    BY <1>6
  <2>1. /\ UNCHANGED <<now, vault, token, session>> /\ \A q \in Logins : q = p
        /\ login'[p].pc = "returned" /\ login'[p].token = login[p].token
        /\ login'[p].expires = login[p].expires
    BY <1>0 DEF StartRenewal, NoLogin
  <2>2. token = login[p].token /\ Promises(login[p].expires, token)
    BY DEF StartRenewal, SessionInv, LoginHasToken
  <2>3. \A q \in Logins : LoginHasToken(q)'
    BY <2>1, <2>2 DEF LoginHasToken, Promises, Granted
  <2> QED BY <1>r, <2>1, <2>3, <1>p, <1>0 DEF SessionInv, SessionPromises, TokenIsSessions
<1>7. CASE \E p \in Logins : OpenSession(p)
  <2> PICK p \in Logins : OpenSession(p)
    BY <1>7
  <2>1. /\ UNCHANGED <<now, vault, token>> /\ session' = NewSession(p)
        /\ \A q \in Logins : q = p /\ login'[q].pc = "idle"
    BY <1>0 DEF OpenSession, NoLogin
  <2>2. token = login[p].token /\ Promises(login[p].expires, token)
    BY DEF OpenSession, SessionInv, LoginHasToken
  <2>3. \A q \in Logins : LoginHasToken(q)'
    BY <2>1 DEF LoginHasToken
  <2>4. SessionPromises' /\ TokenIsSessions'
    BY <2>1, <2>2 DEF NewSession, SessionPromises, TokenIsSessions, Promises, Granted
  <2> QED BY <1>r, <2>3, <2>4 DEF SessionInv
<1>8. CASE \E k \in Loops : Renew(k) \/ Renewed(k) \/ LoopStops(k)
  BY <1>k, <1>8 DEF Renew, Renewed, LoopStops
<1>9. CASE Status \/ Logout \/ (\E gated \in BOOLEAN : Request(gated)) \/ Answer \/ HandleAuthError
  <2>1. Expired.status # "authenticated" /\ Unauthenticated.status # "authenticated"
    BY <1>t DEF Expired, Unauthenticated, TypeOK, SessionStates
  <2>2. Checked = session \/ Checked.status # "authenticated"
    BY <2>1 DEF Checked
  <2> QED BY <1>k, <1>9, <2>1, <2>2 DEF Status, Logout, Request, Answer, HandleAuthError
<1>10. CASE Tick \/ UNCHANGED vars
  BY <1>k, <1>10 DEF Tick, vars
<1> QED BY <1>1, <1>2, <1>3, <1>4, <1>5, <1>6, <1>7, <1>8, <1>9, <1>10 DEF Next

LEMMA InitSessionInv == Init => SessionInv
<1> SUFFICES ASSUME Init PROVE SessionInv
  OBVIOUS
<1>1. session.status # "authenticated" /\ \A p \in Logins : login[p].pc = "idle"
  BY DEF Init, Unauthenticated, NoLogin
<1> QED BY <1>1, InitRenewalInv DEF SessionInv, SessionPromises, TokenIsSessions, LoginHasToken

LEMMA SessionInvImplies == SessionInv => SessionHasToken /\ SessionWithinLease
BY DEF SessionInv, SessionPromises, TokenIsSessions, Promises, SessionHasToken, SessionWithinLease

\* Where logins come one at a time: once a login is over, the store sends the
\* token of the session that is open, or none.
THEOREM OneLoginOneToken ==
    ASSUME \A p, q \in Logins : p = q
    PROVE  Spec => []SessionHasToken
<1>1. SessionInv /\ [Next]_vars => SessionInv'
  BY StepSessionInv
<1> QED BY <1>1, InitSessionInv, SessionInvImplies, PTL DEF Spec

\* Where logins come one at a time, no session outlives its token by more
\* than the delay of one answer.
THEOREM SessionEndsWithLease ==
    ASSUME \A p, q \in Logins : p = q
    PROVE  Spec => []SessionWithinLease
<1>1. SessionInv /\ [Next]_vars => SessionInv'
  BY StepSessionInv
<1> QED BY <1>1, InitSessionInv, SessionInvImplies, PTL DEF Spec

=============================================================================

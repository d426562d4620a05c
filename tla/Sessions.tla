------------------------------ MODULE Sessions ------------------------------
(***************************************************************************)
(* The login session of a workspace, and the Vault token behind it.        *)
(*                                                                         *)
(* Two parts of the program remember that somebody is logged in, each      *)
(* under its own lock: the SessionManager keeps a status and an expiry,    *)
(* the Vault store keeps the token it sends and a goroutine that renews    *)
(* it.  A login changes them one after the other, and requests to the      *)
(* store, logouts, renewals and the clock go on meanwhile.                 *)
(*                                                                         *)
(* Vault itself is modelled from how the store uses it: it grants tokens   *)
(* with a lease, extends a lease when the token's holder asks for it, up   *)
(* to a maximum, and refuses a dead token.                                 *)
(*                                                                         *)
(* Time is counted in half seconds, so that half a lease of s seconds is   *)
(* s.  Lag bounds how long an answer of Vault, or a timer that is due,     *)
(* waits for the program to act on it.                                     *)
(*                                                                         *)
(* Source: internal/core/session.go, pkg/providers/store/vault/vault.go,   *)
(*         pkg/providers/ui/webui/auth_handlers.go, internal/ui/driver.go  *)
(***************************************************************************)
EXTENDS Naturals, FiniteSets

CONSTANTS
    Logins,     \* logins that may be under way at once
    Tokens,     \* the tokens Vault may grant
    BadToken,   \* what else a user may paste into the form
    NoToken,    \* the empty token
    Loops,      \* the renewal goroutines
    NoLoop,
    Leases,     \* the leases, in seconds; 0 is a token without expiry
    MaxLease,   \* how long a token lives at most, in seconds
    Lag,        \* see above
    MaxNow      \* bound of the clock

ASSUME SessionsAssumption ==
    /\ NoToken \notin Tokens /\ BadToken \notin Tokens /\ BadToken # NoToken
    /\ NoLoop \notin Loops
    /\ Leases \subseteq Nat
    /\ MaxLease \in Nat /\ \A l \in Leases : l <= MaxLease
    /\ Lag \in Nat /\ MaxNow \in Nat

Sent == Tokens \cup {BadToken, NoToken}

VARIABLES
    now,
    vault,      \* Vault's tokens: lease, expiry, last possible expiry
    token,      \* the token of the store's HTTP client
    loops,      \* the renewal goroutines that were started
    stopRenew,  \* whose stop channel the store holds
    session,    \* SessionManager.session; "of" names the login it comes from
    login,      \* the logins under way
    request     \* the request to the store that holds the controller's lock

vars == <<now, vault, token, loops, stopRenew, session, login, request>>

Ticks(seconds) == 2 * seconds

\* max(lease / 2, 1s)
RenewInterval(seconds) == IF seconds >= 2 THEN seconds ELSE 2

Granted == {t \in Tokens : vault[t].granted}
Alive(t) == /\ t \in Granted
            /\ vault[t].lease = 0 \/ now < vault[t].expiry
Renewable(t) == t \in Granted /\ vault[t].renewable

-----------------------------------------------------------------------------
NotGranted == [granted |-> FALSE, renewable |-> FALSE, lease |-> 0,
               expiry |-> 0, last |-> 0]
NoLogin == [pc |-> "idle", token |-> NoToken, seen |-> NoToken, at |-> 0,
            ttl |-> 0, expires |-> 0, renewable |-> FALSE]
NotStarted == [pc |-> "idle", ttl |-> 0, due |-> 0, at |-> 0, ok |-> FALSE,
               stopped |-> FALSE, keeps |-> NoToken]
Ended == [NotStarted EXCEPT !.pc = "ended"]
Unauthenticated == [status |-> "unauthenticated", expires |-> 0,
                    of |-> NoToken]

Grant(t, lease, renewable) ==
    [granted |-> TRUE, renewable |-> renewable, lease |-> lease,
     expiry |-> now + Ticks(lease), last |-> now + Ticks(MaxLease)]

\* NewSessionManager; VAULT_TOKEN may have given the store a token.
Init ==
    /\ now = 0
    /\ token \in Tokens \cup {NoToken}
    /\ vault \in {[t \in Tokens |-> IF t = token THEN Grant(t, l, FALSE)
                                                 ELSE NotGranted] :
                    l \in Leases}
    /\ loops = [k \in Loops |-> NotStarted]
    /\ stopRenew = NoLoop
    /\ session = Unauthenticated
    /\ login = [p \in Logins |-> NoLogin]
    /\ request = "idle"

-----------------------------------------------------------------------------
(* Logins.  Userpass, AppRole, LDAP, Kubernetes and the callback of OIDC   *)
(* exchange credentials for a token; the token method brings its own.      *)
(* A refused exchange changes nothing and is not a step.                   *)

\* Vault answers the exchange.
Exchange(p) ==
    /\ login[p].pc = "idle"
    /\ \E t \in Tokens \ Granted, l \in Leases, r \in BOOLEAN :
        /\ vault' = [vault EXCEPT ![t] = Grant(t, l, r)]
        /\ login' = [login EXCEPT ![p] =
             [pc |-> "answered", token |-> t, seen |-> t, at |-> now,
              ttl |-> l, expires |-> 0, renewable |-> r]]
    /\ UNCHANGED <<now, token, loops, stopRenew, session, request>>

\* processAuthResponse, up to the renewal.
KeepToken(p) ==
    /\ login[p].pc = "answered"
    /\ token' = login[p].token
    /\ login' = [login EXCEPT ![p] = [@ EXCEPT !.pc = "stored",
         !.expires = IF login[p].ttl = 0 THEN 0 ELSE now + Ticks(login[p].ttl)]]
    /\ UNCHANGED <<now, vault, loops, stopRenew, session, request>>

\* loginToken stores the token before it looks it up.
PasteToken(p) ==
    /\ login[p].pc = "idle"
    /\ \E t \in Granted \cup {BadToken} :
        /\ token' = t
        /\ login' = [login EXCEPT ![p] =
                       [NoLogin EXCEPT !.pc = "pasted", !.token = t]]
    /\ UNCHANGED <<now, vault, loops, stopRenew, session, request>>

\* Whole seconds left of a lease.
TimeToLive(t) == IF vault[t].lease = 0 THEN 0
                                       ELSE (vault[t].expiry - now) \div 2

\* Vault looks up whatever token the client sends by now.
Lookup(p) ==
    /\ login[p].pc = "pasted"
    /\ \/ /\ Alive(token)
          /\ login' = [login EXCEPT ![p] = [@ EXCEPT
               !.pc = "stored", !.seen = token, !.at = now,
               !.ttl = TimeToLive(token),
               !.expires = IF vault[token].lease = 0
                             THEN 0 ELSE vault[token].expiry,
               !.renewable = vault[token].renewable]]
       \/ login' = [login EXCEPT ![p].pc = "refused"]
    /\ UNCHANGED <<now, vault, token, loops, stopRenew, session, request>>

\* The token stays when the lookup failed.
AfterRefusalKept == token

\* A failed lookup leaves the client without a token.
AfterRefusal == NoToken

DropToken(p) ==
    /\ login[p].pc = "refused"
    /\ token' = AfterRefusal
    /\ login' = [login EXCEPT ![p] = NoLogin]
    /\ UNCHANGED <<now, vault, loops, stopRenew, session, request>>

\* The goroutine before goes on.
RestartedBeside(k, p) ==
    [loops EXCEPT ![k] =
        [pc |-> "waiting", ttl |-> login[p].ttl, at |-> 0,
         due |-> now + RenewInterval(login[p].ttl), ok |-> TRUE,
         stopped |-> FALSE, keeps |-> login[p].seen]]

\* The first renewal comes at the end of the lease.
RestartedLate(k, p) ==
    [j \in Loops |->
        IF j = k THEN [RestartedBeside(k, p)[k] EXCEPT
                         !.due = now + Ticks(login[p].ttl)]
        ELSE IF j = stopRenew THEN [loops[j] EXCEPT !.stopped = TRUE]
        ELSE loops[j]]

\* startRenewal closes the stop channel of the goroutine before.
Restarted(k, p) ==
    [j \in Loops |->
        IF j = k THEN [pc |-> "waiting", ttl |-> login[p].ttl, at |-> 0,
                       due |-> now + RenewInterval(login[p].ttl),
                       ok |-> TRUE, stopped |-> FALSE,
                       keeps |-> login[p].seen]
        ELSE IF j = stopRenew THEN [loops[j] EXCEPT !.stopped = TRUE]
        ELSE loops[j]]

StartRenewal(p) ==
    /\ login[p].pc = "stored"
    /\ IF login[p].renewable /\ login[p].ttl > 0
         THEN \E k \in Loops :
                /\ loops[k].pc = "idle"
                /\ loops' = Restarted(k, p)
                /\ stopRenew' = k
         ELSE UNCHANGED <<loops, stopRenew>>
    /\ login' = [login EXCEPT ![p] = [NoLogin EXCEPT
         !.pc = "returned", !.token = login[p].token,
         !.expires = login[p].expires]]
    /\ UNCHANGED <<now, vault, token, session, request>>

\* The expiry of the credential is not read.
NewSessionEndless(p) == [status |-> "authenticated", expires |-> 0,
                         of |-> login[p].token]

\* SessionManager.Login and LoginInteractiveCallback, once the store has
\* returned.  The expiry is set here and never again.
NewSession(p) == [status |-> "authenticated", expires |-> login[p].expires,
                  of |-> login[p].token]

OpenSession(p) ==
    /\ login[p].pc = "returned"
    /\ session' = NewSession(p)
    /\ login' = [login EXCEPT ![p] = NoLogin]
    /\ UNCHANGED <<now, vault, token, loops, stopRenew, request>>

-----------------------------------------------------------------------------
(* The renewal goroutine.                                                  *)

\* Vault extends the lease of the token the client has by now.
Extended(t) == IF vault[t].last <= now + Ticks(vault[t].lease)
                 THEN vault[t].last ELSE now + Ticks(vault[t].lease)

Renew(k) ==
    /\ loops[k].pc = "waiting" /\ loops[k].due <= now
    /\ \/ /\ Alive(token) /\ Renewable(token)
          /\ vault' = [vault EXCEPT ![token].expiry = Extended(token)]
          /\ loops' = [loops EXCEPT ![k] = [@ EXCEPT
               !.pc = "sent", !.due = 0, !.at = now, !.keeps = token]]
       \/ /\ loops' = [loops EXCEPT ![k] = [@ EXCEPT
               !.pc = "sent", !.due = 0, !.at = now, !.ok = FALSE]]
          /\ UNCHANGED vault
    /\ UNCHANGED <<now, token, stopRenew, session, login, request>>

\* The answer, which may also be lost; a failure ends the goroutine.
Renewed(k) ==
    /\ loops[k].pc = "sent"
    /\ \/ /\ loops[k].ok
          /\ loops' = [loops EXCEPT ![k] = [@ EXCEPT !.pc = "waiting",
               !.due = now + RenewInterval(loops[k].ttl), !.at = 0]]
       \/ loops' = [loops EXCEPT ![k] = Ended]
    /\ UNCHANGED <<now, vault, token, stopRenew, session, login, request>>

LoopStops(k) ==
    /\ loops[k].pc = "waiting" /\ loops[k].stopped
    /\ loops' = [loops EXCEPT ![k] = Ended]
    /\ UNCHANGED <<now, vault, token, stopRenew, session, login, request>>

-----------------------------------------------------------------------------
(* The session as the frontends use it.                                    *)

Expired == [session EXCEPT !.status = "expired"]

\* Status, which expires a session when it is asked about it.
Checked == IF /\ session.status = "authenticated"
              /\ session.expires # 0 /\ session.expires < now
             THEN Expired ELSE session

Status ==
    /\ session' = Checked
    /\ UNCHANGED <<now, vault, token, loops, stopRenew, login, request>>

Logout ==
    /\ session' = Unauthenticated
    /\ UNCHANGED <<now, vault, token, loops, stopRenew, login, request>>

\* A load or a save: the web UI lets it pass by the session's status, the
\* terminal UI and the MCP bridge do not ask.
Request(gated) ==
    /\ request = "idle"
    /\ session' = IF gated THEN Checked ELSE session
    /\ request' = IF gated /\ session'.status # "authenticated"
                    THEN "idle" ELSE "sent"
    /\ UNCHANGED <<now, vault, token, loops, stopRenew, login>>

\* Vault answers; 403 is an access denied and no auth error.
Answer ==
    /\ request = "sent"
    /\ \/ Alive(token) /\ request' = "idle"
       \/ ~Alive(token) /\ request' \in {"idle", "unauthorized"}
    /\ UNCHANGED <<now, vault, token, loops, stopRenew, session, login>>

HandleAuthError ==
    /\ request = "unauthorized"
    /\ request' = "idle"
    /\ session' = IF session.status \in {"authenticated", "expired"}
                    THEN Expired ELSE session
    /\ UNCHANGED <<now, vault, token, loops, stopRenew, login>>

-----------------------------------------------------------------------------
\* Nothing waits for longer than Lag.
Prompt ==
    /\ \A p \in Logins : login[p].pc \in {"answered", "stored"} =>
                           now < login[p].at + Lag
    /\ \A k \in Loops :
        /\ loops[k].pc = "waiting" => now < loops[k].due + Lag
        /\ loops[k].pc = "sent" => now < loops[k].at + Lag

Tick ==
    /\ now < MaxNow /\ Prompt
    /\ now' = now + 1
    /\ UNCHANGED <<vault, token, loops, stopRenew, session, login, request>>

Next ==
    \/ \E p \in Logins : \/ Exchange(p) \/ KeepToken(p)
                         \/ PasteToken(p) \/ Lookup(p) \/ DropToken(p)
                         \/ StartRenewal(p) \/ OpenSession(p)
    \/ \E k \in Loops : Renew(k) \/ Renewed(k) \/ LoopStops(k)
    \/ Status \/ Logout
    \/ \E gated \in BOOLEAN : Request(gated)
    \/ Answer \/ HandleAuthError
    \/ Tick

Spec == Init /\ [][Next]_vars

-----------------------------------------------------------------------------
VaultTokens == [granted : BOOLEAN, renewable : BOOLEAN, lease : Nat,
                expiry : Nat, last : Nat]
LoginStates == [pc : {"idle", "answered", "pasted", "refused", "stored",
                      "returned"},
                token : Sent, seen : Tokens \cup {NoToken}, at : Nat,
                ttl : Nat, expires : Nat, renewable : BOOLEAN]
LoopStates == [pc : {"idle", "waiting", "sent", "ended"}, ttl : Nat,
               due : Nat, at : Nat, ok : BOOLEAN, stopped : BOOLEAN,
               keeps : Tokens \cup {NoToken}]
SessionStates == [status : {"unauthenticated", "authenticated", "expired"},
                  expires : Nat, of : Sent]

\* No operation leaves a state the others do not know; a goroutine that was
\* started has an interval to go by.
TypeOK ==
    /\ now \in 0 .. MaxNow
    /\ vault \in [Tokens -> VaultTokens]
    /\ token \in Sent
    /\ loops \in [Loops -> LoopStates]
    /\ stopRenew \in Loops \cup {NoLoop}
    /\ session \in SessionStates
    /\ login \in [Logins -> LoginStates]
    /\ request \in {"idle", "sent", "unauthorized"}
    /\ \A k \in Loops : loops[k].pc \in {"waiting", "sent"} => loops[k].ttl > 0

\* startRenewal stops the goroutine before: whatever logins overlap, at most
\* one goroutine goes on renewing, and it is the one Stop would reach.
Renewing(k) == loops[k].pc \in {"waiting", "sent"} /\ ~loops[k].stopped

OneRenewal == \A k \in Loops : Renewing(k) => k = stopRenew

\* An interval leaves room for the answers' delay in both leases that matter:
\* what was left at the login, and what a renewal grants.
InTime(k) == LET t == loops[k].keeps IN
    /\ RenewInterval(loops[k].ttl) + 2 * Lag < Ticks(loops[k].ttl)
    /\ RenewInterval(loops[k].ttl) + 2 * Lag < Ticks(vault[t].lease)

\* "renews the Vault token at half the lease duration interval" (vault.go):
\* while the goroutine renews and no renewal has failed, the token it last
\* renewed is alive, or has been extended as far as Vault extends it.
StaysAlive ==
    \A k \in Loops :
        LET t == loops[k].keeps IN
        Renewing(k) /\ loops[k].ok /\ InTime(k) =>
            Alive(t) \/ vault[t].expiry = vault[t].last

\* Where logins come one at a time, as the terminal UI sees to: while a
\* session is open and no login is under way, the store sends the token of
\* that session's login, or none after a token that did not work.
SessionHasToken ==
    session.status = "authenticated" /\ (\A p \in Logins : login[p].pc = "idle")
        => token \in {session.of, NoToken} /\ session.of \in Granted

\* An open session ends with the lease it was opened on: it has an expiry if
\* its token has one, and outlives the token by the delay of one answer at
\* most, before and after any renewal.
SessionWithinLease ==
    session.status = "authenticated" =>
        LET t == session.of IN
        /\ t \in Granted
        /\ session.expires = 0 <=> vault[t].lease = 0
        /\ vault[t].lease > 0 => session.expires <= vault[t].expiry + Lag

\* "was authenticated, token expired" (session.go): when a session has come
\* to the end of its time, the token that the store sends, its own, is dead.
TimeIsUp == session.expires # 0 /\ session.expires < now

TimedOutWithToken ==
    session.status = "expired" /\ TimeIsUp /\ token = session.of => ~Alive(token)

\* The same of every expired session, those that an auth error has expired
\* among them.
ExpiredMeansTokenExpired ==
    session.status = "expired" /\ token = session.of => ~Alive(token)

=============================================================================

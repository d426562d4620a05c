----------------------------- MODULE WebSession -----------------------------
(***************************************************************************)
(* A browser with a few tabs before the web UI: the cookie and the token   *)
(* that a request which changes something must carry, the check for a      *)
(* session, and the redirects between the login page and the others.       *)
(*                                                                         *)
(* The tabs share the cookie; answers arrive in any order.  A token is     *)
(* signed with a secret that every start of the server draws anew.         *)
(*                                                                         *)
(* Source: pkg/providers/ui/webui/{middleware,auth_handlers,routes}.go     *)
(***************************************************************************)
EXTENDS Naturals, FiniteSets

CONSTANTS
    Tabs,
    MaxTokens,      \* bound: tokens made
    MaxStarts,      \* bound: starts of the server
    MaxChanges      \* bound: changes of the session by somebody else

VARIABLES
    started,    \* how often the server was started
    made,       \* how many tokens were made
    methods,    \* the store offers ways to log in
    session,    \* status of the session of the store
    changes,    \* how often it was changed by somebody else
    jar,        \* the browser's cookie
    tab,        \* what each tab shows, with the token in its page
    wire        \* the request or the answer of each tab that is under way

vars == <<started, made, methods, session, changes, jar, tab, wire>>

Token == [start : 1..MaxStarts, id : 1..MaxTokens]
NoToken == [start |-> 0, id |-> 0]

NoMessage == [kind |-> "nothing", page |-> "none", cookie |-> NoToken, token |-> NoToken,
              sets |-> FALSE, alone |-> FALSE]

Init ==
    /\ started = 1 /\ made = 0 /\ changes = 0
    /\ methods \in BOOLEAN
    /\ session \in IF methods THEN {"unauthenticated"} ELSE {"none", "unauthenticated"}
    /\ jar = NoToken
    /\ tab = [t \in Tabs |-> [page |-> "none", token |-> NoToken]]
    /\ wire = [t \in Tabs |-> NoMessage]

Quiet == \A t \in Tabs : wire[t].kind = "nothing"

\* Another request that leaves takes the others' being alone away.
Send(t, request) ==
    wire' = [u \in Tabs |-> IF u = t THEN request ELSE [wire[u] EXCEPT !.alone = FALSE]]

-----------------------------------------------------------------------------
(* The browser. *)

\* Bound: tokens are left for all that is under way.
Bounded ==
    Cardinality({u \in Tabs : wire[u].kind \in {"get", "post"}}) + made < MaxTokens

\* A page that is visited or loaded again.
Get(t, page) ==
    /\ wire[t].kind = "nothing" /\ Bounded
    /\ Send(t, [NoMessage EXCEPT !.kind = "get", !.page = page, !.cookie = jar, !.alone = Quiet])
    /\ UNCHANGED <<started, made, methods, session, changes, jar, tab>>

\* A form or a button of the page carries the token that is in the page.
Post(t) ==
    /\ wire[t].kind = "nothing" /\ tab[t].page # "none" /\ Bounded
    /\ Send(t, [NoMessage EXCEPT !.kind = "post", !.page = tab[t].page, !.cookie = jar,
                               !.token = tab[t].token])
    /\ UNCHANGED <<started, made, methods, session, changes, jar, tab>>

-----------------------------------------------------------------------------
(* The server takes a request in one step: it keeps no lock over the check *)
(* and what follows, but nothing of what follows depends on the check.     *)

\* validateToken
Valid(token) == token.start = started

\* A fresh token is made and set as the cookie unless the cookie is good.
TokenOf(request) ==
    IF Valid(request.cookie) THEN request.cookie ELSE [start |-> started, id |-> made + 1]

\* Mutant of SetsCookie: a cookie that is no longer good is left.
SetsCookieFirst(request) == request.cookie = NoToken

SetsCookie(request) == ~Valid(request.cookie)

Allowed(request) == Valid(request.token) /\ request.token = TokenOf(request)

\* requireAuth: a store without ways to log in needs none.
NeedsLogin ==
    \/ session = "expired"
    \/ session = "unauthenticated" /\ methods

\* handleLoginPage sends away whoever needs no login.
OnLogin == ~(session \in {"authenticated", "none"}) /\ methods

\* What a GET is answered with: a page, or another one to ask for.
Answered(page) ==
    IF page = "login" THEN (IF OnLogin THEN "page" ELSE "to tree")
    ELSE IF NeedsLogin THEN "to login" ELSE "page"

Answer(t, kind, page) ==
    wire' = [wire EXCEPT ![t] =
        [NoMessage EXCEPT !.kind = kind, !.page = page, !.token = TokenOf(wire[t]),
                        !.sets = SetsCookie(wire[t]), !.alone = wire[t].alone]]

\* The store no longer knows the session: an error (handleAuthError).
StoreRefuses == session = "authenticated" /\ session' = "expired"

\* The tree stands for every page behind requireAuth, its errors too.
ServeGet(t) ==
    /\ wire[t].kind = "get"
    /\ made' = IF Valid(wire[t].cookie) THEN made ELSE made + 1
    /\ Answer(t, Answered(wire[t].page), wire[t].page)
    /\ \/ UNCHANGED session
       \/ wire[t].page = "tree" /\ StoreRefuses
    /\ UNCHANGED <<started, methods, changes, jar, tab>>

\* The login form, the button that logs out, and all other changes.
ServePost(t) ==
    /\ wire[t].kind = "post"
    /\ made' = IF Valid(wire[t].cookie) THEN made ELSE made + 1
    /\ \/ /\ ~Allowed(wire[t])
          /\ Answer(t, "refused", wire[t].page) /\ UNCHANGED session
       \/ /\ Allowed(wire[t]) /\ wire[t].page = "login"
          /\ \/ methods /\ session' = "authenticated" /\ Answer(t, "to tree", "tree")
             \/ Answer(t, "page", "login") /\ UNCHANGED session
       \/ /\ Allowed(wire[t]) /\ wire[t].page = "tree"
          /\ \/ StoreRefuses /\ Answer(t, "done", "tree")
             \/ session' = (IF session = "none" THEN "none" ELSE "unauthenticated")
                /\ Answer(t, "to login", "login")
             \/ UNCHANGED session
                /\ Answer(t, IF NeedsLogin THEN "to login" ELSE "done", "tree")
    /\ UNCHANGED <<started, methods, changes, jar, tab>>

\* An answer sets the cookie first; a redirect is followed at once.
Arrive(t) ==
    LET a == wire[t] IN
    /\ a.kind \notin {"nothing", "get", "post"}
    /\ jar' = IF a.sets THEN a.token ELSE jar
    /\ tab' = IF a.kind = "page" THEN [tab EXCEPT ![t] = [page |-> a.page, token |-> a.token]]
                                 ELSE tab
    /\ wire' = [wire EXCEPT ![t] =
        IF a.kind \in {"to login", "to tree"}
        THEN [NoMessage EXCEPT !.kind = "get", !.page = IF a.kind = "to login" THEN "login" ELSE "tree",
                             !.cookie = jar', !.alone = a.alone]
        ELSE NoMessage]
    /\ UNCHANGED <<started, made, methods, session, changes>>

-----------------------------------------------------------------------------
(* What happens elsewhere. *)

\* The session expires, or another frontend's user logs in or out.
SessionChanges ==
    /\ methods /\ changes < MaxChanges
    /\ changes' = changes + 1
    /\ \/ session = "authenticated" /\ session' \in {"expired", "unauthenticated"}
       \/ session # "authenticated" /\ session' = "authenticated"
    /\ UNCHANGED <<started, made, methods, jar, tab, wire>>

\* The server is started again: another secret, no session, and what was
\* under way is lost with it.
Restart ==
    /\ started < MaxStarts
    /\ started' = started + 1
    /\ session' = IF session = "none" THEN "none" ELSE "unauthenticated"
    /\ wire' = [t \in Tabs |-> NoMessage]
    /\ UNCHANGED <<made, methods, changes, jar, tab>>

Serve(t) == ServeGet(t) \/ ServePost(t) \/ Arrive(t)

Next ==
    \/ \E t \in Tabs : (\E page \in {"login", "tree"} : Get(t, page)) \/ Post(t) \/ Serve(t)
    \/ SessionChanges \/ Restart

\* The server serves what it was sent and the network brings the answers.
Fairness == \A t \in Tabs : WF_vars(Serve(t))

Spec == Init /\ [][Next]_vars /\ Fairness

-----------------------------------------------------------------------------
(* Properties *)

\* What the browser holds was made: no two answers share a token that set
\* it, a page carries a token that was the cookie, and an expired session
\* is one of a store with a login.
WebTypeOK ==
    /\ made \in 0..MaxTokens /\ started \in 1..MaxStarts
    /\ jar \in Token \cup {NoToken} /\ jar.id <= made
    /\ \A t \in Tabs :
        /\ tab[t].page = "none" <=> tab[t].token = NoToken
        /\ tab[t].token \in Token \cup {NoToken} /\ tab[t].token.id <= made
        /\ tab[t].token # NoToken => jar # NoToken
        /\ wire[t].sets => wire[t].token.start = started
    /\ session \in {"authenticated", "expired"} => methods

\* "double-submit cookie" (middleware.go): after a page was loaded with
\* nothing else under way, what it sends is taken, whatever the browser
\* held before from an earlier start of the server.  With another request
\* under way this does not hold: the later answer may set another cookie.
ReloadHelps ==
    [][\A t \in Tabs :
        wire[t].kind = "page" /\ wire[t].alone /\ tab' # tab /\ wire'[t] # wire[t]
            => tab'[t].token = jar' /\ jar'.start = started]_vars

\* The login page and the others do not send the browser back and forth:
\* every request ends with something shown, unless the session keeps
\* changing meanwhile.
RedirectsEnd ==
    \A t \in Tabs :
        []<>(wire[t].kind = "nothing") \/ []<><<session' # session>>_vars
=============================================================================

-------------------------------- MODULE Wire --------------------------------
(* Calls between zhi and a plugin process (pkg/zhiplugin/*/grpc_*.go and    *)
(* ui/controller_*.go).  zhi calls the store, config and transform plugins; *)
(* a UI plugin calls zhi, by a connection of its own that zhi offers while  *)
(* the plugin's Run lasts.                                                  *)
(*                                                                          *)
(* Nothing is called again by itself, so a call is handled once at most.    *)
(* What is handled goes on when the caller has gone; only its context says  *)
(* so.  Fields of words and flags are copied one by one and left out here;  *)
(* values travel as JSON, which does not take every value.  Lines of an     *)
(* apply are counted: a stream keeps their order.                           *)
EXTENDS Naturals, Sequences

CONSTANTS
    Calls,      \* the calls one side makes, in any order and at once
    Chains,     \* which kinds of errors are wrapped in each other
    MaxLines,   \* how many lines an apply prints at most
    Window      \* how many of them the connection takes unread

VARIABLES
    service,    \* the interface that is called
    conn,       \* "offered", "dialed", "up" or "down"
    run,        \* whether zhi is inside the UI plugin's Run
    server,     \* zhi's server of the controller: "starting", "serving", "stopped"
    method,     \* of each call
    handler,    \* where the side that is called is with it
    meant,      \* what the implementation answered
    seen,       \* what the caller makes of it
    printed, transit, shown, \* the lines of an apply, by where they are
    end         \* what follows them in the stream

wireVars == <<service, conn, run, server, method, handler, meant, seen, printed, transit, shown, end>>

stream == <<printed, transit, shown, end>>
session == <<service, conn, run, server>>

----------------------------------------------------------------------------
(* What the methods carry.                                                  *)

\* Methods whose request holds values, or results with metadata in JSON.
ValuesIn ==
    [store |-> {"PutValues"}, config |-> {"Set", "Validate"},
     transform |-> {"BeforeDisplay", "AfterSave"}, ui |-> {"SetValue"}]

ValuesOut ==
    [store |-> {"GetValues", "GetTreeVersion", "GetValueVersion"}, config |-> {"Get", "Validate"},
     transform |-> {"BeforeDisplay", "AfterSave"}, ui |-> {"LoadTree", "Validate"}]

StoreSessionWords ==
    {"Capabilities", "AuthMethods", "Login", "LoginInteractive", "LoginInteractiveCallback"}

StoreTreeWords ==
    {"ListTrees", "DeleteTree", "DeleteValues", "ListTreeVersions", "RollbackTree", "DeleteTreeVersion",
     "ListValueVersions", "RollbackValue", "DeleteValueVersion", "InitEncryption", "RotateEncryption",
     "GrantAccess", "RevokeAccess", "ListAccess"}

ControllerWords ==
    {"SaveTree", "ExportTemplates", "Export", "ListComponents", "EnableComponent", "DisableComponent",
     "WorkspaceName"}

MarketplaceWords ==
    {"SearchMarketplace", "GetMarketplaceDetail", "InstallPlugin", "UninstallPlugin",
     "ListInstalledPlugins", "CheckUpdates", "UpdatePlugin", "RatePlugin"}

SessionWords ==
    {"StoreAuthMethods", "StoreLogin", "StoreLoginInteractive", "StoreLoginInteractiveCallback",
     "StoreAuthStatus", "StoreLogout"}

ControllerMethods == ControllerWords \cup MarketplaceWords \cup SessionWords

Words ==
    [store |-> StoreSessionWords \cup StoreTreeWords, config |-> {"List"}, transform |-> {"ValidatePolicy"},
     ui |-> ControllerMethods]

Methods(s) == ValuesIn[s] \cup ValuesOut[s] \cup Words[s] \cup (IF s = "ui" THEN {"Apply"} ELSE {})

\* Methods with a number that the client refuses to narrow to 32 bits.
Narrowed == {"SearchMarketplace"}

----------------------------------------------------------------------------
(* Errors.                                                                  *)

\* The errors a store tells apart (store/errors.go), in the order they are
\* looked for in a chain of wrapped errors.
Kinds == <<"cas", "auth", "access", "path", "encryption", "unsupported">>
Kind == {Kinds[i] : i \in 1..Len(Kinds)}

Code == [cas |-> "Aborted", auth |-> "Unauthenticated", access |-> "PermissionDenied",
         path |-> "NotFound", encryption |-> "FailedPrecondition", unsupported |-> "Unimplemented"]

\* What an implementation answers: a failure is a chain with these kinds, or a
\* status that is not the store's own, as from a service it uses or from gRPC
\* itself when the plugin is older and has no such method.
Answer(kinds, code) == [kinds |-> kinds, code |-> code]
Nothing == Answer({}, "none")
Done == Answer({}, "OK")
ExitsNonzero == Answer({}, "exit")
Failures ==
    {Answer(kinds, "Unknown") : kinds \in Chains} \cup {Answer({}, Code[k]) : k \in Kind}

\* errorToStatus.
ToStatus(e) ==
    IF e.kinds = {} THEN [code |-> e.code, marked |-> FALSE]
    ELSE LET first == CHOOSE i \in 1..Len(Kinds) :
                        Kinds[i] \in e.kinds /\ \A j \in 1..i - 1 : Kinds[j] \notin e.kinds
         IN  [code |-> Code[Kinds[first]], marked |-> TRUE]

\* statusToError.
FromStatus(st) ==
    IF st.marked THEN CHOOSE k \in Kind : Code[k] = st.code ELSE "plain"

\* Only the store's client and server convert errors.
Over(s, e) == IF s = "store" THEN FromStatus(ToStatus(e)) ELSE "plain"

----------------------------------------------------------------------------

WireInit ==
    /\ service \in {"store", "config", "transform", "ui"}
    /\ IF service = "ui" THEN conn = "offered" /\ run = "called" /\ server = "starting"
       ELSE conn = "up" /\ run = "none" /\ server = "none"
    /\ method = [c \in Calls |-> "none"]
    /\ handler = [c \in Calls |-> "none"]
    /\ meant = [c \in Calls |-> Nothing]
    /\ seen = [c \in Calls |-> "nothing"]
    /\ printed = [c \in Calls |-> 0] /\ transit = [c \in Calls |-> 0] /\ shown = [c \in Calls |-> 0]
    /\ end = [c \in Calls |-> "open"]

Waiting(c) == method[c] # "none" /\ seen[c] = "nothing"

\* The goroutine of the broker starts the server, however late.
Serve ==
    /\ server = "starting"
    /\ server' = "serving"
    /\ UNCHANGED <<service, conn, run, method, handler, meant, seen, stream>>

\* The plugin's Run dials the broker and gives up after a while.
Dial ==
    /\ conn = "offered"
    /\ \/ server = "serving" /\ conn' = "up"
       \/ conn' = "down"
    /\ UNCHANGED <<service, run, server, method, handler, meant, seen, stream>>

\* A request that cannot be encoded is not sent.
Ask(c, m) ==
    /\ conn = "up" /\ method[c] = "none"
    /\ method' = [method EXCEPT ![c] = m]
    /\ \/ handler' = [handler EXCEPT ![c] = "asked"] /\ UNCHANGED seen
       \/ /\ m \in ValuesIn[service] \cup Narrowed
          /\ seen' = [seen EXCEPT ![c] = "plain"]
          /\ UNCHANGED handler
    /\ UNCHANGED <<session, meant, stream>>

\* The request of a caller that has given up may still come through.
Begin(c) ==
    /\ handler[c] = "asked" /\ conn = "up"
    /\ handler' = [handler EXCEPT ![c] = "handling"]
    /\ UNCHANGED <<session, method, meant, seen, stream>>

\* The implementation does its work and answers; an apply may also end with
\* a code that is not 0.
Work(c) ==
    /\ handler[c] = "handling"
    /\ handler' = [handler EXCEPT ![c] = "worked"]
    /\ \/ meant' = [meant EXCEPT ![c] = Done]
       \/ \E e \in Failures : meant' = [meant EXCEPT ![c] = e]
       \/ method[c] = "Apply" /\ meant' = [meant EXCEPT ![c] = ExitsNonzero]
    /\ UNCHANGED <<session, method, seen, stream>>

\* The answer of any method but an apply, which may have no encoding.
Reply(c) ==
    /\ handler[c] = "worked" /\ method[c] # "Apply"
    /\ handler' = [handler EXCEPT ![c] = "ended"]
    /\ IF conn = "up" /\ Waiting(c)
       THEN \/ seen' = [seen EXCEPT ![c] = IF meant[c] = Done THEN "done" ELSE Over(service, meant[c])]
            \/ /\ meant[c] = Done /\ method[c] \in ValuesOut[service]
               /\ seen' = [seen EXCEPT ![c] = "plain"]
       ELSE UNCHANGED seen
    /\ UNCHANGED <<session, method, meant, stream>>

----------------------------------------------------------------------------
(* An apply: a stream of lines and, last, the result.                       *)

Gone(c) == conn = "down" \/ ~Waiting(c) \/ end[c] = "broken"

\* Mutant of Takes: a message waits for the reader, gone or not.
TakesIfRead(c) == transit[c] < Window

\* Send returns when the connection takes the message, or with an error when
\* nobody will read it.
Takes(c) == transit[c] < Window \/ Gone(c)

\* The handler given to the implementation: an error of Send is ignored, and
\* a line that is not UTF-8 ends the stream.
PrintLine(c) ==
    /\ method[c] = "Apply" /\ handler[c] = "handling"
    /\ printed[c] < MaxLines /\ Takes(c)
    /\ printed' = [printed EXCEPT ![c] = @ + 1]
    /\ IF Gone(c) THEN UNCHANGED <<transit, end>>
       ELSE \/ transit' = [transit EXCEPT ![c] = @ + 1] /\ UNCHANGED end
            \/ end' = [end EXCEPT ![c] = "broken"] /\ UNCHANGED transit
    /\ UNCHANGED <<session, method, handler, meant, seen, shown>>

\* The final message, with the code or with the text of the error.
SendResult(c) ==
    /\ method[c] = "Apply" /\ handler[c] = "worked" /\ Takes(c)
    /\ handler' = [handler EXCEPT ![c] = "ended"]
    /\ end' = [end EXCEPT ![c] = IF Gone(c) THEN "broken" ELSE "result"]
    /\ UNCHANGED <<session, method, meant, seen, printed, transit, shown>>

RecvLine(c) ==
    /\ Waiting(c) /\ transit[c] > 0
    /\ transit' = [transit EXCEPT ![c] = @ - 1]
    /\ shown' = [shown EXCEPT ![c] = @ + 1]
    /\ UNCHANGED <<session, method, handler, meant, seen, printed, end>>

\* The result, as the caller reads it: a success has code 0 and no error.
Result(m) == IF m = Done THEN "done" ELSE "failed"

\* Mutant of Broken: any error of Recv ends the loop as io.EOF does.
BrokenAsEof == "done"

\* An error of Recv.
Broken == "lost"

RecvEnd(c) ==
    /\ Waiting(c) /\ transit[c] = 0 /\ end[c] # "open"
    /\ seen' = [seen EXCEPT ![c] = IF end[c] = "result" THEN Result(meant[c]) ELSE Broken]
    /\ UNCHANGED <<session, method, handler, meant, stream>>

----------------------------------------------------------------------------
(* Ends.                                                                    *)

\* The caller's context ends: a timeout, a client that went away.
GiveUp(c) ==
    /\ Waiting(c)
    /\ seen' = [seen EXCEPT ![c] = Broken]
    /\ UNCHANGED <<session, method, handler, meant, stream>>

Lost(c) ==
    /\ Waiting(c) /\ conn = "down"
    /\ seen' = [seen EXCEPT ![c] = Broken]
    /\ UNCHANGED <<session, method, handler, meant, stream>>

\* The side that is called dies, with what it was doing.
CalleeDies ==
    /\ service # "ui" /\ conn = "up"
    /\ conn' = "down"
    /\ handler' = [c \in Calls |-> IF handler[c] = "none" THEN "none" ELSE "ended"]
    /\ UNCHANGED <<service, run, server, method, meant, seen, stream>>

\* The UI plugin's Run ends, or its process; its connection is closed.
FrontendEnds ==
    /\ service = "ui" /\ conn = "up"
    /\ conn' = "down"
    /\ UNCHANGED <<service, run, server, method, handler, meant, seen, stream>>

\* Run returns to zhi, which stops the server if there is one; the handlers
\* are not waited for.  An interrupt ends the call of Run at once.
Return ==
    /\ run = "called"
    /\ run' = "returned"
    /\ IF server = "serving" THEN server' = "stopped" /\ conn' = "down" ELSE UNCHANGED <<server, conn>>
    /\ UNCHANGED <<service, method, handler, meant, seen, stream>>

CallNext(c) ==
    \/ \E m \in Methods(service) : Ask(c, m)
    \/ Begin(c) \/ Work(c) \/ Reply(c)
    \/ PrintLine(c) \/ SendResult(c) \/ RecvLine(c) \/ RecvEnd(c)
    \/ GiveUp(c) \/ Lost(c)

WireNext == Serve \/ Dial \/ CalleeDies \/ FrontendEnds \/ Return \/ \E c \in Calls : CallNext(c)

\* Implementations return, a caller reads its stream, gRPC notices the end of
\* a connection.
WireFairness ==
    \A c \in Calls :
        /\ WF_wireVars(Begin(c)) /\ WF_wireVars(Work(c)) /\ WF_wireVars(Reply(c))
        /\ WF_wireVars(SendResult(c)) /\ WF_wireVars(RecvLine(c)) /\ WF_wireVars(RecvEnd(c))
        /\ WF_wireVars(Lost(c))

----------------------------------------------------------------------------

\* What a caller is told is what the implementation said: a success was one,
\* with all the lines of an apply shown before it; an error of the store is of
\* the first kind in its chain and keeps that kind on the way; nothing else is
\* taken for one of the store's.
AnswersTrue ==
    \A c \in Calls :
        /\ seen[c] = "done" => meant[c] = Done /\ shown[c] = printed[c]
        /\ seen[c] \in Kind => seen[c] \in meant[c].kinds
        /\ service = "store" /\ seen[c] = "plain" /\ meant[c] # Done => meant[c].kinds = {}

\* Every call ends for its caller, and where it is handled: also an apply
\* whose lines nobody reads any more.
CallsEnd ==
    \A c \in Calls :
        /\ Waiting(c) ~> ~Waiting(c)
        /\ (handler[c] \in {"handling", "worked"}) ~> (handler[c] = "ended")

\* The UI plugin cannot change anything once its Run is over.
NothingAfterRun == run = "returned" => \A c \in Calls : handler[c] \notin {"handling", "worked"}
=============================================================================

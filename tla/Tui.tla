-------------------------------- MODULE Tui --------------------------------
(***************************************************************************)
(* The terminal UI: one loop takes keys and messages one at a time.  What  *)
(* takes long runs in a goroutine of its own and answers with a message,   *)
(* which goes to the view that is active when it arrives, whichever asked. *)
(*                                                                         *)
(* Keys that only scroll are left out, and so is what the controller does  *)
(* (Editing, Components, ExportRollback, Apply, Sessions, Marketplace):    *)
(* how a call ends is left open, and so is when the store wants a login.   *)
(* The editor edits one value, whose labels never change.                  *)
(*                                                                         *)
(* Source: internal/ui/tui                                                 *)
(***************************************************************************)
EXTENDS Naturals, Bags, BagsExt

CONSTANTS
    LoginKinds,     \* what methods the store may offer, see methods
    Labels,         \* the labels of the value, see label
    Plugins,        \* what the marketplace finds
    MaxCalls,       \* bound: calls under way at once
    MaxApplies      \* bound: applies started

VARIABLES
    view,       \* activeView; "gone" once the program has quit
    help,       \* showHelp
    filtering,  \* treeView.filtering
    methods,    \* the kinds of login methods: a set of "form" and "browser"
    login,      \* loginView; the first is made before the loop runs
    label,      \* kind "text", "enum" or "collection"; asks ui.confirm; readonly
    value,      \* the value in the controller's tree
    editor,     \* editorView
    applyView,  \* running, and the number of its apply
    applies,    \* where the goroutine of each apply is
    market,     \* marketplaceView
    detail,     \* pluginDetailView
    installed,  \* installedView
    calls       \* what runs and has not answered, a bag

\* What a view keeps while it is shown; the marketplace also below a page.
\* Every view but this one is made anew when it is opened, so the state of
\* one that was left counts as blank.
screens == <<login, editor, applyView, market, detail, installed>>
around == <<help, filtering, methods, label>>
vars == <<view, around, screens, value, applies, calls>>

Views == {"login", "tree", "editor", "component", "validation", "apply",
          "export", "market", "installed", "detail", "gone"}
Values == {"old", "new", "wrong"}
ApplyId == 1..MaxApplies
NoPlugin == "none"

Call(kind) == [kind |-> kind, of |-> 0]
Call2(kind, of) == [kind |-> kind, of |-> of]

NoEditor == [was |-> "old", input |-> "old", dirty |-> FALSE, wrong |-> FALSE,
             inline |-> FALSE, confirming |-> FALSE]
NoApply == [of |-> 0, running |-> FALSE]
NewMarket == [found |-> FALSE, loading |-> FALSE, searching |-> FALSE]
NewInstalled == [listed |-> FALSE, loading |-> FALSE]
NoDetail == [of |-> NoPlugin, shows |-> NoPlugin, loading |-> FALSE]
NoLogin == [phase |-> "none", submitting |-> FALSE, first |-> FALSE]

Blank ==
    /\ editor' = NoEditor /\ applyView' = NoApply
    /\ market' = NewMarket /\ detail' = NoDetail /\ installed' = NewInstalled

\* newLoginModel: one method is taken, and one in the browser is started.
NewLogin ==
    [phase |-> IF methods = {"form", "browser"} THEN "method"
               ELSE CHOOSE m \in methods : TRUE,
     submitting |-> methods = {"browser"}, first |-> FALSE]

NoCall == Call("none")
NoCalls == [call \in {} |-> 1]
UnderWay(call) == call \in DOMAIN calls

\* A step of the loop takes an answer and makes another call.
Without(taken) == IF taken = NoCall THEN calls ELSE BagRemove(calls, taken)

Calls(taken, made) ==
    /\ calls' = IF made = NoCall THEN Without(taken) ELSE BagAdd(Without(taken), made)
    /\ BagCardinality(calls') <= MaxCalls

\* showLoginView: Init of the new view asks the browser right away.
ShowLogin(taken) ==
    /\ view' = "login" /\ Blank
    /\ login' = NewLogin
    /\ Calls(taken, IF NewLogin.submitting THEN Call("login") ELSE NoCall)

\* NewApp: the tree, or the login if the store wants one.  The login is not
\* shown by showLoginView, and Init of the app does not run its Init.
Init ==
    /\ view \in {"login", "tree"}
    /\ help = FALSE /\ filtering = FALSE
    /\ methods \in LoginKinds
    /\ login = IF view = "login" THEN [NewLogin EXCEPT !.first = TRUE] ELSE NoLogin
    /\ label \in Labels
    /\ value = "old"
    /\ editor = NoEditor
    /\ applyView = NoApply
    /\ applies = [i \in ApplyId |-> "unborn"]
    /\ market = NewMarket /\ detail = NoDetail /\ installed = NewInstalled
    /\ calls = NoCalls

-----------------------------------------------------------------------------
(* Keys that the app itself takes.                                         *)

Typing == view = "tree" /\ filtering

\* ctrl+c cancels an apply that is shown and quits otherwise; q quits only
\* from the tree, which is one of those cases.
Quit ==
    /\ view # "gone"
    /\ ~(view = "apply" /\ applyView.running)
    /\ view' = "gone" /\ Blank /\ login' = NoLogin /\ calls' = NoCalls
    /\ UNCHANGED <<around, value, applies>>

Help ==
    /\ view \in {"tree", "component"}
    /\ help' = ~help
    /\ UNCHANGED <<view, filtering, methods, label, screens, value, applies, calls>>

\* Esc closes the help first, ...
CloseHelp ==
    /\ view # "gone" /\ help
    /\ help' = FALSE
    /\ UNCHANGED <<view, filtering, methods, label, screens, value, applies, calls>>

Esc(v) == view = v /\ ~help

EscFilter ==
    /\ Esc("tree") /\ filtering
    /\ filtering' = FALSE
    /\ UNCHANGED <<view, help, methods, label, screens, value, applies, calls>>

EscDetail ==
    /\ Esc("detail")
    /\ view' = "market" /\ detail' = NoDetail
    /\ UNCHANGED <<around, login, editor, applyView, market, installed, value, applies, calls>>

\* Mutant of Leaving: an apply that runs can be left.
LeavingAnything ==
    \/ view = "editor" /\ ~editor.confirming /\ ~editor.inline
    \/ view = "market" /\ ~market.searching
    \/ view \in {"component", "validation", "export", "installed", "apply"}

\* ... views with a state of their own keep it, and an apply that runs is
\* not left; the q of an apply that has ended does the same.
Leaving ==
    \/ view = "editor" /\ ~editor.confirming /\ ~editor.inline
    \/ view = "market" /\ ~market.searching
    \/ view \in {"component", "validation", "export", "installed"}
    \/ view = "apply" /\ ~applyView.running

EscBack ==
    /\ ~help \/ view = "apply"
    /\ Leaving
    /\ view' = "tree" /\ Blank
    /\ UNCHANGED <<around, login, value, applies, calls>>

-----------------------------------------------------------------------------
(* The login view.  While it waits for an answer it ignores every key.     *)

\* Esc goes back to the methods if there are several; Enter picks one.
PickMethod ==
    /\ view = "login" /\ ~login.submitting
    /\ \/ ~help /\ methods = {"form", "browser"} /\ login.phase # "method"
          /\ login' = [login EXCEPT !.phase = "method"]
          /\ UNCHANGED calls
       \/ login.phase = "method"
          /\ login' = [login EXCEPT !.phase = "form"]
          /\ UNCHANGED calls
       \/ login.phase = "method"
          /\ login' = [login EXCEPT !.phase = "browser", !.submitting = TRUE]
          /\ Calls(NoCall, Call("login"))
    /\ UNCHANGED <<view, around, editor, applyView, market, detail, installed, value, applies>>

\* submitLogin, and the r that tries the browser again.
Submit ==
    /\ view = "login" /\ ~login.submitting /\ login.phase # "method"
    /\ login' = [login EXCEPT !.submitting = TRUE]
    /\ Calls(NoCall, Call("login"))
    /\ UNCHANGED <<view, around, editor, applyView, market, detail, installed, value, applies>>

\* loginResultMsg ends the waiting in whatever phase the view is; after a
\* login the tree is loaded.
LoginResult ==
    /\ view # "gone" /\ UnderWay(Call("login"))
    /\ login' = IF view = "login" THEN [login EXCEPT !.submitting = FALSE] ELSE login
    /\ \E made \in {NoCall, Call("load")} : Calls(Call("login"), made)
    /\ UNCHANGED <<view, around, editor, applyView, market, detail, installed, value, applies>>

-----------------------------------------------------------------------------
(* Keys in the tree.                                                       *)

TreeKey == view = "tree" /\ ~filtering

Filter ==
    /\ view = "tree"
    /\ filtering' = ~filtering
    /\ UNCHANGED <<view, help, methods, label, screens, value, applies, calls>>

OpenEditor ==
    /\ TreeKey
    /\ view' = "editor"
    /\ editor' = [NoEditor EXCEPT !.was = value, !.input = value]
    /\ UNCHANGED <<around, login, applyView, market, detail, installed, value, applies, calls>>

\* s and v ask the store right away: a screen of results or a message, or
\* the login.
SaveOrValidate ==
    /\ TreeKey
    /\ \/ view' \in {"tree", "validation"} /\ UNCHANGED <<screens, calls>>
       \/ ShowLogin(NoCall)
    /\ UNCHANGED <<around, value, applies>>

Open ==
    /\ TreeKey
    /\ \/ view' \in {"component", "export"} /\ UNCHANGED <<market, installed, calls>>
       \/ view' = "market" /\ market' = NewMarket
          /\ UNCHANGED installed /\ Calls(NoCall, Call("search"))
       \/ view' = "installed" /\ installed' = NewInstalled
          /\ UNCHANGED market /\ Calls(NoCall, Call("list"))
    /\ UNCHANGED <<around, login, editor, applyView, detail, value, applies>>

Reload ==
    /\ TreeKey
    /\ Calls(NoCall, Call("load"))
    /\ UNCHANGED <<view, around, screens, value, applies>>

\* StartApply; its output is read in batches, one call after the other.
StartApply ==
    /\ TreeKey
    /\ \E i \in ApplyId :
        /\ applies[i] = "unborn" /\ \A j \in 1..(i - 1) : applies[j] # "unborn"
        /\ applies' = [applies EXCEPT ![i] = "runs"]
        /\ applyView' = [of |-> i, running |-> TRUE]
        /\ Calls(NoCall, Call2("read", i))
    /\ view' = "apply"
    /\ UNCHANGED <<around, login, editor, market, detail, installed, value>>

\* treeLoadedMsg.  It goes to no view: where it arrives, the tree is shown
\* anew, and from the login the program starts over.
TreeLoaded ==
    /\ view # "gone" /\ UnderWay(Call("load"))
    /\ \/ /\ view' = (IF view = "login" THEN "tree" ELSE view)
          /\ login' = NoLogin
          /\ filtering' = FALSE
          /\ Calls(Call("load"), NoCall)
          /\ UNCHANGED <<editor, applyView, market, detail, installed>>
       \/ ShowLogin(Call("load")) /\ UNCHANGED filtering
       \/ Calls(Call("load"), NoCall) /\ UNCHANGED <<view, screens, filtering>>
    /\ UNCHANGED <<help, methods, label, value, applies>>

-----------------------------------------------------------------------------
(* The editor.                                                             *)

EditorKey == view = "editor" /\ ~editor.confirming

\* Typing into the line, of an enum too; the pattern and the type are
\* checked at every key.
Type(v) ==
    /\ EditorKey /\ label.kind # "collection" /\ ~label.readonly
    /\ editor' = [editor EXCEPT !.input = v, !.dirty = v # editor.was, !.wrong = v = "wrong"]
    /\ UNCHANGED <<view, around, login, applyView, market, detail, installed, value, applies, calls>>

\* j and k choose among the options, which are never wrong.  They come
\* before the check for a value that must not be changed.
Choose(v) ==
    /\ EditorKey /\ label.kind = "enum" /\ v # "wrong"
    /\ editor' = [editor EXCEPT !.input = v, !.dirty = v # editor.was]
    /\ UNCHANGED <<view, around, login, applyView, market, detail, installed, value, applies, calls>>

\* Adding, deleting and changing entries; an entry is changed inline.
EditEntry ==
    /\ EditorKey /\ label.kind = "collection" /\ ~label.readonly
    /\ \/ ~editor.inline /\ \E i, d \in BOOLEAN :
            editor' = [editor EXCEPT !.inline = i, !.dirty = @ \/ d, !.input = "new"]
       \/ editor.inline
          /\ \/ editor' = [editor EXCEPT !.inline = FALSE, !.dirty = TRUE, !.input = "new"]
             \/ ~help /\ editor' = [editor EXCEPT !.inline = FALSE]
    /\ UNCHANGED <<view, around, login, applyView, market, detail, installed, value, applies, calls>>

\* commitEditorValue: SetValue stores the input, refuses it, or wants a login.
Commit ==
    \/ /\ view' = "tree" /\ Blank
       /\ value' \in {editor.input, value}
       /\ UNCHANGED <<login, calls>>
    \/ ShowLogin(NoCall) /\ UNCHANGED value

\* Enter on a changed value stores it at once or asks first; a line that is
\* wrong stays in the editor.
MayCommit == ~editor.wrong /\ (label.asks => editor.confirming)

Enter ==
    /\ EditorKey /\ ~editor.inline
    /\ \/ ~editor.dirty /\ view' = "tree" /\ Blank /\ UNCHANGED <<value, login, calls>>
       \/ editor.dirty /\ MayCommit /\ Commit
       \/ /\ editor.dirty /\ ~editor.wrong /\ label.asks
          /\ editor' = [editor EXCEPT !.confirming = TRUE]
          /\ UNCHANGED <<view, value, login, applyView, market, detail, installed, calls>>
    /\ UNCHANGED <<around, applies>>

\* y stores the value; n and Esc give it up.
Confirm ==
    /\ view = "editor" /\ editor.confirming
    /\ \/ Commit
       \/ view' = "tree" /\ Blank /\ UNCHANGED <<value, login, calls>>
    /\ UNCHANGED <<around, applies>>

-----------------------------------------------------------------------------
(* The apply view.  The command, its pipes and its channel are in Apply.   *)

RunEnds(i) ==
    /\ applies[i] = "runs"
    /\ applies' = [applies EXCEPT ![i] = "ended"]
    /\ UNCHANGED <<view, around, screens, value, calls>>

\* The next batch is asked of the apply that is shown now, whoever sent this.
NextRead == IF view = "apply" THEN Call2("read", applyView.of) ELSE NoCall

\* A batch of lines, which may have taken the result with it (see Apply).
ApplyOutput(i) ==
    /\ view # "gone" /\ applies[i] # "unborn" /\ UnderWay(Call2("read", i))
    /\ \/ UNCHANGED applies
       \/ applies[i] = "ended" /\ applies' = [applies EXCEPT ![i] = "told"]
    /\ Calls(Call2("read", i), NextRead)
    /\ UNCHANGED <<view, around, screens, value>>

\* The result, which only one reader gets.
ApplyDone(i) ==
    /\ view # "gone" /\ applies[i] = "ended" /\ UnderWay(Call2("read", i))
    /\ applies' = [applies EXCEPT ![i] = "told"]
    /\ applyView' = IF view = "apply" THEN [applyView EXCEPT !.running = FALSE] ELSE applyView
    /\ Calls(Call2("read", i), NoCall)
    /\ UNCHANGED <<view, around, login, editor, market, detail, installed, value>>

-----------------------------------------------------------------------------
(* The marketplace, a plugin's page and the installed plugins.             *)

\* Another type or order, or the end of typing a query, asks again.
Search ==
    /\ view = "market"
    /\ \/ ~market.searching /\ market' = [market EXCEPT !.searching = TRUE] /\ UNCHANGED calls
       \/ market.searching /\ ~help /\ market' = [market EXCEPT !.searching = FALSE] /\ UNCHANGED calls
       \/ market' = [market EXCEPT !.searching = FALSE, !.loading = TRUE]
          /\ Calls(NoCall, Call("search"))
    /\ UNCHANGED <<view, around, login, editor, applyView, detail, installed, value, applies>>

\* i opens the page of the selected plugin, while a query is typed too.
OpenDetail(p) ==
    /\ view = "market" /\ market.found
    /\ view' = "detail"
    /\ detail' = [of |-> p, shows |-> NoPlugin, loading |-> TRUE]
    /\ Calls(NoCall, Call2("detail", p))
    /\ UNCHANGED <<around, login, editor, applyView, market, installed, value, applies>>

Install ==
    /\ \/ /\ view = "market" /\ ~market.searching /\ market.found
          /\ market' = [market EXCEPT !.loading = TRUE] /\ UNCHANGED detail
       \/ /\ view = "detail" /\ detail.shows # NoPlugin
          /\ detail' = [detail EXCEPT !.loading = TRUE] /\ UNCHANGED market
    /\ Calls(NoCall, Call("install"))
    /\ UNCHANGED <<view, around, login, editor, applyView, installed, value, applies>>

\* u and d change a plugin, r lists them again.
Manage ==
    /\ view = "installed"
    /\ installed' = [installed EXCEPT !.loading = TRUE]
    /\ \/ Calls(NoCall, Call("list"))
       \/ installed.listed /\ Calls(NoCall, Call("change"))
    /\ UNCHANGED <<view, around, login, editor, applyView, market, detail, value, applies>>

SearchResults ==
    /\ view # "gone" /\ UnderWay(Call("search"))
    /\ Calls(Call("search"), NoCall)
    /\ IF view = "market"
       THEN \E f \in BOOLEAN : market' = [market EXCEPT !.found = f, !.loading = FALSE]
       ELSE UNCHANGED market
    /\ UNCHANGED <<view, around, login, editor, applyView, detail, installed, value, applies>>

\* Both views take it, whichever asked.
InstallResult ==
    /\ view # "gone" /\ UnderWay(Call("install"))
    /\ Calls(Call("install"), NoCall)
    /\ market' = IF view = "market" THEN [market EXCEPT !.loading = FALSE] ELSE market
    /\ detail' = IF view = "detail" THEN [detail EXCEPT !.loading = FALSE] ELSE detail
    /\ UNCHANGED <<view, around, login, editor, applyView, installed, value, applies>>

\* Mutant of Page: an error is shown below "Loading".
PageUntilShown(p) == [detail EXCEPT !.shows = p, !.loading = p = detail.shows]

Page(p) == [detail EXCEPT !.shows = p, !.loading = FALSE]

\* The page of p, or an error, for the page that is open.
DetailResult(p) ==
    /\ view # "gone" /\ UnderWay(Call2("detail", p))
    /\ Calls(Call2("detail", p), NoCall)
    /\ IF view = "detail"
       THEN \E s \in {p, detail.shows} : detail' = Page(s)
       ELSE UNCHANGED detail
    /\ UNCHANGED <<view, around, login, editor, applyView, market, installed, value, applies>>

\* After a change the plugins are listed again.
InstalledResult(kind) ==
    /\ view # "gone" /\ UnderWay(Call(kind))
    /\ Calls(Call(kind),
             IF kind = "change" /\ view = "installed" THEN Call("list") ELSE NoCall)
    /\ IF view = "installed"
       THEN \E l \in IF kind = "list" THEN BOOLEAN ELSE {installed.listed} :
               installed' = [listed |-> l, loading |-> FALSE]
       ELSE UNCHANGED installed
    /\ UNCHANGED <<view, around, login, editor, applyView, market, detail, value, applies>>

-----------------------------------------------------------------------------
Key ==
    \/ Quit \/ Help \/ CloseHelp \/ EscFilter \/ EscDetail \/ EscBack
    \/ PickMethod \/ Submit
    \/ Filter \/ OpenEditor \/ SaveOrValidate \/ Open \/ Reload \/ StartApply
    \/ \E v \in Values : Type(v) \/ Choose(v)
    \/ EditEntry \/ Enter \/ Confirm
    \/ Search \/ Install \/ Manage
    \/ \E p \in Plugins : OpenDetail(p)

Message ==
    \/ LoginResult \/ TreeLoaded
    \/ \E i \in ApplyId : ApplyOutput(i) \/ ApplyDone(i)
    \/ SearchResults \/ InstallResult
    \/ \E p \in Plugins : DetailResult(p)
    \/ \E kind \in {"list", "change"} : InstalledResult(kind)

Next == Key \/ Message \/ \E i \in ApplyId : RunEnds(i)

Spec == Init /\ [][Next]_vars

-----------------------------------------------------------------------------
(* Properties *)

AskedOf(kind, of) == UnderWay(Call2(kind, of))
Asked(kind) == AskedOf(kind, 0)

\* Every view has what it shows: an editor asks about a change only if the
\* value wants it, edits inline only in a collection and is open nowhere
\* else; a choice of methods has several; a page and an apply have a name.
TypeOK ==
    /\ view \in Views /\ help \in BOOLEAN /\ filtering \in BOOLEAN
    /\ filtering => view \in {"tree", "login", "gone"}
    /\ view = "login" => login.phase \in methods \/ (login.phase = "method" /\ methods = {"form", "browser"})
    /\ login.submitting => login.phase # "method"
    /\ {value, editor.was, editor.input} \subseteq Values
    /\ editor # NoEditor => view = "editor"
    /\ editor.confirming => label.asks /\ editor.dirty /\ ~editor.wrong
    /\ editor.inline => label.kind = "collection" /\ ~label.readonly
    /\ applyView.of = 0 => ~applyView.running /\ view # "apply"
    /\ applyView.of # 0 => view = "apply" /\ applies[applyView.of] # "unborn"
    /\ view = "detail" => detail.of \in Plugins
    /\ detail.shows \in Plugins \cup {NoPlugin}

\* "Always consume the login result, ... so an error can never be dropped on
\* the floor (which would leave the view stuck ...)" (login.go): a login that
\* waits has a login under way, but for the one the program starts with.
LoginUnderWay == view = "login" /\ login.submitting => Asked("login") \/ login.first

\* The same of that one too.
LoginNeverStuck == view = "login" /\ login.submitting => Asked("login")

\* A page or a list that says it is loading has a call under way whose
\* answer it will take, however often it was left and opened again.
LoadingUnderWay ==
    /\ view = "detail" /\ detail.loading =>
          Asked("install") \/ \E p \in Plugins : AskedOf("detail", p)
    /\ view = "installed" /\ installed.loading => Asked("list") \/ Asked("change")

\* An apply that the screen shows as running is being read, also after the
\* output of an earlier one has arrived in its view.
RunningIsRead == view = "apply" /\ applyView.running => AskedOf("read", applyView.of)

Watched == view = "apply" /\ applyView.running /\ applies[applyView.of] = "runs"

\* "Can't leave apply while running" (app.go): nothing takes a running apply
\* off the screen but a reload that ends at the login, or the result of an
\* earlier apply that was taken off it that way.
KeepsScreen ==
    [][Watched =>
         \/ Watched'
         \/ applies'[applyView.of] # "runs"
         \/ view' = "login" /\ Asked("load")
         \/ \E i \in ApplyId : applies[i] = "ended" /\ applies'[i] = "told"]_vars

\* The editor stores no value it calls wrong, none that was to be confirmed
\* before the y, and none that is readonly, but for the options of an enum.
StoresWhatItMay ==
    [][value' # value =>
         /\ value' # "wrong"
         /\ label.asks => editor.confirming
         /\ label.readonly => label.kind = "enum"]_vars

\* "Prevents users from modifying this value in the UI" (labels/builtin.go).
ReadonlyStays == [][label.readonly => value' = value]_vars
=============================================================================

------------------------------- MODULE Apply -------------------------------
(***************************************************************************)
(* Running the apply command: the pre-checks and the command with whatever *)
(* they start, the two scanners of their output, the goroutine that waits  *)
(* for them, the watcher that stops them and the frontend that shows what  *)
(* they print.                                                             *)
(*                                                                         *)
(* Lines are only counted, by stream: the scanners and the channel keep    *)
(* the order of a stream's lines, so what can be lost is a number of them. *)
(* Which stream's line leaves the channel next is left open.               *)
(*                                                                         *)
(* Source: internal/core/apply.go, internal/ui/driver.go,                  *)
(*         internal/ui/adapter.go, internal/cli/apply.go,                  *)
(*         internal/ui/tui/apply_view.go; the watcher and the processes    *)
(*         from how apply.go uses os/exec.                                 *)
(***************************************************************************)
EXTENDS Naturals

CONSTANTS
    Processes,      \* what a check or the command may start, and
    Shell,          \*   the `sh -c` among them that zhi starts itself
    Cases,          \* the runs to look at, see Case
    PipeSize,       \* how many lines an unread pipe takes
    ChannelSize,    \* the capacity of the output channel
    BatchSize       \* how many lines the TUI shows at once

Streams == {"stdout", "stderr"}

\* What goes through the channel: lines of the streams, and zhi's own about
\* a pre-check that starts or a scanner that fails.
Lines == Streams \cup {"note"}

\* "range":  the CLI and the adapter of the other UIs read the channel until
\*           it is closed, and then the result
\* "select": the TUI reads both at once
Kinds == {"range", "select"}

\* endless:  does not exit by itself        ignores:  survives SIGTERM
\* detached: left the process group         quiet:    has redirected its output
Temper == [Processes -> SUBSET {"endless", "ignores", "detached", "quiet"}]

\* A target with so many pre-checks, the processes that they and the command
\* start, the lines that these write in all, and the frontend.
Case == [temper : Temper, kind : Kinds, checks : Nat, writes : Nat]

ASSUME ApplyAssumption ==
    /\ Shell \in Processes
    /\ Cases \subseteq Case
    /\ \A c \in Cases : "detached" \notin c.temper[Shell]
    /\ {PipeSize, ChannelSize, BatchSize} \subseteq Nat \ {0}

VARIABLES
    given,          \* which case this run is; it never changes
    stage,          \* the pre-check that runs, checks + 1 for the command
    pc,             \* where the goroutine of Apply is
    result,         \* what it is about to return or has returned
    ctx,            \* "done" once the user cancels or the timeout strikes
    watch,          \* what the watcher of the running command has done
    proc,           \* the processes; one in a stream's name is writing to it
    status,         \* how the shell ended
    left,           \* how many lines may still be written
    pipe, junk,     \* what is unread: lines, and what follows one too long
    scanner,        \* where each stream's scanner is
    channel, closed,\* the output channel
    reading,        \* where the frontend is
    batch,          \* what the TUI has read and not shown
    shown,          \* what the frontend has shown, and
    outcome,        \*   the result it has shown
    due             \* history: the lines the frontend has to show

goroutine == <<stage, pc, result>>
processes == <<proc, status, left>>
pipes == <<pipe, junk, due>>
frontend == <<reading, batch, shown, outcome>>
vars == <<given, goroutine, ctx, watch, processes, pipes, scanner, channel, closed, frontend>>

temper == given.temper
kind == given.kind
Checks == given.checks

Results == {"none", "ok", "failed", "error"}

Total(lines) == lines["stdout"] + lines["stderr"] + lines["note"]
None == [l \in Lines |-> 0]

RunTyped ==
    /\ given \in Cases
    /\ stage \in 1 .. Checks + 1
    /\ pc \in {"label", "start", "run", "close", "publish", "published", "taken"}
    /\ result \in Results /\ outcome \in Results
    /\ ctx \in {"live", "done"}
    /\ watch \in {"watching", "termed", "killed"}
    /\ closed \in BOOLEAN
    /\ reading \in {"reading", "deliver", "last", "finished"}

ProcessesTyped ==
    /\ proc \in [Processes -> {"unborn", "running", "ended"} \cup Streams]
    /\ status \in {"none", "zero", "nonzero", "signal"}
    /\ left \in 0 .. given.writes

PipesTyped ==
    /\ pipe \in [Streams -> Nat] /\ junk \in [Streams -> Nat] /\ due \in [Streams -> Nat]
    /\ \A s \in Streams : pipe[s] + junk[s] <= PipeSize
    /\ scanner \in [Streams -> {"scan", "send", "complain", "drain", "done"}]

LinesTyped ==
    /\ channel \in [Lines -> Nat] /\ batch \in [Lines -> Nat] /\ shown \in [Lines -> Nat]
    /\ Total(channel) <= ChannelSize
    /\ Total(batch) <= BatchSize

TypeOK == RunTyped /\ ProcessesTyped /\ PipesTyped /\ LinesTyped

-----------------------------------------------------------------------------
(* The processes.                                                          *)

Alive == {p \in Processes : proc[p] \notin {"unborn", "ended"}}

\* Who has the write ends of the pipes open.
Holders == {p \in Alive : "quiet" \notin temper[p]}

\* A process calls write(2) and blocks until the pipe has room.
Write(p, s) ==
    /\ pc = "run" /\ proc[p] = "running" /\ "quiet" \notin temper[p]
    /\ left > 0
    /\ left' = left - 1
    /\ proc' = [proc EXCEPT ![p] = s]
    /\ UNCHANGED <<given, goroutine, ctx, watch, status, pipes, scanner, channel, closed, frontend>>

\* Whatever follows a line that is too long is lost with it.
Spoiled(s) == junk[s] > 0 \/ scanner[s] \in {"complain", "drain"}

Written(p, s) ==
    /\ proc[p] = s
    /\ pipe[s] + junk[s] < PipeSize
    /\ \/ /\ ~Spoiled(s)
          /\ pipe' = [pipe EXCEPT ![s] = @ + 1]
          /\ due' = [due EXCEPT ![s] = @ + 1]
          /\ UNCHANGED junk
       \/ \* more of the same, or a line longer than maxScanLineSize
          /\ junk' = [junk EXCEPT ![s] = @ + 1]
          /\ UNCHANGED <<pipe, due>>
    /\ proc' = [proc EXCEPT ![p] = "running"]
    /\ UNCHANGED <<given, goroutine, ctx, watch, status, left, scanner, channel, closed, frontend>>

\* A process starts another one, which inherits what output it has.
Spawn(p, q) ==
    /\ pc = "run" /\ proc[p] = "running" /\ proc[q] = "unborn"
    /\ "quiet" \in temper[p] => "quiet" \in temper[q]
    /\ proc' = [proc EXCEPT ![q] = "running"]
    /\ UNCHANGED <<given, goroutine, ctx, watch, status, left, pipes, scanner, channel, closed, frontend>>

Exit(p) ==
    /\ pc = "run" /\ proc[p] = "running" /\ "endless" \notin temper[p]
    /\ proc' = [proc EXCEPT ![p] = "ended"]
    /\ IF p = Shell THEN status' \in {"zero", "nonzero"} ELSE UNCHANGED status
    /\ UNCHANGED <<given, goroutine, ctx, watch, left, pipes, scanner, channel, closed, frontend>>

-----------------------------------------------------------------------------
(* Stopping them.                                                          *)

\* Ctrl+C, a client that goes away, the timeout that the command has.
Cancel ==
    /\ ctx = "live" /\ outcome = "none"
    /\ ctx' = "done"
    /\ UNCHANGED <<given, goroutine, watch, processes, pipes, scanner, channel, closed, frontend>>

Stop(P) ==
    /\ proc' = [p \in Processes |-> IF p \in P THEN "ended" ELSE proc[p]]
    /\ status' = IF Shell \in P THEN "signal" ELSE status
    /\ UNCHANGED <<given, goroutine, ctx, left, pipes, scanner, channel, closed, frontend>>

\* Mutant of Group: the shell is signalled and not its process group.
GroupShell == Alive \cap {Shell}

Group == {p \in Alive : "detached" \notin temper[p]}

\* cmd.Cancel: SIGTERM to the process group.
Terminate ==
    /\ pc = "run" /\ ctx = "done" /\ watch = "watching"
    /\ watch' = "termed"
    /\ Stop({p \in Group : "ignores" \notin temper[p]})

\* cmd.WaitDelay: SIGKILL to the shell alone.  The pipes belong to apply.go,
\* not to the command, so nothing closes them.
Kill ==
    /\ pc = "run" /\ watch = "termed"
    /\ watch' = "killed"
    /\ Stop(Alive \cap {Shell})

-----------------------------------------------------------------------------
(* The scanners, streamPipe.                                               *)

Room == Total(channel) < ChannelSize

Scan(s) ==
    /\ scanner[s] = "scan"
    /\ \/ /\ pipe[s] > 0
          /\ pipe' = [pipe EXCEPT ![s] = @ - 1]
          /\ scanner' = [scanner EXCEPT ![s] = "send"]
          /\ UNCHANGED junk
       \/ /\ pipe[s] = 0 /\ junk[s] > 0
          /\ junk' = [junk EXCEPT ![s] = @ - 1]
          /\ scanner' = [scanner EXCEPT ![s] = "complain"]
          /\ UNCHANGED pipe
    /\ UNCHANGED <<given, goroutine, ctx, watch, processes, due, channel, closed, frontend>>

\* Mutant of AfterComplaint: the rest of the stream is not drained.
AfterComplaintDone == "done"

AfterComplaint == "drain"

Send(s) ==
    /\ scanner[s] \in {"send", "complain"} /\ Room
    /\ LET l == IF scanner[s] = "send" THEN s ELSE "note" IN
          channel' = [channel EXCEPT ![l] = @ + 1]
    /\ scanner' = [scanner EXCEPT ![s] = IF @ = "send" THEN "scan" ELSE AfterComplaint]
    /\ UNCHANGED <<given, goroutine, ctx, watch, processes, pipes, closed, frontend>>

Drain(s) ==
    /\ scanner[s] = "drain" /\ junk[s] > 0
    /\ junk' = [junk EXCEPT ![s] = @ - 1]
    /\ UNCHANGED <<given, goroutine, ctx, watch, processes, pipe, due, scanner, channel, closed, frontend>>

Eof(s) ==
    /\ scanner[s] \in {"scan", "drain"}
    /\ pipe[s] = 0 /\ junk[s] = 0 /\ Holders = {}
    /\ scanner' = [scanner EXCEPT ![s] = "done"]
    /\ UNCHANGED <<given, goroutine, ctx, watch, processes, pipes, channel, closed, frontend>>

-----------------------------------------------------------------------------
(* RunPreChecks and Apply, one after the other on one channel.             *)

First(st) == IF st <= Checks THEN "label" ELSE "start"

\* RunPreChecks announces the check.
Label ==
    /\ pc = "label" /\ Room
    /\ channel' = [channel EXCEPT !["note"] = @ + 1]
    /\ pc' = "start"
    /\ UNCHANGED <<given, stage, result, ctx, watch, processes, pipes, scanner, closed, frontend>>

\* cmd.Start refuses when the context is done, and may fail anyway.
StartFails ==
    /\ pc = "start"
    /\ result' = "error"
    /\ pc' = "close"
    /\ UNCHANGED <<given, stage, ctx, watch, processes, pipes, scanner, channel, closed, frontend>>

Start ==
    /\ pc = "start" /\ ctx = "live"
    /\ pc' = "run"
    /\ watch' = "watching"
    /\ proc' = [p \in Processes |-> IF p = Shell THEN "running" ELSE "unborn"]
    /\ status' = "none"
    /\ scanner' = [s \in Streams |-> "scan"]
    /\ UNCHANGED <<given, stage, result, ctx, left, pipes, channel, closed, frontend>>

\* Mutant of AllScanned: one of the two <-done is missing.
AnyScanned == \E s \in Streams : scanner[s] = "done"

AllScanned == \A s \in Streams : scanner[s] = "done"

\* What cmd.Wait says: the shell's status comes before an interruption.
Waited ==
    IF status \in {"nonzero", "signal"} THEN "failed"
    ELSE IF watch # "watching" THEN "error" ELSE "ok"

Checking == stage <= Checks

\* Both scanners are waited for before the process is.
Collect ==
    /\ pc = "run" /\ AllScanned /\ status # "none"
    /\ IF Checking /\ Waited = "ok"
       THEN /\ stage' = stage + 1
            /\ pc' = First(stage + 1)
            /\ UNCHANGED result
       ELSE /\ result' = IF Checking THEN "error" ELSE Waited
            /\ pc' = "close"
            /\ UNCHANGED stage
    /\ UNCHANGED <<given, ctx, watch, processes, pipes, scanner, channel, closed, frontend>>

\* The channel is closed on every path, and the result sent after that.
Close ==
    /\ pc = "close"
    /\ closed' = TRUE
    /\ pc' = "publish"
    /\ UNCHANGED <<given, stage, result, ctx, watch, processes, pipes, scanner, channel, frontend>>

Publish ==
    /\ pc = "publish"
    /\ pc' = "published"
    /\ UNCHANGED <<given, stage, result, ctx, watch, processes, pipes, scanner, channel, closed, frontend>>

-----------------------------------------------------------------------------
(* The frontend.                                                           *)

backend == <<given, stage, result, ctx, watch, processes, pipes, scanner, closed>>

\* for line := range output
Range(l) ==
    /\ kind = "range" /\ reading = "reading" /\ channel[l] > 0
    /\ channel' = [channel EXCEPT ![l] = @ - 1]
    /\ shown' = [shown EXCEPT ![l] = @ + 1]
    /\ UNCHANGED <<backend, pc, reading, batch, outcome>>

Drained == closed /\ Total(channel) = 0

RangeEnds ==
    /\ kind = "range" /\ reading = "reading" /\ Drained
    /\ reading' = "last"
    /\ UNCHANGED <<backend, pc, channel, batch, shown, outcome>>

\* Reading the result once the channel is closed: a receive that blocks
\* until there is one.
Last ==
    /\ reading = "last" /\ pc = "published"
    /\ pc' = "taken"
    /\ outcome' = result
    /\ reading' = "finished"
    /\ UNCHANGED <<backend, channel, batch, shown>>

\* readOutput selects among a line, the close, its timer and the result:
\* whichever is ready.
SelectLine(l) ==
    /\ kind = "select" /\ reading = "reading" /\ channel[l] > 0
    /\ channel' = [channel EXCEPT ![l] = @ - 1]
    /\ batch' = [batch EXCEPT ![l] = @ + 1]
    /\ reading' = IF Total(batch') >= BatchSize THEN "deliver" ELSE "reading"
    /\ UNCHANGED <<backend, pc, shown, outcome>>

SelectClose ==
    /\ kind = "select" /\ reading = "reading" /\ Drained
    /\ reading' = IF batch # None THEN "deliver" ELSE "last"
    /\ UNCHANGED <<backend, pc, channel, batch, shown, outcome>>

SelectTimer ==
    /\ kind = "select" /\ reading = "reading" /\ batch # None
    /\ reading' = "deliver"
    /\ UNCHANGED <<backend, pc, channel, batch, shown, outcome>>

\* A batch goes first; the result that was received with it is forgotten.
SelectResult ==
    /\ kind = "select" /\ reading = "reading" /\ pc = "published"
    /\ pc' = "taken"
    /\ IF batch # None
       THEN reading' = "deliver" /\ UNCHANGED outcome
       ELSE reading' = "finished" /\ outcome' = result
    /\ UNCHANGED <<backend, channel, batch, shown>>

\* UpdateApply shows the batch and reads on.
Deliver ==
    /\ reading = "deliver"
    /\ shown' = [l \in Lines |-> shown[l] + batch[l]]
    /\ batch' = None
    /\ reading' = "reading"
    /\ UNCHANGED <<backend, pc, channel, outcome>>

-----------------------------------------------------------------------------
Init ==
    /\ given \in Cases
    /\ stage = 1 /\ pc = First(1) /\ result = "none"
    /\ ctx = "live" /\ watch = "watching"
    /\ proc = [p \in Processes |-> "unborn"]
    /\ status = "none" /\ left = given.writes
    /\ pipe = [s \in Streams |-> 0] /\ junk = [s \in Streams |-> 0]
    /\ due = [s \in Streams |-> 0]
    /\ scanner = [s \in Streams |-> "done"]
    /\ channel = None /\ closed = FALSE
    /\ reading = "reading" /\ batch = None /\ shown = None /\ outcome = "none"

Process(p) ==
    \/ Exit(p)
    \/ \E s \in Streams : Write(p, s) \/ Written(p, s)
    \/ \E q \in Processes : Spawn(p, q)
Watcher == Terminate \/ Kill
Scanner(s) == Scan(s) \/ Send(s) \/ Drain(s) \/ Eof(s)
Runner == Label \/ StartFails \/ Start \/ Collect \/ Close \/ Publish
Frontend ==
    \/ \E l \in Lines : Range(l) \/ SelectLine(l)
    \/ RangeEnds \/ SelectClose \/ SelectTimer \/ SelectResult \/ Deliver \/ Last

Next ==
    \/ \E p \in Processes : Process(p)
    \/ Cancel \/ Watcher
    \/ \E s \in Streams : Scanner(s)
    \/ Runner \/ Frontend

\* Goroutines run, and the kernel completes a write when there is room and
\* ends a process that wants to exit.  Nobody has to cancel, nothing has to
\* write.
Fairness ==
    /\ \A p \in Processes : WF_vars(Exit(p)) /\ WF_vars(\E s \in Streams : Written(p, s))
    /\ WF_vars(Watcher) /\ WF_vars(Runner) /\ WF_vars(Frontend)
    /\ \A s \in Streams : WF_vars(Scanner(s))

Spec == Init /\ [][Next]_vars /\ Fairness

-----------------------------------------------------------------------------
(* Properties.                                                             *)

\* No scanner can send on the channel once it is closed, which would panic,
\* and nothing holds the pipes any more: "Drain both scanners to EOF before
\* calling Wait" (Apply).
NothingAfterClose == closed => Holders = {} /\ \A s \in Streams : scanner[s] = "done"

\* When the CLI or the adapter reports the result it has shown every line
\* of every process, up to one that is too long.
AllOutputShown ==
    kind = "range" /\ reading = "finished" => \A s \in Streams : shown[s] = due[s]

\* A pre-check's processes have let go of its pipes before the next check
\* or the command starts, so their outputs do not mix.
NextStage == stage' # stage => Holders = {} /\ \A s \in Streams : pipe[s] + junk[s] = 0
ChecksDoNotMix == [][NextStage]_vars

AllEnd == \A p \in Processes : "endless" \notin temper[p]

\* Unless a process runs on for ever, the run ends and its result is shown:
\* no line is so long and no channel so full that "the child process is
\* never blocked writing into a full, unread pipe" fails (streamPipe).
RunsEnd == (kind = "range" /\ AllEnd) ~> reading = "finished"

\* What a cancelled context can stop: SIGTERM reaches everything that keeps
\* the pipes open, and nobody is left to start more of it.
Stoppable ==
    \A p \in Processes \ {Shell} : "endless" \in temper[p] =>
        \/ "quiet" \in temper[p]
        \/ temper[p] \cap {"ignores", "detached"} = {} /\ \A q \in Processes : "ignores" \notin temper[q]

\* A cancelled run of what can be stopped ends.
CancelEnds == (kind = "range" /\ ctx = "done" /\ Stoppable) ~> reading = "finished"

\* Every cancelled run ends: "If it doesn't exit within a grace period,
\* SIGKILL is sent" (docs/user-guide/apply.md), "before Go closes pipes and
\* sends SIGKILL" (Apply).
CancelAlwaysEnds == (kind = "range" /\ ctx = "done") ~> reading = "finished"

\* The TUI's view ends too: "the view can never wedge waiting on a close"
\* (readOutput).
ViewEnds == (kind = "select" /\ AllEnd) ~> reading = "finished"
=============================================================================

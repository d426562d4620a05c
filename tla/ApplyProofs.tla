---------------------------- MODULE ApplyProofs ----------------------------
(***************************************************************************)
(* What holds of an apply run for any processes, however they behave, any  *)
(* number of pre-checks and lines, and any size of pipe, channel and batch.*)
(***************************************************************************)
EXTENDS Apply, TLAPS

(* The TUI stops reading when its batch is full.                           *)
BatchOpen == reading = "reading" => Total(batch) < BatchSize

(* A scanner that is done has found the end of its pipe, and the goroutine *)
(* leaves a check or the command only when both are.  Whoever writes has   *)
(* the pipe open.                                                          *)
ScannedOut(s) == scanner[s] = "done" => pipe[s] = 0 /\ junk[s] = 0 /\ Holders = {}
WritersHold == \A p \in Processes : proc[p] \in Streams => "quiet" \notin temper[p]
Scanned ==
    /\ WritersHold
    /\ \A s \in Streams : ScannedOut(s)
    /\ pc # "run" => AllScanned

(* The channel is closed last of all.                                      *)
ClosedLast == closed => pc \in {"publish", "published", "taken"}

(* A line is shown, in a batch, in the channel, with its scanner or in the *)
(* pipe.                                                                   *)
InScanner(s) == IF scanner[s] = "send" THEN 1 ELSE 0
Conserved ==
    \A s \in Streams : due[s] = shown[s] + batch[s] + channel[s] + InScanner(s) + pipe[s]

(* A frontend that ranges over the channel takes no batches, and goes on   *)
(* to the result when the channel is closed and empty.                     *)
RangeToEnd ==
    kind = "range" =>
        /\ \A l \in Lines : batch[l] = 0
        /\ reading \in {"last", "finished"} => Drained

TypeInv == TypeOK /\ BatchOpen
Inv == TypeInv /\ Scanned /\ ClosedLast /\ Conserved /\ RangeToEnd

-----------------------------------------------------------------------------
(* Types.                                                                  *)

LEMMA Constants ==
    /\ Shell \in Processes
    /\ PipeSize \in Nat \ {0} /\ ChannelSize \in Nat \ {0} /\ BatchSize \in Nat \ {0}
    /\ \A c \in Cases : c.checks \in Nat /\ c.writes \in Nat
BY ApplyAssumption DEF Case

LEMMA AllLines == "stdout" \in Lines /\ "stderr" \in Lines /\ "note" \in Lines
BY DEF Lines, Streams

LEMMA RunStep == RunTyped /\ [Next]_vars => RunTyped'
<1> SUFFICES ASSUME RunTyped, [Next]_vars PROVE RunTyped'
  OBVIOUS
<1>1. ASSUME Cancel
      PROVE  RunTyped'
  BY <1>1 DEF Cancel, RunTyped, Checks, Results, goroutine, frontend
<1>2. ASSUME Terminate
      PROVE  RunTyped'
  BY <1>2 DEF Terminate, Stop, RunTyped, Checks, Results, goroutine, frontend
<1>3. ASSUME Kill
      PROVE  RunTyped'
  BY <1>3 DEF Kill, Stop, RunTyped, Checks, Results, goroutine, frontend
<1>4. ASSUME Label
      PROVE  RunTyped'
  BY <1>4 DEF Label, RunTyped, Checks, Results, frontend
<1>5. ASSUME StartFails
      PROVE  RunTyped'
  BY <1>5 DEF StartFails, RunTyped, Checks, Results, frontend
<1>6. ASSUME Start
      PROVE  RunTyped'
  BY <1>6 DEF Start, RunTyped, Checks, Results, frontend
<1>7. ASSUME Collect
      PROVE  RunTyped'
  BY <1>7, Constants DEF Collect, Checking, First, Waited, RunTyped, Checks,
       Results, frontend
<1>8. ASSUME Close
      PROVE  RunTyped'
  BY <1>8 DEF Close, RunTyped, Checks, Results, frontend
<1>9. ASSUME Publish
      PROVE  RunTyped'
  BY <1>9 DEF Publish, RunTyped, Checks, Results, frontend
<1>10. ASSUME RangeEnds
      PROVE  RunTyped'
  BY <1>10 DEF RangeEnds, RunTyped, Checks, Results, backend
<1>11. ASSUME Last
      PROVE  RunTyped'
  BY <1>11 DEF Last, RunTyped, Checks, Results, backend
<1>12. ASSUME NEW l \in Lines, SelectLine(l)
      PROVE  RunTyped'
  BY <1>12 DEF SelectLine, RunTyped, Checks, Results, backend
<1>13. ASSUME SelectClose
      PROVE  RunTyped'
  BY <1>13 DEF SelectClose, RunTyped, Checks, Results, backend
<1>14. ASSUME SelectTimer
      PROVE  RunTyped'
  BY <1>14 DEF SelectTimer, RunTyped, Checks, Results, backend
<1>15. ASSUME SelectResult
      PROVE  RunTyped'
  BY <1>15 DEF SelectResult, RunTyped, Checks, Results, backend
<1>16. ASSUME Deliver
      PROVE  RunTyped'
  BY <1>16 DEF Deliver, RunTyped, Checks, Results, backend
<1>17. ASSUME \/ (\E p \in Processes : Exit(p))
         \/ (\E p \in Processes, s \in Streams : Write(p, s))
         \/ (\E p \in Processes, s \in Streams : Written(p, s))
         \/ (\E p \in Processes, q \in Processes : Spawn(p, q))
         \/ (\E s \in Streams : Scan(s)) \/ (\E s \in Streams : Send(s))
         \/ (\E s \in Streams : Drain(s)) \/ (\E s \in Streams : Eof(s))
         \/ (\E l \in Lines : Range(l)) \/ UNCHANGED vars
      PROVE  UNCHANGED <<given, goroutine, ctx, watch, closed, reading, outcome>>
  BY <1>17 DEF Exit, Write, Written, Spawn, Scan, Send, Drain, Eof, Range,
       Stop, vars, goroutine, frontend, backend
<1>18. CASE UNCHANGED <<given, goroutine, ctx, watch, closed, reading, outcome>>
  BY <1>18 DEF RunTyped, Checks, Results, goroutine
<1> QED BY <1>1, <1>2, <1>3, <1>4, <1>5, <1>6, <1>7, <1>8, <1>9, <1>10, <1>11,
     <1>12, <1>13, <1>14, <1>15, <1>16, <1>17, <1>18 DEF Next, Process,
     Watcher, Scanner, Runner, Frontend

LEMMA ProcessesStep == RunTyped /\ ProcessesTyped /\ [Next]_vars => ProcessesTyped'
<1> SUFFICES ASSUME RunTyped /\ ProcessesTyped, [Next]_vars PROVE ProcessesTyped'
  OBVIOUS
<1>1. ASSUME NEW p \in Processes, Exit(p)
      PROVE  ProcessesTyped'
  BY <1>1 DEF Exit, ProcessesTyped
<1>2. ASSUME NEW p \in Processes, NEW s \in Streams, Write(p, s)
      PROVE  ProcessesTyped'
  BY <1>2, Constants DEF Write, RunTyped, ProcessesTyped
<1>3. ASSUME NEW p \in Processes, NEW s \in Streams, Written(p, s)
      PROVE  ProcessesTyped'
  BY <1>3 DEF Written, ProcessesTyped
<1>4. ASSUME NEW p \in Processes, NEW q \in Processes, Spawn(p, q)
      PROVE  ProcessesTyped'
  BY <1>4 DEF Spawn, ProcessesTyped
<1>5. ASSUME Terminate
      PROVE  ProcessesTyped'
  BY <1>5 DEF Terminate, Stop, ProcessesTyped
<1>6. ASSUME Kill
      PROVE  ProcessesTyped'
  BY <1>6 DEF Kill, Stop, ProcessesTyped
<1>7. ASSUME Start
      PROVE  ProcessesTyped'
  BY <1>7 DEF Start, ProcessesTyped
<1>8. ASSUME \/ Cancel \/ (\E s \in Streams : Scan(s))
         \/ (\E s \in Streams : Send(s))
         \/ (\E s \in Streams : Drain(s)) \/ (\E s \in Streams : Eof(s))
         \/ Label \/ StartFails \/ Collect \/ Close \/ Publish
         \/ (\E l \in Lines : Range(l)) \/ RangeEnds \/ Last
         \/ (\E l \in Lines : SelectLine(l)) \/ SelectClose
         \/ SelectTimer \/ SelectResult \/ Deliver \/ UNCHANGED vars
      PROVE  UNCHANGED <<given, processes>>
  BY <1>8 DEF Cancel, Scan, Send, Drain, Eof, Label, StartFails, Collect,
       Close, Publish, Range, RangeEnds, Last, SelectLine, SelectClose,
       SelectTimer, SelectResult, Deliver, Stop, vars, processes, backend
<1>9. CASE UNCHANGED <<given, processes>>
  BY <1>9 DEF ProcessesTyped, processes
<1> QED BY <1>1, <1>2, <1>3, <1>4, <1>5, <1>6, <1>7, <1>8, <1>9 DEF Next,
     Process, Watcher, Scanner, Runner, Frontend

LEMMA PipesStep == PipesTyped /\ [Next]_vars => PipesTyped'
<1> SUFFICES ASSUME PipesTyped, [Next]_vars PROVE PipesTyped'
  OBVIOUS
<1>1. ASSUME NEW p \in Processes, NEW s \in Streams, Written(p, s)
      PROVE  PipesTyped'
  BY <1>1, Constants DEF Written, PipesTyped
<1>2. ASSUME NEW s \in Streams, Scan(s)
      PROVE  PipesTyped'
  <2>1. /\ pipe[s] \in Nat /\ (pipe[s] > 0 => pipe[s] - 1 \in Nat)
        /\ junk[s] \in Nat /\ (junk[s] > 0 => junk[s] - 1 \in Nat)
    BY DEF PipesTyped
  <2>2. CASE pipe[s] > 0 /\ pipe' = [pipe EXCEPT ![s] = @ - 1] /\ UNCHANGED junk
    BY <1>2, <2>1, <2>2, Constants DEF Scan, PipesTyped
  <2>3. CASE junk[s] > 0 /\ junk' = [junk EXCEPT ![s] = @ - 1] /\ UNCHANGED pipe
    BY <1>2, <2>1, <2>3, Constants DEF Scan, PipesTyped
  <2> QED BY <1>2, <2>2, <2>3 DEF Scan
<1>3. ASSUME NEW s \in Streams, Send(s)
      PROVE  PipesTyped'
  BY <1>3 DEF Send, AfterComplaint, PipesTyped, pipes
<1>4. ASSUME NEW s \in Streams, Drain(s)
      PROVE  PipesTyped'
  <2>1. junk[s] \in Nat /\ junk[s] - 1 \in Nat
    BY <1>4 DEF Drain, PipesTyped
  <2> QED BY <1>4, <2>1, Constants DEF Drain, PipesTyped
<1>5. ASSUME NEW s \in Streams, Eof(s)
      PROVE  PipesTyped'
  BY <1>5 DEF Eof, PipesTyped, pipes
<1>6. ASSUME Start
      PROVE  PipesTyped'
  BY <1>6 DEF Start, PipesTyped, pipes
<1>7. ASSUME \/ (\E p \in Processes : Exit(p))
         \/ (\E p \in Processes, s \in Streams : Write(p, s))
         \/ (\E p \in Processes, q \in Processes : Spawn(p, q))
         \/ Cancel \/ Terminate \/ Kill \/ Label \/ StartFails
         \/ Collect \/ Close \/ Publish \/ (\E l \in Lines : Range(l))
         \/ RangeEnds \/ Last \/ (\E l \in Lines : SelectLine(l))
         \/ SelectClose \/ SelectTimer \/ SelectResult \/ Deliver \/ UNCHANGED vars
      PROVE  UNCHANGED <<pipes, scanner>>
  BY <1>7 DEF Exit, Write, Spawn, Cancel, Terminate, Kill, Label, StartFails,
       Collect, Close, Publish, Range, RangeEnds, Last, SelectLine,
       SelectClose, SelectTimer, SelectResult, Deliver, Stop, vars, pipes,
       backend
<1>8. CASE UNCHANGED <<pipes, scanner>>
  BY <1>8 DEF PipesTyped, pipes
<1> QED BY <1>1, <1>2, <1>3, <1>4, <1>5, <1>6, <1>7, <1>8 DEF Next, Process,
     Watcher, Scanner, Runner, Frontend

LEMMA LinesStep == LinesTyped /\ BatchOpen /\ [Next]_vars => (LinesTyped /\ BatchOpen)'
<1> SUFFICES ASSUME LinesTyped /\ BatchOpen, [Next]_vars PROVE (LinesTyped /\ BatchOpen)'
  OBVIOUS
<1>1. ASSUME NEW s \in Streams, Send(s)
      PROVE  (LinesTyped /\ BatchOpen)'
  <2>1. PICK l \in Lines : channel' = [channel EXCEPT ![l] = @ + 1]
    BY <1>1, AllLines DEF Send, Lines
  <2> QED BY <1>1, <2>1, Constants, AllLines DEF Send, Room, LinesTyped, BatchOpen, Total, frontend
<1>2. ASSUME Label
      PROVE  (LinesTyped /\ BatchOpen)'
  BY <1>2, Constants, AllLines DEF Label, Room, LinesTyped, BatchOpen, Total,
       frontend
<1>3. ASSUME NEW l \in Lines, Range(l)
      PROVE  (LinesTyped /\ BatchOpen)'
  BY <1>3, Constants, AllLines DEF Range, LinesTyped, BatchOpen, Total
<1>4. ASSUME RangeEnds
      PROVE  (LinesTyped /\ BatchOpen)'
  BY <1>4, Constants, AllLines DEF RangeEnds, LinesTyped, BatchOpen, Total
<1>5. ASSUME Last
      PROVE  (LinesTyped /\ BatchOpen)'
  BY <1>5, Constants, AllLines DEF Last, LinesTyped, BatchOpen, Total
<1>6. ASSUME NEW l \in Lines, SelectLine(l)
      PROVE  (LinesTyped /\ BatchOpen)'
  BY <1>6, Constants, AllLines DEF SelectLine, LinesTyped, BatchOpen, Total
<1>7. ASSUME SelectClose
      PROVE  (LinesTyped /\ BatchOpen)'
  BY <1>7, Constants, AllLines DEF SelectClose, None, LinesTyped, BatchOpen,
       Total
<1>8. ASSUME SelectTimer
      PROVE  (LinesTyped /\ BatchOpen)'
  BY <1>8, Constants, AllLines DEF SelectTimer, None, LinesTyped, BatchOpen,
       Total
<1>9. ASSUME SelectResult
      PROVE  (LinesTyped /\ BatchOpen)'
  BY <1>9, Constants, AllLines DEF SelectResult, None, LinesTyped, BatchOpen,
       Total
<1>10. ASSUME Deliver
      PROVE  (LinesTyped /\ BatchOpen)'
  BY <1>10, Constants, AllLines DEF Deliver, None, LinesTyped, BatchOpen, Total
<1>11. ASSUME \/ (\E p \in Processes : Exit(p))
         \/ (\E p \in Processes, s \in Streams : Write(p, s))
         \/ (\E p \in Processes, s \in Streams : Written(p, s))
         \/ (\E p \in Processes, q \in Processes : Spawn(p, q))
         \/ Cancel \/ Terminate \/ Kill \/ (\E s \in Streams : Scan(s))
         \/ (\E s \in Streams : Drain(s)) \/ (\E s \in Streams : Eof(s))
         \/ StartFails \/ Start \/ Collect \/ Close \/ Publish \/ UNCHANGED vars
      PROVE  UNCHANGED <<channel, batch, shown, reading>>
  BY <1>11 DEF Exit, Write, Written, Spawn, Cancel, Terminate, Kill, Scan,
       Drain, Eof, StartFails, Start, Collect, Close, Publish, Stop, vars,
       frontend
<1>12. CASE UNCHANGED <<channel, batch, shown, reading>>
  BY <1>12 DEF LinesTyped, BatchOpen, Total
<1> QED BY <1>1, <1>2, <1>3, <1>4, <1>5, <1>6, <1>7, <1>8, <1>9, <1>10, <1>11,
     <1>12 DEF Next, Process, Watcher, Scanner, Runner, Frontend

LEMMA TypeInit == Init => TypeInv
<1> SUFFICES ASSUME Init PROVE TypeInv
  OBVIOUS
<1> USE Constants, AllLines DEF Init
<1>1. RunTyped
  <2>1. given.checks \in Nat
    OBVIOUS
  <2>2. stage \in 1 .. Checks + 1
    BY <2>1 DEF Checks
  <2>3. pc \in {"label", "start"}
    BY DEF First
  <2> QED BY <2>2, <2>3 DEF RunTyped, Results
<1>2. ProcessesTyped
  BY DEF ProcessesTyped
<1>3. PipesTyped
  BY DEF PipesTyped
<1>4. LinesTyped /\ BatchOpen
  BY DEF LinesTyped, BatchOpen, None, Total
<1> QED BY <1>1, <1>2, <1>3, <1>4 DEF TypeInv, TypeOK

LEMMA TypeStep == TypeInv /\ [Next]_vars => TypeInv'
BY RunStep, ProcessesStep, PipesStep, LinesStep DEF TypeInv, TypeOK

-----------------------------------------------------------------------------
(* The end of the output.                                                  *)

LEMMA StillScanned ==
    ASSUME Scanned, UNCHANGED <<pc, pipe, junk, scanner>>, WritersHold',
           Holders = {} => Holders' = {}
    PROVE  Scanned'
BY DEF Scanned, ScannedOut, AllScanned

LEMMA ScannedStep == TypeInv /\ Scanned /\ [Next]_vars => Scanned'
<1> SUFFICES ASSUME TypeInv /\ Scanned, [Next]_vars PROVE Scanned'
  OBVIOUS
<1>1. ASSUME NEW p \in Processes, Exit(p)
      PROVE  Scanned'
  <2>1. WritersHold'
    BY <1>1 DEF Exit, Scanned, WritersHold, temper, Streams
  <2>2. Holders = {} => Holders' = {}
    BY <1>1 DEF Exit, Holders, Alive, temper
  <2> QED BY <1>1, <2>1, <2>2, StillScanned DEF Exit, goroutine, pipes
<1>2. ASSUME NEW p \in Processes, NEW s \in Streams, Write(p, s)
      PROVE  Scanned'
  BY <1>2 DEF Write, ProcessesTyped, Scanned, ScannedOut, WritersHold, Holders,
       Alive, temper, goroutine
<1>3. ASSUME NEW p \in Processes, NEW s \in Streams, Written(p, s)
      PROVE  Scanned'
  <2>1. WritersHold'
    BY <1>3 DEF Written, Scanned, WritersHold, temper, Streams
  <2>2. p \in Holders
    BY <1>3 DEF Written, Scanned, WritersHold, Holders, Alive, Streams
  <2>3. \A u \in Streams : scanner[u] # "done"
    BY <2>2 DEF Scanned, ScannedOut
  <2>4. pc = "run"
    BY <2>3 DEF Scanned, AllScanned, Streams
  <2> QED BY <1>3, <2>1, <2>3, <2>4 DEF Written, Scanned, ScannedOut, goroutine
<1>4. ASSUME NEW p \in Processes, NEW q \in Processes, Spawn(p, q)
      PROVE  Scanned'
  <2>1. WritersHold'
    BY <1>4 DEF Spawn, Scanned, WritersHold, temper, Streams
  <2>2. Holders = {} => Holders' = {}
    BY <1>4 DEF Spawn, Holders, Alive, temper
  <2> QED BY <1>4, <2>1, <2>2, StillScanned DEF Spawn, goroutine, pipes
<1>5. ASSUME Terminate
      PROVE  Scanned'
  <2>1. WritersHold'
    BY <1>5 DEF Terminate, Stop, Group, Scanned, WritersHold, temper, Streams
  <2>2. Holders = {} => Holders' = {}
    BY <1>5 DEF Terminate, Stop, Group, Holders, Alive, temper
  <2> QED BY <1>5, <2>1, <2>2, StillScanned DEF Terminate, Stop, goroutine, pipes
<1>6. ASSUME Kill
      PROVE  Scanned'
  <2>1. WritersHold'
    BY <1>6 DEF Kill, Stop, Scanned, WritersHold, temper, Streams
  <2>2. Holders = {} => Holders' = {}
    BY <1>6 DEF Kill, Stop, Holders, Alive, temper
  <2> QED BY <1>6, <2>1, <2>2, StillScanned DEF Kill, Stop, goroutine, pipes
<1>7. ASSUME NEW s \in Streams, Scan(s)
      PROVE  Scanned'
  BY <1>7 DEF Scan, TypeInv, TypeOK, PipesTyped, Scanned, ScannedOut, WritersHold,
       AllScanned, Holders, Alive, temper, goroutine, processes
<1>8. ASSUME NEW s \in Streams, Send(s)
      PROVE  Scanned'
  BY <1>8 DEF Send, AfterComplaint, Scanned, ScannedOut, WritersHold, AllScanned,
       Holders, Alive, temper, goroutine, processes, pipes
<1>9. ASSUME NEW s \in Streams, Drain(s)
      PROVE  Scanned'
  BY <1>9 DEF Drain, Scanned, ScannedOut, WritersHold, AllScanned, Holders, Alive,
       temper, goroutine, processes
<1>10. ASSUME NEW s \in Streams, Eof(s)
      PROVE  Scanned'
  BY <1>10 DEF Eof, Scanned, ScannedOut, WritersHold, AllScanned, Holders, Alive,
       temper, goroutine, processes, pipes
<1>11. ASSUME Label
      PROVE  Scanned'
  BY <1>11 DEF Label, Scanned, ScannedOut, WritersHold, AllScanned, Holders,
       Alive, temper, processes, pipes
<1>12. ASSUME StartFails
      PROVE  Scanned'
  BY <1>12 DEF StartFails, Scanned, ScannedOut, WritersHold, AllScanned, Holders,
       Alive, temper, processes, pipes
<1>13. ASSUME Start
      PROVE  Scanned'
  <2>1. WritersHold'
    BY <1>13, Constants DEF Start, WritersHold, Streams
  <2> QED BY <1>13, <2>1 DEF Start, Scanned, ScannedOut
<1>14. ASSUME Collect
      PROVE  Scanned'
  BY <1>14 DEF Collect, Scanned, ScannedOut, WritersHold, AllScanned, Holders,
       Alive, temper, processes, pipes
<1>15. ASSUME Close
      PROVE  Scanned'
  BY <1>15 DEF Close, Scanned, ScannedOut, WritersHold, AllScanned, Holders,
       Alive, temper, processes, pipes
<1>16. ASSUME Publish
      PROVE  Scanned'
  BY <1>16 DEF Publish, Scanned, ScannedOut, WritersHold, AllScanned, Holders,
       Alive, temper, processes, pipes
<1>17. ASSUME Last
      PROVE  Scanned'
  BY <1>17 DEF Last, Scanned, ScannedOut, WritersHold, AllScanned, Holders, Alive,
       temper, processes, pipes, backend
<1>18. ASSUME SelectResult
      PROVE  Scanned'
  BY <1>18 DEF SelectResult, Scanned, ScannedOut, WritersHold, AllScanned,
       Holders, Alive, temper, processes, pipes, backend
<1>19. ASSUME \/ Cancel \/ (\E l \in Lines : Range(l)) \/ RangeEnds
         \/ (\E l \in Lines : SelectLine(l)) \/ SelectClose
         \/ SelectTimer \/ Deliver \/ UNCHANGED vars
      PROVE  UNCHANGED <<given, pc, processes, pipe, junk, scanner>>
  BY <1>19 DEF Cancel, Range, RangeEnds, SelectLine, SelectClose, SelectTimer,
       Deliver, vars, goroutine, pipes, backend
<1>20. CASE UNCHANGED <<given, pc, processes, pipe, junk, scanner>>
  BY <1>20 DEF Scanned, ScannedOut, WritersHold, AllScanned, Holders, Alive,
       temper, processes
<1> QED BY <1>1, <1>2, <1>3, <1>4, <1>5, <1>6, <1>7, <1>8, <1>9, <1>10, <1>11,
     <1>12, <1>13, <1>14, <1>15, <1>16, <1>17, <1>18, <1>19, <1>20 DEF Next,
     Process, Watcher, Scanner, Runner, Frontend

LEMMA ClosedStep == ClosedLast /\ [Next]_vars => ClosedLast'
<1> SUFFICES ASSUME ClosedLast, [Next]_vars PROVE ClosedLast'
  OBVIOUS
<1>1. ASSUME Label
      PROVE  ClosedLast'
  BY <1>1 DEF Label, ClosedLast
<1>2. ASSUME StartFails
      PROVE  ClosedLast'
  BY <1>2 DEF StartFails, ClosedLast
<1>3. ASSUME Start
      PROVE  ClosedLast'
  BY <1>3 DEF Start, ClosedLast
<1>4. ASSUME Collect
      PROVE  ClosedLast'
  BY <1>4 DEF Collect, ClosedLast
<1>5. ASSUME Close
      PROVE  ClosedLast'
  BY <1>5 DEF Close, ClosedLast
<1>6. ASSUME Publish
      PROVE  ClosedLast'
  BY <1>6 DEF Publish, ClosedLast
<1>7. ASSUME Last
      PROVE  ClosedLast'
  BY <1>7 DEF Last, ClosedLast
<1>8. ASSUME SelectResult
      PROVE  ClosedLast'
  BY <1>8 DEF SelectResult, ClosedLast
<1>9. ASSUME \/ (\E p \in Processes : Exit(p))
         \/ (\E p \in Processes, s \in Streams : Write(p, s))
         \/ (\E p \in Processes, s \in Streams : Written(p, s))
         \/ (\E p \in Processes, q \in Processes : Spawn(p, q))
         \/ Cancel \/ Terminate \/ Kill \/ (\E s \in Streams : Scan(s))
         \/ (\E s \in Streams : Send(s))
         \/ (\E s \in Streams : Drain(s)) \/ (\E s \in Streams : Eof(s))
         \/ (\E l \in Lines : Range(l)) \/ RangeEnds
         \/ (\E l \in Lines : SelectLine(l)) \/ SelectClose
         \/ SelectTimer \/ Deliver \/ UNCHANGED vars
      PROVE  UNCHANGED <<pc, closed>>
  BY <1>9 DEF Exit, Write, Written, Spawn, Cancel, Terminate, Kill, Scan, Send,
       Drain, Eof, Range, RangeEnds, SelectLine, SelectClose, SelectTimer,
       Deliver, Stop, vars, goroutine, backend
<1>10. CASE UNCHANGED <<pc, closed>>
  BY <1>10 DEF ClosedLast
<1> QED BY <1>1, <1>2, <1>3, <1>4, <1>5, <1>6, <1>7, <1>8, <1>9, <1>10 DEF Next,
     Process, Watcher, Scanner, Runner, Frontend

LEMMA Counts ==
    ASSUME TypeInv, NEW s \in Streams
    PROVE  /\ due[s] \in Nat /\ shown[s] \in Nat /\ batch[s] \in Nat /\ channel[s] \in Nat /\ pipe[s] \in Nat
           /\ s \in Lines /\ s # "note"
BY DEF TypeInv, TypeOK, PipesTyped, LinesTyped, Lines, Streams

LEMMA MoreWritten ==
    ASSUME NEW d \in Nat, NEW e \in Nat, NEW q \in Nat, NEW r \in Nat,
           NEW s \in Nat, NEW b \in Nat, NEW c \in Nat, NEW h \in Nat,
           d = s + b + c + h + q, e - d = r - q
    PROVE  e = s + b + c + h + r
OBVIOUS

LEMMA ConservedStep == TypeInv /\ Scanned /\ Conserved /\ [Next]_vars => Conserved'
<1> SUFFICES ASSUME TypeInv, Scanned, Conserved, [Next]_vars PROVE Conserved'
  OBVIOUS
<1>1. ASSUME NEW p \in Processes, NEW s \in Streams, Written(p, s)
      PROVE  Conserved'
  <2>1. ASSUME NEW u \in Streams
        PROVE  /\ due'[u] \in Nat /\ pipe'[u] \in Nat
               /\ due'[u] - due[u] = pipe'[u] - pipe[u]
    BY <1>1, <2>1, Counts DEF Written, TypeInv, TypeOK, PipesTyped
  <2>2. UNCHANGED <<shown, batch, channel, scanner>>
    BY <1>1 DEF Written, frontend
  <2>3. \A u \in Streams : InScanner(u)' = InScanner(u) /\ InScanner(u) \in Nat
    BY <2>2 DEF InScanner
  <2>4. ASSUME NEW u \in Streams
        PROVE  due'[u] = shown'[u] + batch'[u] + channel'[u] + InScanner(u)' + pipe'[u]
    <3>1. due[u] = shown[u] + batch[u] + channel[u] + InScanner(u) + pipe[u]
      BY DEF Conserved
    <3>2. /\ shown'[u] = shown[u] /\ batch'[u] = batch[u] /\ channel'[u] = channel[u]
          /\ InScanner(u)' = InScanner(u)
      BY <2>2, <2>3
    <3>3. /\ due[u] \in Nat /\ shown[u] \in Nat /\ batch[u] \in Nat /\ channel[u] \in Nat
          /\ pipe[u] \in Nat /\ InScanner(u) \in Nat
      BY <2>3, Counts
    <3>4. due'[u] \in Nat /\ pipe'[u] \in Nat /\ due'[u] - due[u] = pipe'[u] - pipe[u]
      BY <2>1
    <3>5. due'[u] = shown[u] + batch[u] + channel[u] + InScanner(u) + pipe'[u]
      BY <3>1, <3>3, <3>4, MoreWritten
    <3> QED BY <3>2, <3>5
  <2> QED BY <2>4 DEF Conserved
<1>2. ASSUME NEW s \in Streams, Scan(s)
      PROVE  Conserved'
  BY <1>2 DEF Scan, TypeInv, TypeOK, PipesTyped, LinesTyped, Conserved, InScanner,
       Lines, frontend
<1>3. ASSUME NEW s \in Streams, Send(s)
      PROVE  Conserved'
  <2>1. ASSUME NEW u \in Streams
        PROVE  /\ channel'[u] \in Nat
               /\ channel'[u] + InScanner(u)' = channel[u] + InScanner(u)
    BY <1>3, <2>1, Counts DEF Send, AfterComplaint, InScanner, TypeInv, TypeOK,
         PipesTyped, LinesTyped
  <2>2. UNCHANGED <<due, pipe, shown, batch>>
    BY <1>3 DEF Send, pipes, frontend
  <2> QED BY <2>1, <2>2, Counts DEF Conserved, InScanner
<1>4. ASSUME NEW s \in Streams, Eof(s)
      PROVE  Conserved'
  BY <1>4 DEF Eof, Conserved, InScanner, pipes, frontend
<1>5. ASSUME Label
      PROVE  Conserved'
  <2>1. \A u \in Streams : channel'[u] = channel[u]
    BY <1>5, Counts DEF Label
  <2> QED BY <1>5, <2>1 DEF Label, Conserved, InScanner, pipes, frontend
<1>6. ASSUME Start
      PROVE  Conserved'
  <2>1. \A u \in Streams : InScanner(u) = 0 /\ InScanner(u)' = 0
    BY <1>6 DEF Start, InScanner, Scanned, AllScanned
  <2> QED BY <1>6, <2>1 DEF Start, Conserved, pipes, frontend
<1>7. ASSUME NEW l \in Lines, Range(l)
      PROVE  Conserved'
  BY <1>7 DEF Range, TypeInv, TypeOK, LinesTyped, Conserved, InScanner, processes,
       pipes, backend
<1>8. ASSUME NEW l \in Lines, SelectLine(l)
      PROVE  Conserved'
  <2>1. \A u \in Streams : batch'[u] + channel'[u] = batch[u] + channel[u]
    BY <1>8, Counts DEF SelectLine, TypeInv, TypeOK, LinesTyped
  <2>2. UNCHANGED <<due, pipe, shown, scanner>>
    BY <1>8 DEF SelectLine, backend, pipes
  <2>3. \A u \in Streams : batch'[u] \in Nat /\ channel'[u] \in Nat
    BY <1>8, Counts DEF SelectLine
  <2> QED BY <2>1, <2>2, <2>3, Counts DEF Conserved, InScanner
<1>9. ASSUME Deliver
      PROVE  Conserved'
  <2>1. \A u \in Streams : shown'[u] = shown[u] + batch[u] /\ batch'[u] = 0
    BY <1>9, Counts DEF Deliver, None
  <2>2. UNCHANGED <<due, pipe, channel, scanner>>
    BY <1>9 DEF Deliver, backend, pipes
  <2> QED BY <2>1, <2>2, Counts DEF Conserved, InScanner
<1>10. ASSUME \/ (\E p \in Processes : Exit(p))
         \/ (\E p \in Processes, s \in Streams : Write(p, s))
         \/ (\E p \in Processes, q \in Processes : Spawn(p, q))
         \/ Cancel \/ Terminate \/ Kill \/ (\E s \in Streams : Drain(s))
         \/ StartFails \/ Collect \/ Close \/ Publish \/ RangeEnds
         \/ Last \/ SelectClose \/ SelectTimer \/ SelectResult \/ UNCHANGED vars
      PROVE  UNCHANGED <<due, shown, batch, channel, scanner, pipe>>
  BY <1>10 DEF Exit, Write, Spawn, Cancel, Terminate, Kill, Drain, StartFails,
       Collect, Close, Publish, RangeEnds, Last, SelectClose, SelectTimer,
       SelectResult, Stop, vars, pipes, frontend, backend
<1>11. CASE UNCHANGED <<due, shown, batch, channel, scanner, pipe>>
  BY <1>11 DEF Conserved, InScanner
<1> QED BY <1>1, <1>2, <1>3, <1>4, <1>5, <1>6, <1>7, <1>8, <1>9, <1>10, <1>11 DEF
     Next, Process, Watcher, Scanner, Runner, Frontend

LEMMA RangeStep == TypeInv /\ Scanned /\ ClosedLast /\ RangeToEnd /\ [Next]_vars => RangeToEnd'
<1> SUFFICES ASSUME TypeInv /\ Scanned /\ ClosedLast /\ RangeToEnd, [Next]_vars PROVE RangeToEnd'
  OBVIOUS
<1>1. ASSUME NEW s \in Streams, Send(s)
      PROVE  RangeToEnd'
  BY <1>1 DEF Send, RangeToEnd, kind, Drained, Scanned, ClosedLast, AllScanned,
       frontend
<1>2. ASSUME Label
      PROVE  RangeToEnd'
  BY <1>2 DEF Label, RangeToEnd, kind, Drained, ClosedLast, frontend
<1>3. ASSUME Close
      PROVE  RangeToEnd'
  BY <1>3 DEF Close, RangeToEnd, kind, Drained, frontend
<1>4. ASSUME NEW l \in Lines, Range(l)
      PROVE  RangeToEnd'
  BY <1>4 DEF Range, RangeToEnd
<1>5. ASSUME RangeEnds
      PROVE  RangeToEnd'
  BY <1>5 DEF RangeEnds, RangeToEnd, Drained, backend
<1>6. ASSUME Last
      PROVE  RangeToEnd'
  BY <1>6 DEF Last, RangeToEnd, kind, Drained, backend
<1>7. ASSUME NEW l \in Lines, SelectLine(l)
      PROVE  RangeToEnd'
  BY <1>7 DEF SelectLine, RangeToEnd, kind, backend
<1>8. ASSUME SelectClose
      PROVE  RangeToEnd'
  BY <1>8 DEF SelectClose, RangeToEnd, kind, backend
<1>9. ASSUME SelectTimer
      PROVE  RangeToEnd'
  BY <1>9 DEF SelectTimer, RangeToEnd, kind, backend
<1>10. ASSUME SelectResult
      PROVE  RangeToEnd'
  BY <1>10 DEF SelectResult, RangeToEnd, kind, backend
<1>11. ASSUME Deliver
      PROVE  RangeToEnd'
  BY <1>11 DEF Deliver, None, RangeToEnd
<1>12. ASSUME \/ (\E p \in Processes : Exit(p))
         \/ (\E p \in Processes, s \in Streams : Write(p, s))
         \/ (\E p \in Processes, s \in Streams : Written(p, s))
         \/ (\E p \in Processes, q \in Processes : Spawn(p, q))
         \/ Cancel \/ Terminate \/ Kill \/ (\E s \in Streams : Scan(s))
         \/ (\E s \in Streams : Drain(s)) \/ (\E s \in Streams : Eof(s))
         \/ StartFails \/ Start \/ Collect \/ Publish \/ UNCHANGED vars
      PROVE  UNCHANGED <<given, closed, channel, batch, reading>>
  BY <1>12 DEF Exit, Write, Written, Spawn, Cancel, Terminate, Kill, Scan, Drain,
       Eof, StartFails, Start, Collect, Publish, Stop, vars, frontend
<1>13. CASE UNCHANGED <<given, closed, channel, batch, reading>>
  BY <1>13 DEF RangeToEnd, kind, Drained
<1> QED BY <1>1, <1>2, <1>3, <1>4, <1>5, <1>6, <1>7, <1>8, <1>9, <1>10, <1>11,
     <1>12, <1>13 DEF Next, Process, Watcher, Scanner, Runner, Frontend

-----------------------------------------------------------------------------
(* The theorems.                                                           *)

LEMMA InvInit == Init => Inv
<1> SUFFICES ASSUME Init PROVE Inv
  OBVIOUS
<1>1. TypeInv
  BY TypeInit
<1>2. Scanned
  BY DEF Init, Scanned, ScannedOut, WritersHold, AllScanned, Holders, Alive, Streams
<1>3. ClosedLast
  BY DEF Init, ClosedLast
<1>4. Conserved
  BY AllLines DEF Init, Conserved, InScanner, None, Lines
<1>5. RangeToEnd
  BY DEF Init, RangeToEnd, None
<1> QED BY <1>1, <1>2, <1>3, <1>4, <1>5 DEF Inv

LEMMA InvStep == Inv /\ [Next]_vars => Inv'
BY TypeStep, ScannedStep, ClosedStep, ConservedStep, RangeStep DEF Inv

LEMMA Invariant == Spec => []Inv
BY InvInit, InvStep, PTL DEF Spec

(* TypeOK: the counts never leave what the pipe, the channel and a batch   *)
(* hold, and no check runs beyond the command.                             *)
THEOREM TypeCorrect == Spec => []TypeOK
<1>1. Inv => TypeOK
  BY DEF Inv, TypeInv
<1> QED BY <1>1, Invariant, PTL

(* NothingAfterClose: whatever was started, no scanner is left to send on  *)
(* the channel that Apply has closed, and nobody to write to its pipes.    *)
THEOREM NoSendOnClosed == Spec => []NothingAfterClose
<1>1. Inv => NothingAfterClose
  BY DEF Inv, ClosedLast, Scanned, ScannedOut, AllScanned, NothingAfterClose,
       Streams
<1> QED BY <1>1, Invariant, PTL

(* AllOutputShown: a frontend that ranges over the channel has shown every *)
(* line of every process when it shows the result.                         *)
THEOREM OutputIsComplete == Spec => []AllOutputShown
<1>1. Inv => AllOutputShown
  <2> SUFFICES ASSUME Inv, kind = "range", reading = "finished", NEW s \in Streams
               PROVE  shown[s] = due[s]
    BY DEF AllOutputShown
  <2>1. batch[s] = 0 /\ Drained
    BY Counts DEF Inv, RangeToEnd
  <2>2. channel[s] = 0
    <3>1. \A l \in Lines : channel[l] \in Nat
      BY DEF Inv, TypeInv, TypeOK, LinesTyped
    <3>2. channel["stdout"] = 0 /\ channel["stderr"] = 0
      BY <2>1, <3>1, AllLines DEF Drained, Total
    <3> QED BY <3>2 DEF Streams
  <2>3. pipe[s] = 0 /\ InScanner(s) = 0
    BY <2>1 DEF Inv, Drained, ClosedLast, Scanned, ScannedOut, AllScanned, InScanner
  <2> QED BY <2>1, <2>2, <2>3, Counts DEF Inv, Conserved
<1> QED BY <1>1, Invariant, PTL

(* ChecksDoNotMix: one check's processes are out of its pipes before the   *)
(* next check or the command starts.                                       *)
THEOREM ChecksSeparate == Spec => ChecksDoNotMix
<1>1. Inv /\ [Next]_vars => [NextStage]_vars
  <2> SUFFICES ASSUME Inv, Next, stage' # stage PROVE NextStage
    BY DEF NextStage, vars, goroutine
  <2>1. Collect
    BY DEF Next, Process, Watcher, Scanner, Runner, Frontend, Exit, Write,
         Written, Spawn,
       Cancel, Terminate, Kill, Stop, Scan, Send, Drain, Eof, Label, StartFails, Start, Close,
       Publish, Range, RangeEnds, Last, SelectLine, SelectClose, SelectTimer, SelectResult,
       Deliver, goroutine, backend
  <2>2. Holders = {} /\ \A s \in Streams : pipe[s] = 0 /\ junk[s] = 0
    BY <2>1 DEF Collect, Inv, Scanned, ScannedOut, AllScanned, Streams
  <2> QED BY <2>2 DEF NextStage
<1> QED BY <1>1, Invariant, PTL DEF Spec, ChecksDoNotMix
=============================================================================

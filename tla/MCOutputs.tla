------------------------------ MODULE MCOutputs ------------------------------
(* The exports and rollbacks of the output files, a drift check of such     *)
(* files beside those who edit, and the two algorithms below them: the diff *)
(* that is shown and the conversion of numbers that come back from a store. *)
(* A behaviour is one of these; the algorithms' are single states, one for  *)
(* each input.                                                              *)
(*                                                                          *)
(* One template renders a file per child of a prefix, which has one child   *)
(* or none, one only prints and one renders one file.  Texts have up to     *)
(* five lines and a diff one line of context; ints have five bits and the   *)
(* mantissa of a float has three.                                           *)
EXTENDS MCExportRollback, Sequences

CONSTANTS
    Unreadable, Templates, Children, Iterates, Prints, Text, MaxChanges,
    Line, MaxLines, Context, Width, Mantissa

VARIABLES
    system, old, new, number, target, tree, loads, broken, files, mode, stage, data, rest, rendered, drifted, inSync, errors,
    known, exit, still, changes

MCTemplates == <<"hosts", "print", "env">>
MCChildren == [hosts |-> <<"web">>, print |-> <<"all">>, env |-> <<"all">>]

Check == INSTANCE Drift WITH disk <- files, todo <- rest

ASSUME TemplatesAssumption == Templates \in Seq(Check!Template)

Diff == INSTANCE Diffs

Numeric == INSTANCE Numbers

\* Without context a hunk that only adds would not say where (unifiedDiff has
\* three lines).  A float64 has fewer digits than an int64, and one at least.
ASSUME AlgorithmsAssumption ==
    /\ MaxLines \in Nat /\ Context \in Nat \ {0}
    /\ Width \in Nat /\ Mantissa \in 1 .. Width - 2

inputs == <<old, new, number, target>>
driftVars ==
    <<tree, loads, broken, files, mode, stage, data, rest, rendered, drifted, inSync, errors, known,
      exit, still, changes>>

Systems == {"exports", "drift", "diff", "numbers"}

Lines == UNION {[1 .. n -> Line] : n \in 0 .. MaxLines}

OutputsInit ==
    /\ system \in Systems
    /\ Init /\ Check!Init
    /\ system # "exports" => \A f \in Files : disk[f] = Missing
    /\ system # "drift" =>
         /\ tree \in [{<<"env", "all">>} -> {"one"}] /\ mode = "once" /\ loads
         /\ \A o \in Check!Output : files[o] = Missing
    /\ IF system = "diff" THEN old \in Lines /\ new \in Lines ELSE old = <<>> /\ new = <<>>
    /\ IF system = "numbers" THEN number \in Numeric!Value /\ target \in Numeric!Kind
       ELSE number = Nothing /\ target = Nothing

\* A command that has ended does nothing any more.
Ended == system = "drift" /\ stage = "ended" /\ UNCHANGED <<system, inputs, driftVars, vars>>

OutputsNext ==
    \/ system = "exports" /\ Next /\ UNCHANGED <<system, inputs, driftVars>>
    \/ system = "drift" /\ Check!Next /\ UNCHANGED <<system, inputs, vars>>
    \/ Ended
    \/ system \in {"diff", "numbers"} /\ UNCHANGED <<system, inputs, driftVars, vars>>

OutputsSpec ==
    /\ OutputsInit /\ [][OutputsNext]_<<system, inputs, driftVars, vars>>
    /\ system = "drift" => Check!Fairness

\* The exit codes and what a watch knows (cli/drift.go): what a check says of
\* the files is what is true of them.
VerdictTrue == Check!TypeOK /\ Check!VerdictTrue

\* "run continuously, checking at --interval": a watch notices a drift that
\* stays, and its end.
DriftIsNoticed == system = "drift" => Check!DriftIsNoticed

\* "Diff is the unified diff output" (core/diff.go): with it the new text is
\* made of the old one.  "a lossless conversion" (core/numeric.go), but for
\* those that are not.
AlgorithmsRight ==
    /\ system = "diff" => Diff!DiffRight(old, new, Diff!Hunks(Diff!Edits(old, new), Context))
    /\ system = "numbers" => Numeric!LosslessBut(number, target)

\* "2  Error during drift check" (cli/drift.go).
ErrorsExitWithTwo == Check!ErrorsExitWithTwo

\* "a lossless conversion" (core/numeric.go).
Lossless == system = "numbers" => Numeric!Lossless(number, target)
=============================================================================

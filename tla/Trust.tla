------------------------------- MODULE Trust -------------------------------
(***************************************************************************)
(* The policy of a user's machine: which artifacts may be pulled onto it.  *)
(*                                                                         *)
(* A reference is the path of its repository, the registry's host first;   *)
(* its scheme, tag and digest say nothing to a policy.  No command looks   *)
(* at a signature: an artifact counts as unsigned.                         *)
(*                                                                         *)
(* Source: pkg/sharing/verify/policy.go, verify.go                         *)
(***************************************************************************)
EXTENDS Naturals, Sequences

DefaultPolicy ==
    [requireSignatures |-> FALSE, trusted |-> {}, allowed |-> {}, blocked |-> {}]

\* Under sharing.verification if anything is there, else the file itself.
ParsePolicy(file) ==
    IF file.verification # DefaultPolicy THEN file.verification ELSE file.bare

\* Whole segments, one after the other, anywhere in the path.
MatchesSegments(path, pattern) ==
    /\ pattern # <<>>
    /\ \E before \in 0 .. Len(path) - Len(pattern) :
         \A i \in 1 .. Len(pattern) : path[before + i] = pattern[i]

IsBlocked(policy, path) ==
    \E pattern \in policy.blocked : MatchesSegments(path, pattern)

IsRegistryAllowed(policy, path) ==
    policy.allowed = {} \/ path[1] \in policy.allowed

EffectiveLevel(policy) == IF policy.requireSignatures THEN "strict" ELSE "signed"

\* --skip-verify lifts the demand for signatures and nothing else.  Where
\* signatures are demanded nothing can be installed without it.
VerifyArtifact(policy, path, skip) ==
    LET refused == IsBlocked(policy, path) \/ ~IsRegistryAllowed(policy, path)
    IN  [ok    |-> ~refused /\ (skip \/ ~policy.requireSignatures),
         level |-> IF ~refused /\ skip THEN "none" ELSE EffectiveLevel(policy)]
=============================================================================

------------------------------ MODULE Numbers ------------------------------
(* The conversions between the number types of configuration values         *)
(* (internal/core/numeric.go), which LoadTree makes when a store returns    *)
(* another type than the default has: JSON, for one, has only float64.      *)
(*                                                                          *)
(* Width is the 64 bits of int, int64 and uint, Mantissa the 53 of float64. *)
(* A conversion yields the set of values that may come out: none if it is   *)
(* refused, several where the language leaves it open.                      *)
EXTENDS Integers, FiniteSets

CONSTANTS Width, Mantissa

\* Of two.
Power[k \in 0 .. Width] == IF k = 0 THEN 1 ELSE 2 * Power[k - 1]

MaxInt == Power[Width - 1] - 1
MinInt == -Power[Width - 1]
MaxUint == Power[Width] - 1
MaxExact == Power[Mantissa]

Abs(n) == IF n < 0 THEN -n ELSE n

\* The nearest number that a float64 has, to even if two are as near.
Rounded(n) ==
    LET gap == CHOOSE g \in {Power[k] : k \in 0 .. Width} :
                   /\ Abs(n) <= MaxExact * g
                   /\ g > 1 => Abs(n) > MaxExact * (g \div 2)
        below == n \div gap
    IN  IF 2 * (n % gap) < gap \/ (2 * (n % gap) = gap /\ below % 2 = 0)
        THEN below * gap
        ELSE (below + 1) * gap

Bounds == [int |-> MinInt..MaxInt, int64 |-> MinInt..MaxInt, uint |-> 0..MaxUint,
           float64 |-> {n \in 2 * MinInt..2 * MaxUint : Rounded(n) = n}]

\* isNumericType.
Kind == DOMAIN Bounds

\* What is no whole number, or is NaN or infinite, is not `whole`.
Value == {v \in [kind : Kind, whole : BOOLEAN, n : 2 * MinInt..2 * MaxUint] :
              /\ v.n \in Bounds[v.kind]
              /\ ~v.whole => v.kind = "float64" /\ v.n = 0}

\* An integer conversion of Go: the low bits, in two's complement.
Wrapped(n, kind) ==
    IF kind = "uint" THEN n % Power[Width]
    ELSE ((n + Power[Width - 1]) % Power[Width]) - Power[Width - 1]

\* A float64 that does not fit: the specification leaves the result open.
Truncated(n, kind) == IF n \in Bounds[kind] THEN {n} ELSE Bounds[kind]

\* math.MaxInt and math.MaxUint are rounded when a float64 is compared with
\* them.
ToInt(v) ==
    IF v.kind = "uint" /\ v.n > MaxInt THEN {}
    ELSE IF v.kind # "float64" THEN {v.n}
    ELSE IF ~v.whole \/ v.n < MinInt \/ v.n > Rounded(MaxInt) THEN {}
    ELSE Truncated(v.n, "int")

\* Mutant of ToInt64: any whole number is taken.
ToInt64Unchecked(v) ==
    IF v.kind # "float64" THEN {Wrapped(v.n, "int64")}
    ELSE IF ~v.whole THEN {}
    ELSE Truncated(v.n, "int64")

ToInt64(v) ==
    IF v.kind # "float64" THEN {Wrapped(v.n, "int64")}
    ELSE IF ~v.whole \/ Abs(v.n) > MaxExact THEN {}
    ELSE Truncated(v.n, "int64")

ToFloat64(v) == IF v.whole THEN {Rounded(v.n)} ELSE {v.n}

ToUint(v) ==
    IF v.kind = "uint" THEN {v.n}
    ELSE IF v.n < 0 THEN {}
    ELSE IF v.kind # "float64" THEN {Wrapped(v.n, "uint")}
    ELSE IF ~v.whole \/ v.n > Rounded(MaxUint) THEN {}
    ELSE Truncated(v.n, "uint")

\* tryNumericConvert.
TryConvert(v, kind) ==
    CASE kind = "int" -> ToInt(v)
      [] kind = "int64" -> ToInt64(v)
      [] kind = "float64" -> ToFloat64(v)
      [] kind = "uint" -> ToUint(v)

\* LoadTree: a stored value of another type that cannot be converted is passed
\* over, and the default is shown and exported.
Loaded(stored, default) ==
    IF stored.kind = default.kind THEN {stored.n}
    ELSE IF TryConvert(stored, default.kind) = {} THEN {default.n}
    ELSE TryConvert(stored, default.kind)

----------------------------------------------------------------------------

\* The conversions that lose something: a uint beyond the int64s, an integer
\* that no float64 has, and the two powers of two just beyond int and uint.
Loses(v, kind) ==
    \/ v.kind = "uint" /\ kind = "int64" /\ v.n > MaxInt
    \/ kind = "float64" /\ v.whole /\ Rounded(v.n) # v.n
    \/ v.kind = "float64" /\ kind = "int" /\ v.n = MaxInt + 1
    \/ v.kind = "float64" /\ kind = "uint" /\ v.n = MaxUint + 1

Exactly(v, kind) == IF v.n \in Bounds[kind] THEN {v.n} ELSE {}

\* "a lossless conversion" (numeric.go) but for those, and no number that
\* both types have exactly is refused, be it as large as an int can be if it
\* is one: what a JSON store returns is the value that was stored in it.
LosslessBut(v, kind) ==
    /\ ~Loses(v, kind) => \A n \in TryConvert(v, kind) : n = v.n
    /\ v.whole /\ Abs(v.n) <= MaxExact => TryConvert(v, kind) = Exactly(v, kind)
    /\ v.kind = "int" /\ Rounded(v.n) = v.n =>
          Loaded([v EXCEPT !.kind = "float64"], [v EXCEPT !.n = 0]) = {v.n}

\* "attempts a lossless conversion" (numeric.go).
Lossless(v, kind) == \A n \in TryConvert(v, kind) : n = v.n
=============================================================================

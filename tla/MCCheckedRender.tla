--------------------------- MODULE MCCheckedRender ---------------------------
(* Three versions of a file: an integer b; then also an integer a; then a  *)
(* is option(struct(...)) and both have defaults.  Gen is a struct         *)
(* generated from the last: its option is absent or present, and when      *)
(* present the setter makes the struct in it a hollow one.  Row is a type  *)
(* by hand that has b only.                                                *)
EXTENDS CheckedRender

CONSTANTS a, b, k, int, none, row, hollow, Gen, Row

Param(types, default) == [type |-> types, default |-> default]

MCFiles == {b :> Param({int}, NoDefault),
            (a :> Param({int}, NoDefault)) @@ (b :> Param({int}, NoDefault)),
            (a :> Param({none, row}, none)) @@ (b :> Param({int}, int))}

GenAs(option) == (a :> option) @@ (b :> int)

MCContexts == (NotAStruct :> {}) @@ (Gen :> {GenAs(none), GenAs(row)}) @@ (Row :> {b :> int})

MCBuilt == Gen :> {GenAs(none), GenAs(hollow)}

MCExpected == Gen :> ((a :> Param({none, row}, NoDefault)) @@ (b :> Param({int}, NoDefault)))

MCLoose == Gen :> {a}

Interchangeable == Permutations(Threads) \cup Permutations(Objects)
=============================================================================

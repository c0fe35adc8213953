-------------------------- MODULE MCTemplateCache --------------------------
(***************************************************************************)
(* Instances of TemplateCache for TLC.                                     *)
(***************************************************************************)
EXTENDS TemplateCache, TLC

CONSTANTS p, link, f2, f3, staging, prod

\* Three files, more than the limit, the first under two names, one of them a
\* symbolic link; all are loaded, and the first is included as well, by both
\* names and under two environments.
LinkedAndOthers == [q \in {p, link, f2, f3} |-> IF q = link THEN p ELSE q]

LoadsAndIncludes ==
    [op : {"load"}, path : {p, f2, f3}, env : {NoEnv}]
        \cup {[op |-> "include", path |-> p, env |-> staging],
              [op |-> "include", path |-> link, env |-> prod]}

\* A clock that is read finely enough to tell all writes apart, though not one
\* that only moves forward: version 2 restores an older time, as cp -p does.
DistinctTimes == [v \in 1..MaxVersion |-> IF v = 2 THEN 1 ELSE v + 1]

Interchangeable == Permutations(Threads)
=============================================================================

------------------------------- MODULE Pages --------------------------------
(* Pages of rows: so many of the first, or of the last, of a set of numbers. *)
EXTENDS Integers, FiniteSets

(* ORDER BY .. LIMIT n, and a request's limit *)
FirstOf(n, S) == {o \in S : Cardinality({p \in S : p <= o}) <= n}

(* rows[-n:] *)
LatestOf(n, S) == {o \in S : Cardinality({p \in S : p >= o}) <= n}
=============================================================================

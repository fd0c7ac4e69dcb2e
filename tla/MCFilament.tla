----------------------------- MODULE MCFilament -----------------------------
(***************************************************************************)
(* Filament for TLC: the filaments get their execution contexts.           *)
(***************************************************************************)
EXTENDS FilamentInvariant

CONSTANTS f1, f2, f3, c1, c2

\* f1 and f3 belong to the same run, f2 to one that is nested in it.
TwoContexts == [f \in Filaments |-> IF f = f2 THEN c2 ELSE c1]

OneContext == [f \in Filaments |-> c1]

=============================================================================

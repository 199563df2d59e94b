------------------------------ MODULE ExitCodes ------------------------------
(***************************************************************************)
(* core/cliutils.py aggregate_exit: the one exit code of a command that    *)
(* ran over several targets, or made several attempts.                     *)
(***************************************************************************)
EXTENDS Naturals, Sequences, FiniteSets

\* Mutant: a class is reported as soon as all failures share it.
AggregateExitLax(codes) ==
  LET distinct == codes \ {"OK"} IN
    CASE distinct = {} -> "OK"
      [] Cardinality(distinct) = 1 -> CHOOSE c \in distinct : TRUE
      [] OTHER -> "PARTIAL"

\* Success, the one class of failure, or PARTIAL.
AggregateExit(codes) ==
  LET distinct == codes \ {"OK"} IN
    CASE distinct = {} -> "OK"
      [] Cardinality(distinct) = 1 /\ "OK" \notin codes -> CHOOSE c \in distinct : TRUE
      [] OTHER -> "PARTIAL"

\* Constitution Art. IX, stated of the codes one by one: the exit code is that
\* of every one of them, and PARTIAL says that they differ.
Summarises(exit, codes) ==
  LET Of(c) == {i \in DOMAIN codes : codes[i] = c} IN
    \/ Of(exit) = DOMAIN codes
    \/ exit = "PARTIAL" /\ \A i \in DOMAIN codes : Of(codes[i]) # DOMAIN codes
=============================================================================

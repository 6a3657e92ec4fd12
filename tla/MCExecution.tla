----------------------------- MODULE MCExecution ------------------------------
(***************************************************************************)
(* Programs with a leaf, a recursive function and a loop of calls, and     *)
(* programs with local, global and passed arrays, run after one of their   *)
(* functions has been placed in any way.                                   *)
(***************************************************************************)
EXTENDS Execution, MCPrograms

MCPrograms == RecursivePrograms \cup ArrayPrograms

MCGlobInit == [i \in 0..3 |-> <<2, 0, 1, 2>>[i + 1]]
===============================================================================

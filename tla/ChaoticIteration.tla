--------------------------- MODULE ChaoticIteration ---------------------------
(***************************************************************************)
(* What solving the liveness equations of one function means, whatever the *)
(* order: starting from nothing alive, the equation of any one statement   *)
(* is re-established at a time, and the result may be announced only when  *)
(* the equations of all statements hold together.                          *)
(***************************************************************************)
EXTENDS LiveSets

CONSTANT Funcs          \* the functions that may be analysed

VARIABLES func,         \* the function under analysis
          alive,        \* statement -> scalars alive before it
          solved        \* the result has been announced

avars == <<func, alive, solved>>

Init == /\ func \in Funcs
        /\ alive = [s \in Lines(func) |-> {}]
        /\ solved = FALSE

Solve(s) ==
    /\ ~ solved
    /\ alive' = [alive EXCEPT ![s] = AliveOf(func, alive, s)]
    /\ \/ UNCHANGED solved
       \/ solved' = TRUE /\ Solution(func, alive')
    /\ UNCHANGED func

Next == \E s \in Lines(func) : Solve(s)

Spec == Init /\ [][Next]_avars
===============================================================================

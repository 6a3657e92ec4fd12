------------------------------- MODULE Liveness -------------------------------
(***************************************************************************)
(* propagate_alive_vars (back/regalloc.cpp): the backward data-flow        *)
(* analysis that tells the register allocator which scalars are alive      *)
(* before and after each statement, solved with a FIFO of statements and   *)
(* an in-queue flag on each.                                               *)
(***************************************************************************)
EXTENDS LiveSets

CONSTANT Funcs          \* the functions that may be analysed

ASSUME FuncsWellFormed == \A f \in Funcs : WellFormed(f)

VARIABLES func,         \* the function under analysis
          q,            \* statements still to be processed, first in first out
          inqueue,      \* stmt->_regalloc_inqueue
          todo,         \* predecessors of the popped statement still to be seen
          meet,         \* stmt->meet_pooled_vars: alive after the statement
          alive         \* stmt->alive_pooled_vars: alive before it

livevars == <<func, q, inqueue, todo, meet, alive>>

-------------------------------------------------------------------------------

\* every statement is queued once, in textual order
LiveInit ==
    /\ func \in Funcs
    /\ q = [i \in 1..Len(func.stmts) |-> i]
    /\ inqueue = [s \in Lines(func) |-> TRUE]
    /\ todo = {}
    /\ meet = [s \in Lines(func) |-> {}]
    /\ alive = [s \in Lines(func) |-> {}]

\* defect: predecessors are queued whether or not anything changed
Process_Always ==
    /\ todo = {}
    /\ q # <<>>
    /\ LET s == Head(q)
       IN  /\ q' = Tail(q)
           /\ inqueue' = [inqueue EXCEPT ![s] = FALSE]
           /\ meet' = [meet EXCEPT ![s] = MeetOf(func, alive, s)]
           /\ alive' = [alive EXCEPT ![s] = AliveOf(func, alive, s)]
           /\ todo' = CfgPrev(func, s)
    /\ UNCHANGED func

\* defect: the statement above is taken for the only predecessor
Process_Textual ==
    /\ todo = {}
    /\ q # <<>>
    /\ LET s == Head(q)
           a == AliveOf(func, alive, s)
       IN  /\ q' = Tail(q)
           /\ inqueue' = [inqueue EXCEPT ![s] = FALSE]
           /\ meet' = [meet EXCEPT ![s] = MeetOf(func, alive, s)]
           /\ alive' = [alive EXCEPT ![s] = a]
           /\ todo' = IF a # alive[s] THEN {s - 1} ELSE {}
    /\ UNCHANGED func

\* One round of the while loop, up to the loop over stmt->prev.
Process ==
    /\ todo = {}
    /\ q # <<>>
    /\ LET s == Head(q)
           a == AliveOf(func, alive, s)
       IN  /\ q' = Tail(q)
           /\ inqueue' = [inqueue EXCEPT ![s] = FALSE]
           /\ meet' = [meet EXCEPT ![s] = MeetOf(func, alive, s)]
           /\ alive' = [alive EXCEPT ![s] = a]
           /\ todo' = IF a # alive[s] THEN CfgPrev(func, s) ELSE {}
    /\ UNCHANGED func

\* defect: the in-queue flag is not looked at
Requeue_Unflagged(t) ==
    /\ t \in todo
    /\ \A u \in todo : t <= u
    /\ todo' = todo \ {t}
    /\ inqueue' = [inqueue EXCEPT ![t] = TRUE]
    /\ q' = Append(q, t)
    /\ UNCHANGED <<func, meet, alive>>

\* defect: one predecessor is queued, the others are forgotten
Requeue_FirstOnly(t) ==
    /\ t \in todo
    /\ \A u \in todo : t <= u
    /\ todo' = {}
    /\ inqueue' = [inqueue EXCEPT ![t] = TRUE]
    /\ q' = IF inqueue[t] THEN q ELSE Append(q, t)
    /\ UNCHANGED <<func, meet, alive>>

\* The loop over stmt->prev, one predecessor at a time in textual order.
Requeue(t) ==
    /\ t \in todo
    /\ \A u \in todo : t <= u
    /\ todo' = todo \ {t}
    /\ inqueue' = [inqueue EXCEPT ![t] = TRUE]
    /\ q' = IF inqueue[t] THEN q ELSE Append(q, t)
    /\ UNCHANGED <<func, meet, alive>>

Finished == q = <<>> /\ todo = {}

LiveTerminated == Finished /\ UNCHANGED livevars

LiveNext == Process \/ (\E t \in todo : Requeue(t)) \/ LiveTerminated

LiveSpec == LiveInit /\ [][LiveNext]_livevars

\* the analysis is a loop of the compiler: nothing else can hold it up
FairLiveSpec == LiveSpec /\ WF_livevars(LiveNext)

-------------------------------------------------------------------------------
(* Properties.                                                             *)

\* Queued statements are lines of the function, alive sets hold its scalars.
LiveTypeOK ==
    /\ WellFormed(func)
    /\ q \in Seq(Lines(func))
    /\ inqueue \in [Lines(func) -> BOOLEAN]
    /\ todo \in SUBSET Lines(func)
    /\ meet \in [Lines(func) -> SUBSET Vars(func)]
    /\ alive \in [Lines(func) -> SUBSET Vars(func)]

\* The flag tells exactly what the queue holds, and the queue holds no
\* statement twice: no statement is lost and none is processed for nothing.
WorklistConsistent ==
    /\ \A s \in Lines(func) : inqueue[s] <=> \E i \in 1..Len(q) : q[i] = s
    /\ \A i, j \in 1..Len(q) : q[i] = q[j] => i = j

\* A statement that is neither queued nor about to be has its equation
\* satisfied: a change of a successor always brings it back.
SettledUnlessQueued ==
    \A s \in Lines(func) :
        ~ inqueue[s] /\ s \notin todo =>
            /\ meet[s] = MeetOf(func, alive, s)
            /\ alive[s] = AliveOf(func, alive, s)

\* When the loop ends, the sets the allocator takes over are the scalars that
\* some path reads before writing them.
FinishedExact == Finished => alive = LiveIn(func) /\ meet = LiveOut(func)

\* The loop ends.
LiveTerminates == <>Finished

\* The worklist algorithm solves the equations statement by statement.
Chaotic == INSTANCE ChaoticIteration WITH solved <- Finished

ImplementsChaotic == Chaotic!Spec
===============================================================================

------------------------------- MODULE LiveSets -------------------------------
(***************************************************************************)
(* When a scalar is alive: the data-flow equations of one function, and    *)
(* what they stand for in terms of its paths.                              *)
(***************************************************************************)
EXTENDS Ir

MeetOf(f, live, s) == UNION {live[t] : t \in CfgNext(f, s)}

\* defect: writing a scalar does not end its life
AliveOf_NoKill(f, live, s) == MeetOf(f, live, s) \cup Uses(f.stmts[s])

AliveOf(f, live, s) ==
    (MeetOf(f, live, s) \ Defs(f.stmts[s])) \cup Uses(f.stmts[s])

Solution(f, live) == \A s \in Lines(f) : live[s] = AliveOf(f, live, s)

-------------------------------------------------------------------------------
\* v is read within k statements from s on some path that does not write it
ReadWithin(f, v) ==
    LET reads  == {s \in Lines(f) : v \in Uses(f.stmts[s])}
        writes == {s \in Lines(f) : v \in Defs(f.stmts[s])}
        within[k \in 0..Len(f.stmts)] ==
            IF k = 0
            THEN reads
            ELSE LET closer == within[k-1]
                 IN  reads \cup {s \in Lines(f) \ writes :
                                    CfgNext(f, s) \cap closer # {}}
    IN  within[Len(f.stmts)]

LiveIn(f) ==
    LET readers == [v \in Vars(f) |-> ReadWithin(f, v)]
    IN  [s \in Lines(f) |-> {v \in Vars(f) : s \in readers[v]}]

LiveOut(f) == [s \in Lines(f) |-> MeetOf(f, LiveIn(f), s)]
===============================================================================

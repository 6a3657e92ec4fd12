------------------------------ MODULE Initializer -----------------------------
(***************************************************************************)
(* What an initialiser means, without positions in memory: an element is   *)
(* named by its indices, a value goes to the element after the one before  *)
(* it, and a list in braces stands for the next sub-array, which it may    *)
(* leave incomplete.  A list that does not start where a sub-array does is *)
(* not given a meaning.                                                    *)
(***************************************************************************)
EXTENDS Integers, FiniteSetsExt, SequencesExt

CONSTANTS
    Shapes,     \* the dimensions of arrays; <<>> is a scalar
    MaxItems    \* bound on the values and lists of an initialiser

VARIABLES
    shape,
    status,     \* "reading", "done", "refused" or "no meaning"
    cursor,     \* indices of the next element; 0 counts whole arrays
    lists,      \* where the lists that are open began, innermost last
    items,      \* values and lists read
    element     \* for the indices of an element the item it was given, or 0

vars == <<shape, status, cursor, lists, items, element>>

IndexVectors ==
    {v \in [DOMAIN shape -> 0..Max({shape[d] : d \in DOMAIN shape} \cup {0})] :
        \A d \in DOMAIN shape : v[d] < shape[d]}

Init ==
    /\ shape \in Shapes
    /\ status = "reading"
    /\ cursor = [d \in 0..Len(shape) |-> 0]
    /\ lists = <<>>
    /\ items = 0
    /\ element = [v \in IndexVectors |-> 0]

\* the indices of the sub-array of d indices after the one at c
Following(c, d) ==
    LET moved == Max({k \in 1..d : c[k] + 1 < shape[k]} \cup {0})
    IN  [k \in DOMAIN c |-> IF k < moved THEN c[k]
                            ELSE IF k = moved THEN c[k] + 1 ELSE 0]

StartsSubarray(c, d) == \A k \in DOMAIN c : k > d => c[k] = 0

\* nothing of the sub-array at c, or part of it, or all of it was given
Within(d, c) == \/ cursor = Following(c, d)
                \/ \A k \in 0..d : cursor[k] = c[k]

Reading == status = "reading"
Started == items > 0

More == Reading /\ items < MaxItems /\ (Started => lists # <<>>)

Single ==
    /\ More
    /\ items' = items + 1
    /\ IF cursor[0] > 0
       THEN status' = "refused" /\ UNCHANGED <<cursor, element>>
       ELSE /\ element' = [element EXCEPT ![[d \in DOMAIN shape |-> cursor[d]]] = items']
            /\ cursor' = Following(cursor, Len(shape))
            /\ status' = IF lists = <<>> THEN "done" ELSE status
    /\ UNCHANGED <<shape, lists>>

OpenList ==
    /\ More
    /\ IF Len(lists) = Len(shape) THEN status' = "refused" /\ UNCHANGED lists
       ELSE /\ StartsSubarray(cursor, Len(lists))
            /\ lists' = Append(lists, cursor)
            /\ UNCHANGED status
    /\ items' = items + 1
    /\ UNCHANGED <<shape, cursor, element>>

CloseList ==
    /\ Reading /\ lists # <<>>
    /\ LET d == Len(lists) - 1
           c == Last(lists)
       IN  IF Within(d, c)
           THEN /\ cursor' = Following(c, d)
                /\ lists' = Front(lists)
                /\ status' = IF d = 0 THEN "done" ELSE status
           ELSE status' = "refused" /\ UNCHANGED <<cursor, lists>>
    /\ UNCHANGED <<shape, items, element>>

\* a list that starts inside of a sub-array: it may be refused, and is not
\* defined otherwise, nor is what comes after it
NoMeaning ==
    \/ /\ More /\ Len(lists) < Len(shape)
       /\ ~ StartsSubarray(cursor, Len(lists))
       /\ status' \in {"refused", "no meaning"}
    \/ status = "no meaning" /\ status' = "no meaning"

Next == Single \/ OpenList \/ CloseList \/ NoMeaning

Spec == Init /\ [][Next]_vars
===============================================================================

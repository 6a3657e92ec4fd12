------------------------------ MODULE InitLayout ------------------------------
(***************************************************************************)
(* InitVal (front/index_scanner.cpp): the shape of an array, where each    *)
(* value of its initialiser goes in a flat table, and the position in that *)
(* table of an element or a sub-array with given indices.                  *)
(*                                                                         *)
(* The initialiser is read as calc walks it: values, and lists that are    *)
(* opened and closed by the recursive calls.  Values are numbered in the   *)
(* order in which they and the lists appear.                               *)
(***************************************************************************)
EXTENDS Integers, SequencesExt

CONSTANTS
    Shapes,     \* the dimensions of arrays; <<>> is a scalar
    MaxItems    \* bound on the values and lists of an initialiser

Product(s) ==
    LET upto[k \in 0..Len(s)] == IF k = 0 THEN 1 ELSE upto[k - 1] * s[k]
    IN  upto[Len(s)]

\* a dimension of zero, which the code accepts, divides by zero
ASSUME ShapesAssumption ==
    /\ MaxItems \in Nat
    /\ \A dims \in Shapes : /\ dims \in Seq(Nat \ {0})
                            /\ Product(dims) \in Nat

VARIABLES
    shape, totelems,
    value,                      \* 0 is a null pointer
    calcpos, calcdim, calcstep,
    calls,                      \* dimsize and posbegin of the calls of calc in progress
    status, items,
    begun                       \* [dim, pos] of all lists so far: history

statevars == <<shape, totelems>>
calcvars  == <<value, calcpos, calcdim, calcstep, calls>>
vars      == <<statevars, calcvars, status, items, begun>>

\* InitVal(), init
Init ==
    /\ shape \in Shapes
    /\ totelems = Product(shape)
    /\ value = [p \in 0..(totelems - 1) |-> 0]
    /\ calcpos = 0 /\ calcdim = 0 /\ calcstep = totelems
    /\ calls = <<>>
    /\ status = "reading"
    /\ items = 0
    /\ begun = {}

More == status = "reading" /\ items < MaxItems /\ (items > 0 => calls # <<>>)

\* scanerror: the compiler exits
Refuse == status' = "refused" /\ UNCHANGED <<statevars, calcvars, begun>>

-------------------------------------------------------------------------------
(* calc.                                                                   *)

\* defect: the position is left where it is after the last element
Single_StayAtEnd ==
    /\ More
    /\ items' = items + 1
    /\ IF calcpos >= totelems THEN Refuse
       ELSE /\ value' = [value EXCEPT ![calcpos] = items']
            /\ calcpos' = IF calcpos + 1 < totelems THEN calcpos + 1 ELSE calcpos
            /\ status' = IF calls = <<>> THEN "done" ELSE status
            /\ UNCHANGED <<statevars, calcdim, calcstep, calls, begun>>

\* ! v->is_many
Single ==
    /\ More
    /\ items' = items + 1
    /\ IF calcpos >= totelems THEN Refuse
       ELSE /\ value' = [value EXCEPT ![calcpos] = items']
            /\ calcpos' = calcpos + 1
            /\ status' = IF calls = <<>> THEN "done" ELSE status
            /\ UNCHANGED <<statevars, calcdim, calcstep, calls, begun>>

\* v->is_many, up to the loop over the list
OpenList ==
    /\ More
    /\ items' = items + 1
    /\ LET dimsize == shape[calcdim + 1]
           step    == calcstep \div dimsize
       IN  IF calcdim = Len(shape) THEN Refuse
           ELSE IF calcpos % step # 0 THEN Refuse
           ELSE /\ calcdim' = calcdim + 1
                /\ calcstep' = step
                /\ calls' = Append(calls, [posbegin |-> calcpos, dimsize |-> dimsize])
                /\ begun' = begun \cup {[dim |-> calcdim, pos |-> calcpos]}
                /\ UNCHANGED <<statevars, value, calcpos, status>>

\* defect: calcstep stays that of the list's items
CloseList_StepKept ==
    /\ status = "reading" /\ calls # <<>>
    /\ LET call == Last(calls)
           end  == call.posbegin + calcstep * call.dimsize
       IN  IF calcpos > end THEN Refuse
           ELSE /\ calcpos' = end
                /\ calcdim' = calcdim - 1
                /\ calls' = Front(calls)
                /\ status' = IF calls' = <<>> THEN "done" ELSE status
                /\ UNCHANGED <<statevars, value, calcstep, begun>>
    /\ UNCHANGED items

\* defect: the elements that the list leaves out are not skipped
CloseList_NoSkip ==
    /\ status = "reading" /\ calls # <<>>
    /\ LET call == Last(calls)
           end  == call.posbegin + calcstep * call.dimsize
       IN  IF calcpos > end THEN Refuse
           ELSE /\ calcpos' = calcpos
                /\ calcstep' = calcstep * call.dimsize
                /\ calcdim' = calcdim - 1
                /\ calls' = Front(calls)
                /\ status' = IF calls' = <<>> THEN "done" ELSE status
                /\ UNCHANGED <<statevars, value, begun>>
    /\ UNCHANGED items

\* the rest of calc, after the loop
CloseList ==
    /\ status = "reading" /\ calls # <<>>
    /\ LET call == Last(calls)
           end  == call.posbegin + calcstep * call.dimsize
       IN  IF calcpos > end THEN Refuse
           ELSE /\ calcpos' = end
                /\ calcstep' = calcstep * call.dimsize
                /\ calcdim' = calcdim - 1
                /\ calls' = Front(calls)
                /\ status' = IF calls' = <<>> THEN "done" ELSE status
                /\ UNCHANGED <<statevars, value, begun>>
    /\ UNCHANGED items

Over == status # "reading" /\ UNCHANGED vars

Next == Single \/ OpenList \/ CloseList \/ Over

Spec == Init /\ [][Next]_vars

-------------------------------------------------------------------------------
(* Positions, once the shape is known.                                     *)

\* defect: the size of a dimension is divided out one dimension late
ScalarIndex_LateStep(dims, idx) ==
    LET at[d \in 0..Len(idx)] ==
            IF d = 0
            THEN [step |-> Product(dims), pos |-> 0]
            ELSE [step |-> at[d - 1].step \div dims[d],
                  pos  |-> at[d - 1].pos + at[d - 1].step * idx[d]]
    IN  at[Len(idx)].pos

\* _get_scalar_index; idx may have fewer indices than there are dimensions
ScalarIndex(dims, idx) ==
    LET at[d \in 0..Len(idx)] ==
            IF d = 0
            THEN [step |-> Product(dims), pos |-> 0]
            ELSE LET step == at[d - 1].step \div dims[d]
                 IN  [step |-> step, pos |-> at[d - 1].pos + step * idx[d]]
    IN  at[Len(idx)].pos

\* the shape of a parameter a[][...] (FuncDefParam)
ParamShape(rest) == <<1>> \o rest

-------------------------------------------------------------------------------
(* Properties.                                                             *)

RowSize(d) == Product(SubSeq(shape, d + 1, Len(shape)))

\* calcstep is divided and multiplied on the way down and up: it is always
\* the size of what an item of the innermost list stands for.
TypeOK ==
    /\ status \in {"reading", "done", "refused"}
    /\ calcdim = Len(calls) /\ calcdim \in 0..Len(shape)
    /\ calcstep = RowSize(calcdim)
    /\ calcpos \in Nat
    /\ DOMAIN value = 0..(totelems - 1)
    /\ \A p \in DOMAIN value : value[p] \in 0..items

\* No two values of an initialiser go to one element, and they are laid out in
\* the order in which they are written: what is left out stays zero, behind
\* which nothing is ever given a value (calc never goes back).
NeverBack ==
    [][value' # value =>
          \A p \in DOMAIN value : value'[p] # value[p] =>
              \A q \in p..(totelems - 1) : value[q] = 0]_vars

Aligned(list) == list.pos % RowSize(list.dim) = 0

\* the indices of a position, 0 counting whole arrays
IndicesAt(pos) ==
    [d \in 0..Len(shape) |-> IF d = 0 THEN pos \div totelems
                             ELSE (pos \div RowSize(d)) % shape[d]]

IndexVectors ==
    {v \in [DOMAIN shape -> 0..Max({shape[d] : d \in DOMAIN shape} \cup {0})] :
        \A d \in DOMAIN shape : v[d] < shape[d]}

Meaning == INSTANCE Initializer WITH
    cursor  <- IndicesAt(calcpos),
    lists   <- [i \in DOMAIN calls |-> IndicesAt(calls[i].posbegin)],
    status  <- IF \E list \in begun : ~ Aligned(list) THEN "no meaning" ELSE status,
    element <- [v \in IndexVectors |-> value[ScalarIndex(shape, v)]]

\* Reading an element by its indices finds the item that the initialiser gives
\* to these indices, or none, at every moment and for every nesting of lists;
\* what does not fit is refused.  Lists that do not start where a sub-array does are left out.
ImplementsInitializer == Meaning!Spec

\* A sub-array that is passed to a function, whose parameter has dimensions of
\* its own, is the same elements there, however far the first index goes.
PassedInPlace ==
    \A v \in IndexVectors : \A k \in DOMAIN shape :
        LET passed == SubSeq(v, 1, k - 1)
            inside == SubSeq(v, k, Len(v))
            param  == ParamShape(SubSeq(shape, k + 1, Len(shape)))
        IN  ScalarIndex(shape, v) =
                ScalarIndex(shape, passed) + ScalarIndex(param, inside)

\* "initializer not aligned across dimension": in an initialiser that is accepted
\* every list starts where a sub-array of its dimension does.
ListsAligned == status = "done" => \A list \in begun : Aligned(list)
===============================================================================

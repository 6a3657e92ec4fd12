------------------------------- MODULE SourceExec -----------------------------
(***************************************************************************)
(* What the body of a function means: its tree, run without being          *)
(* translated.  This is no code of the compiler but the reference its      *)
(* statements are compared with.                                           *)
(*                                                                         *)
(* C leaves the order of operands open; the one chosen here is the one     *)
(* the compiler has to keep to: those that compute anything from left to   *)
(* right, and after them, when the operator or the call is run, those that *)
(* are scalars.  A call among the operands may change a global one.        *)
(*                                                                         *)
(* A run is [todo, vals, env, arr]: the trees still to be run, the first   *)
(* one next; values computed and not used yet; the scalars; the array.     *)
(***************************************************************************)
EXTENDS Operators, Syntax, SequencesExt

IsLeaf(e) == e.node = "leaf"
Inner(es) == SelectSeq(es, LAMBDA e : ~ IsLeaf(e))

\* what is left of a tree when operands have been computed: all of them; the
\* second of && and ||; nothing, but a while goes round again
Apply(n)  == [node |-> "apply", of |-> n]
Second(n) == [node |-> "second", of |-> n]
Again(n)  == [node |-> "again", of |-> n]

Operands(n) ==
    CASE n.node = "second" -> <<n.of.sub[2]>>
      [] n.node = "apply"  ->
           IF n.of.node \in {"and", "or", "ifonly", "ifelse", "while"}
           THEN <<n.of.sub[1]>> ELSE n.of.sub

\* an item with its operands before it
Computed(n) == Append(Inner(Operands(n)), n)

Initially(body, env) ==
    [todo |-> <<body, Ret(Leaf(Zero))>>, vals |-> <<>>, env |-> env, arr |-> NoWords]

-------------------------------------------------------------------------------
Item(run) == Head(run.todo)
Rest(run)  == Tail(run.todo)
Unused(run) == Len(run.vals) - Len(Inner(Operands(Item(run))))

\* the values of the operands of the next item
Given(run) ==
    LET es == Operands(Item(run))
    IN  [i \in DOMAIN es |->
            IF IsLeaf(es[i]) THEN Value(run.env, es[i].var)
            ELSE run.vals[Unused(run) + Len(Inner(SubSeq(es, 1, i)))]]

\* the next item is done: more follows, or it has a value
Going(run, more)  == [run EXCEPT !.todo = more \o Rest(run),
                                 !.vals = SubSeq(@, 1, Unused(run))]
Giving(run, v)    == [run EXCEPT !.todo = Rest(run),
                                 !.vals = Append(SubSeq(@, 1, Unused(run)), v)]
Setting(run, i, v) == [Going(run, <<>>) EXCEPT !.arr[i] = v]

AtEvent(run) == /\ Item(run).node = "apply"
                /\ Item(run).of.node \in {"call", "callstmt", "return", "returnvoid"}
AtCall(run)  == AtEvent(run) /\ Item(run).of.node \in {"call", "callstmt"}

\* the call returns v, and leaves w in the global and arr in the array
Returned(run, v, w, arr) ==
    LET after == IF Item(run).of.node = "call" THEN Giving(run, v) ELSE Going(run, <<>>)
    IN  [after EXCEPT !.env[Glob] = w, !.arr = arr]

\* an item whose operands have been computed
Applied(run) ==
    LET n   == Item(run).of
        arg == Given(run)
    IN  CASE n.node = "unary"  -> Giving(run, UnaryOp(n.fn, arg[1]))
          [] n.node = "binary" -> Giving(run, BinaryOp(n.fn, arg[1], arg[2]))
          [] n.node = "and" ->
               IF arg[1] = 0 THEN Giving(run, 0) ELSE Going(run, Computed(Second(n)))
          [] n.node = "or" ->
               IF arg[1] # 0 THEN Giving(run, 1) ELSE Going(run, Computed(Second(n)))
          [] n.node = "element"   -> Giving(run, run.arr[arg[1]])
          [] n.node = "elementat" -> Giving(run, run.arr[n.at])
          [] n.node = "address"   -> Giving(run, Base + arg[1])
          [] n.node = "exp"    -> Going(run, <<>>)
          [] n.node = "assign" -> [Going(run, <<>>) EXCEPT !.env[n.var] = arg[1]]
          [] n.node = "assignelement" -> Setting(run, arg[2], arg[1])
          [] n.node = "assignat"      -> Setting(run, n.at, arg[1])
          [] n.node = "ifonly" -> Going(run, IF arg[1] # 0 THEN <<n.sub[2]>> ELSE <<>>)
          [] n.node = "ifelse" -> Going(run, <<n.sub[IF arg[1] # 0 THEN 2 ELSE 3]>>)
          [] n.node = "while"  ->
               Going(run, IF arg[1] # 0 THEN <<n.sub[2], Again(n)>> ELSE <<>>)

\* where the innermost loop goes round again
LoopEnd(todo) ==
    CHOOSE k \in DOMAIN todo : /\ todo[k].node = "again"
                               /\ \A j \in 1..(k - 1) : todo[j].node # "again"

\* a local array is zero but for its initialisers
Initialise(es) ==
    SelectSeq([i \in DOMAIN es |-> AssignAt(LocArr, i - 1, es[i])],
              LAMBDA s : s.sub[1] # NoValue)

\* one step that is no event
Step(run) ==
    LET n == Item(run)
        to(todo) == [run EXCEPT !.todo = todo]
    IN  CASE n.node = "apply"  -> Applied(run)
          [] n.node = "second" -> Giving(run, Bool(Given(run)[1] # 0))
          [] n.node = "again"  -> to(Computed(Apply(n.of)) \o Rest(run))
          [] n.node = "block"  -> to(n.sub \o Rest(run))
          [] n.node = "break"  -> to(SubSeq(run.todo, LoopEnd(run.todo) + 1, Len(run.todo)))
          [] n.node = "continue" -> to(SubSeq(run.todo, LoopEnd(run.todo), Len(run.todo)))
          [] n.node = "declarray" ->
               [to(Initialise(n.sub) \o Rest(run)) EXCEPT !.arr = [i \in DOMAIN @ |-> 0]]
          [] OTHER -> to(Computed(Apply(n)) \o Rest(run))
===============================================================================

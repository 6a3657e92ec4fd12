------------------------------- MODULE RegAlloc -------------------------------
(***************************************************************************)
(* IrFuncDef::regalloc (back/regalloc.cpp): from the sets of alive scalars *)
(* to a register or a stack slot for each.  The interference graph is      *)
(* taken apart node by node (simplify, or spill when every node is of high *)
(* degree), the removed nodes are given registers in the reverse order     *)
(* (select), following recommendations learnt from moves, calls and        *)
(* parameters where possible, and registers are then renamed so that each  *)
(* argument is where the caller puts it (fix).                             *)
(*                                                                         *)
(* Where the code takes the first element of an unordered_set or walks an  *)
(* unordered_map, the model takes any.                                     *)
(***************************************************************************)
EXTENDS Places, SequencesExt

CONSTANT Inputs         \* functions with their alive sets, [func, alive, arraysize]

K == Cardinality(AvailRegs)

-------------------------------------------------------------------------------
\* collect_correlation: the graph on what is alive before the statements.
Interferes(input) ==
    [x \in Pooled(input) |->
        {y \in Pooled(input) \ {x} :
            \E s \in Reached(input.func) : {x, y} \subseteq input.alive[s]}]

\* Functions have at most as many parameters as there are registers to pass
\* them in: further ones are outside what the back end supports.
ASSUME InputsAssumption == \A input \in Inputs :
    /\ WellFormed(input.func)
    /\ IsFiniteSet(Pooled(input))
    /\ input.arraysize \in Nat
    /\ input.func.params \in 0..MaxArgs
    /\ \A x \in Pooled(input) :
         IsArg(x) => \E i \in 0..(input.func.params - 1) : x = Arg(i)

-------------------------------------------------------------------------------
(* The Recommender: scalars that had better share a register form groups,  *)
(* and a group may be labelled with the register it had better get.  The   *)
(* union-find forest is represented by the root of each scalar.            *)

\* insert does not replace a label that is there already
SetLabel(rec, x, reg) ==
    LET root == rec.root[x]
    IN  IF rec.label[root] = NoReg
        THEN [rec EXCEPT !.label[root] = reg] ELSE rec

Unite(rec, x, y) ==
    LET rx == rec.root[x]
        ry == rec.root[y]
    IN  IF rx = ry
        THEN rec
        ELSE [root  |-> [v \in DOMAIN rec.root |->
                            IF rec.root[v] = rx THEN ry ELSE rec.root[v]],
              label |-> IF rec.label[ry] = NoReg
                        THEN [rec.label EXCEPT ![ry] = rec.label[rx]]
                        ELSE rec.label]

MarkStmt(rec, stmt) ==
    LET src == stmt.args[1]
    IN  CASE stmt.op = "mov" /\ {stmt.dest, src} \cap Unpooled = {} ->
               Unite(rec, stmt.dest, src)
          [] stmt.op = "return" /\ src \notin Unpooled ->
               SetLabel(rec, src, ArgReg[0])
          [] stmt.op = "call" /\ stmt.dest \notin Unpooled ->
               SetLabel(rec, stmt.dest, ArgReg[0])
          [] stmt.op = "param" /\ src \notin Unpooled ->
               SetLabel(rec, src, ArgReg[stmt.label])
          [] OTHER -> rec

\* parameters first, then the statements that were not removed, in order
ScanRecommendations(func) ==
    LET args == {Arg(i) : i \in 0..(func.params - 1)}
        read == {func.stmts[s].args[1] :
                    s \in {t \in Lines(func) : func.stmts[t].op = "param"}}
        all  == (Vars(func) \cup args \cup read) \ Unpooled
        none == [root  |-> [v \in all |-> v],
                 label |-> [v \in all |-> IF v \in args
                                          THEN ArgReg[v - REGUID_ARG_OFFSET]
                                          ELSE NoReg]]
        kept == SelectSeq([s \in 1..Len(func.stmts) |-> s],
                          LAMBDA s : s \in Reached(func))
    IN  FoldLeft(LAMBDA rec, s : MarkStmt(rec, func.stmts[s]), none, kept)

Recommended(rec, x) == rec.label[rec.root[x]]

-------------------------------------------------------------------------------
VARIABLES in,           \* the function being allocated
          nodes,        \* graph.nodes: not yet removed
          edges,        \* graph.edges, among nodes
          removed,      \* graph.edges_removed
          degrees,      \* graph.degrees
          stk,          \* stk_colorable
          vreg,         \* vreg_map
          spillsize,    \* stack words used so far
          rec,          \* the Recommender
          argidx        \* the argument fix reaches next

vars == <<in, nodes, edges, removed, degrees, stk, vreg, spillsize, rec, argidx>>

IsMapped(x) == x \in DOMAIN vreg /\ vreg[x] # Unmapped

Init ==
    /\ in \in Inputs
    /\ nodes = Pooled(in)
    /\ edges = Interferes(in)
    /\ removed = [x \in Pooled(in) |-> {}]
    /\ degrees = [x \in Pooled(in) |-> Cardinality(Interferes(in)[x])]
    /\ stk = <<>>
    /\ vreg = [x \in Pooled(in) |-> Unmapped]
    /\ spillsize = in.arraysize           \* local arrays were mapped first
    /\ rec = ScanRecommendations(in.func)
    /\ argidx = 0

\* defect: the degrees of the neighbours are left as they were
RmNode_DegreesKept(x) ==
    LET gone(y) == IF y = x THEN edges[x] ELSE edges[y] \cap {x}
    IN  /\ nodes' = nodes \ {x}
        /\ edges' = [y \in DOMAIN edges |-> edges[y] \ gone(y)]
        /\ removed' = [y \in DOMAIN edges |-> removed[y] \cup gone(y)]
        /\ degrees' = [degrees EXCEPT ![x] = 0]

\* rmnode, with rmedge for each of its edges
RmNode(x) ==
    LET gone(y) == IF y = x THEN edges[x] ELSE edges[y] \cap {x}
    IN  /\ nodes' = nodes \ {x}
        /\ edges' = [y \in DOMAIN edges |-> edges[y] \ gone(y)]
        /\ removed' = [y \in DOMAIN edges |-> removed[y] \cup gone(y)]
        /\ degrees' = [y \in DOMAIN edges |-> degrees[y] - Cardinality(gone(y))]

\* defects: as many neighbours as registers; the degree of the whole graph
Colorable_OneTooMany(x) == degrees[x] <= K
Colorable_Stale(x)      == Cardinality(Interferes(in)[x]) < K

Colorable(x) == degrees[x] < K

Simplify(x) ==
    /\ x \in nodes
    /\ Colorable(x)
    /\ RmNode(x)
    /\ stk' = Append(stk, x)
    /\ UNCHANGED <<in, vreg, spillsize, rec, argidx>>

\* defect: an argument may be spilled too
CanSacrifice_Any(x) == x \in nodes

\* get_sacrificed_node: arguments are never spilled
CanSacrifice(x) == x \in nodes /\ ~ IsArg(x)

\* defects: the slot is not counted; the node is also pushed for a register
Spill_SlotUncounted(x) ==
    /\ \A y \in nodes : ~ Colorable(y)
    /\ CanSacrifice(x)
    /\ RmNode(x)
    /\ vreg' = [vreg EXCEPT ![x] = OnStack(spillsize)]
    /\ UNCHANGED <<in, stk, spillsize, rec, argidx>>

Spill(x) ==
    /\ \A y \in nodes : ~ Colorable(y)
    /\ CanSacrifice(x)
    /\ RmNode(x)
    /\ vreg' = [vreg EXCEPT ![x] = OnStack(spillsize)]
    /\ spillsize' = spillsize + 1
    /\ UNCHANGED <<in, stk, rec, argidx>>

Simplified == nodes = {}

\* defect: looks at the edges still in the graph, of which none is left
UsefulRegs_Remaining(x) ==
    {r \in AvailRegs : \A y \in edges[x] : vreg[y] # InReg(r)}

\* choose_reg: registers no neighbour has
UsefulRegs(x) ==
    {r \in AvailRegs : \A y \in removed[x] : vreg[y] # InReg(r)}

\* defect: the top is read and not popped
Select_Peek ==
    /\ Simplified
    /\ stk # <<>>
    /\ LET x == stk[Len(stk)]
           wanted == Recommended(rec, x)
       IN  \E r \in UsefulRegs(x) :
             /\ wanted \in UsefulRegs(x) => r = wanted
             /\ vreg' = [vreg EXCEPT ![x] = InReg(r)]
             /\ rec' = SetLabel(rec, x, r)
    /\ UNCHANGED <<in, nodes, edges, removed, degrees, stk, spillsize, argidx>>

Select ==
    /\ Simplified
    /\ stk # <<>>
    /\ LET x == stk[Len(stk)]
           wanted == Recommended(rec, x)
       IN  \E r \in UsefulRegs(x) :
             /\ wanted \in UsefulRegs(x) => r = wanted
             /\ vreg' = [vreg EXCEPT ![x] = InReg(r)]
             /\ rec' = SetLabel(rec, x, r)
    /\ stk' = SubSeq(stk, 1, Len(stk) - 1)
    /\ UNCHANGED <<in, nodes, edges, removed, degrees, spillsize, argidx>>

Selected == Simplified /\ stk = <<>>

\* defect: b is renamed to a and a stays
Swapped_OneWay(a, b) ==
    [x \in DOMAIN vreg |-> IF vreg[x] = InReg(b) THEN InReg(a) ELSE vreg[x]]

\* swap_preg, on every scalar that is in a register
Swapped(a, b) ==
    [x \in DOMAIN vreg |-> CASE vreg[x] = InReg(a) -> InReg(b)
                             [] vreg[x] = InReg(b) -> InReg(a)
                             [] OTHER -> vreg[x]]

\* One round of the loop "check args".
FixArg ==
    /\ Selected
    /\ argidx < in.func.params
    /\ LET uid == Arg(argidx)
       IN  vreg' = IF IsMapped(uid) /\ vreg[uid].reg # ArgReg[argidx]
                   THEN Swapped(vreg[uid].reg, ArgReg[argidx])
                   ELSE vreg
    /\ argidx' = argidx + 1
    /\ UNCHANGED <<in, nodes, edges, removed, degrees, stk, spillsize, rec>>

Done == Selected /\ argidx = in.func.params

Terminated == Done /\ UNCHANGED vars

Next == \/ \E x \in nodes : Simplify(x)
        \/ \E x \in nodes : Spill(x)
        \/ Select
        \/ FixArg
        \/ Terminated

Spec == Init /\ [][Next]_vars

\* a loop of the compiler: nothing else can hold it up
FairSpec == Spec /\ WF_vars(Next)

-------------------------------------------------------------------------------
(* Properties.                                                             *)

\* Every part of the state is about the function's pooled scalars.
TypeOK ==
    /\ nodes \subseteq Pooled(in)
    /\ edges \in [Pooled(in) -> SUBSET Pooled(in)]
    /\ removed \in [Pooled(in) -> SUBSET Pooled(in)]
    /\ degrees \in [Pooled(in) -> Nat]
    /\ stk \in Seq(Pooled(in))
    /\ DOMAIN vreg = Pooled(in)
    /\ \A x \in Pooled(in) :
         vreg[x] \in {Unmapped} \cup {InReg(r) : r \in AvailRegs}
                     \cup {OnStack(n) : n \in 0..(spillsize - 1)}
    /\ spillsize \in Nat
    /\ argidx \in 0..in.func.params

\* Taking the graph apart forgets no edge and counts none twice: what remains
\* is the interference among the remaining nodes, the rest is in removed.
GraphConsistent ==
    \A x \in Pooled(in) :
        /\ edges[x] = IF x \in nodes THEN Interferes(in)[x] \cap nodes ELSE {}
        /\ removed[x] = Interferes(in)[x] \ edges[x]
        /\ degrees[x] = Cardinality(edges[x])

\* A scalar is in the graph, on the stack or mapped: none is left without a
\* place and none is given two.
EachInOnePlace ==
    /\ \A i, j \in 1..Len(stk) : stk[i] = stk[j] => i = j
    /\ \A x \in Pooled(in) :
         IF x \in nodes \/ \E i \in 1..Len(stk) : stk[i] = x
         THEN vreg[x] = Unmapped
         ELSE vreg[x] # Unmapped
    /\ \A i \in 1..Len(stk) : stk[i] \notin nodes

\* The assertion of choose_reg: a scalar taken for colorable finds a register
\* its neighbours left, however they were coloured.
RegisterLeft == Simplified /\ stk # <<>> => UsefulRegs(stk[Len(stk)]) # {}

\* The assertion of get_sacrificed_node: with every node of high degree, one
\* of them is not an argument.
SacrificeExists ==
    ~ Simplified /\ (\A x \in nodes : ~ Colorable(x)) =>
        \E x \in nodes : CanSacrifice(x)

\* check_alloc_does_not_conflict, at every moment and not only where the code
\* asserts it: scalars alive together never share a place, also while
\* registers are renamed for the arguments.
NoConflict ==
    \A s \in Reached(in.func) : \A x, y \in in.alive[s] :
        x # y /\ vreg[x] # Unmapped => vreg[x] # vreg[y]

\* Spilled scalars have a slot each, above the local arrays; arguments are in
\* registers.
SlotsApart ==
    \A x \in Pooled(in) : vreg[x].pos = "stack" =>
        /\ ~ IsArg(x)
        /\ vreg[x].slot \in in.arraysize..(spillsize - 1)
        /\ \A y \in Pooled(in) : vreg[y] = vreg[x] => y = x

\* "check args": in the end every argument is in the register it is passed in.
ArgsInPlace ==
    Done => \A i \in 0..(in.func.params - 1) :
                IsMapped(Arg(i)) => vreg[Arg(i)] = InReg(ArgReg[i])

\* Any two arguments that are used are alive together somewhere: so they are
\* if both are alive when the function is entered.
ArgsMeet ==
    \A i, j \in 0..(in.func.params - 1) :
        i # j /\ {Arg(i), Arg(j)} \subseteq Pooled(in) =>
            Arg(j) \in Interferes(in)[Arg(i)]

\* Then "check args" succeeds: no later swap moves an argument that is in place.
ArgsInPlaceIfMeet ==
    ArgsMeet =>
        \A i \in 0..(argidx - 1) :
            IsMapped(Arg(i)) => vreg[Arg(i)] = InReg(ArgReg[i])

\* Allocation ends.
Terminates == <>Done
===============================================================================

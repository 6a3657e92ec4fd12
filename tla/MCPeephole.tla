------------------------------- MODULE MCPeephole -----------------------------
(***************************************************************************)
(* Functions of two arguments that assign a value, test a condition, loop  *)
(* and use an array: every relation, comparisons of comparisons, short     *)
(* circuits, calls as values and as conditions, and operands that a call   *)
(* beside them changes.                                                    *)
(***************************************************************************)
EXTENDS Peephole

CONSTANTS pa, pb, vx

Gen == INSTANCE GenIr

L(v) == Leaf(v)
A == L(pa)
B == L(pb)
X == L(vx)

Compare(o) == OpBinary(o, A, B)
Tested(o)  == OpBinary(o, Compare("<"), L(Zero))
CallF      == CallOf("f", <<B, Binary(A, B)>>)

Conds == {Compare(o) : o \in Rels} \cup {Tested(o) : o \in Rels}
         \cup {A, CallF, OpUnary("!", Compare("<=")),
               LogicAnd(Compare("<"), LogicOr(B, CallF)),
               OpBinary("==", Tested("=="), L(Zero))}

\* operands that are read when the call beside them has changed them
Late == {Binary(L(Glob), CallF), CallOf("f", <<L(Glob), CallF>>)}

Results == {B, Unary(A), Binary(A, B), CallF, Compare(">"),
            LogicAnd(A, Binary(A, B)), LogicOr(OpUnary("+", A), CallF)} \cup Late

Put(v) == CallStmt("putint", <<v>>)

Straight(c, v) == Block(<<Assign(vx, v), IfElse(c, Put(X), Assign(Glob, v)),
                          Put(L(Glob)), Ret(c)>>)

Loop(c, v) == Block(<<While(c, Block(<<Assign(pa, v), Put(A)>>)),
                      Assign(vx, A), If(c, Ret(X))>>)

Silent(c) == While(c, Assign(pa, Binary(A, L(One))))

\* loops left and restarted from within loops and conditions
Left(c) == Block(<<While(A, Block(<<Assign(pa, Binary(A, L(One))),
                                    While(c, IfElse(B, Break, Assign(pb, A))),
                                    If(Compare("=="), Block(<<Put(A), Continue>>)),
                                    IfElse(A, Assign(pb, L(Zero)), Break), StmtExp(c)>>)),
                   Put(B)>>)

\* int l[3] = {v, , a}, x = l[b];  l[x] = v;  l[2] = l[1];  g(&l[x]);  return l[a] + v;
Array(v) == Block(<<DeclArray(<<v, NoValue, A>>), Assign(vx, Element(LocArr, B)),
                    AssignElement(LocArr, X, v), AssignAt(LocArr, 2, ElementAt(LocArr, 1)),
                    CallStmt("g", <<Address(LocArr, X)>>),
                    Ret(Binary(Element(LocArr, A), v))>>)

Function(body) == [params |-> 2, body |-> body, stmts |-> Gen!GenFunc(2, FALSE, body).stmts]

Pairs == Conds \X {CallF, Compare(">")}
         \cup {Compare("<"), Tested("!="), CallF} \X Results

MCFuncs == {Function(Straight(p[1], p[2])) : p \in Pairs}
           \cup {Function(Loop(p[1], p[2])) : p \in Pairs}
           \cup {Function(f) : f \in {Silent(c) : c \in Conds} \cup {Left(c) : c \in {Compare("=="), CallF}}
                                      \cup {Array(v) : v \in {B, CallF}}}

ASSUME MCFuncsAssumption == \A f \in MCFuncs : Temporaries(f.stmts)
===============================================================================

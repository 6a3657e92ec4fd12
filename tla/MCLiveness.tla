------------------------------ MODULE MCLiveness ------------------------------
(***************************************************************************)
(* Functions of two arguments and two locals for the liveness analysis:    *)
(* straight code, branches, loops with break and continue, nested loops,   *)
(* short circuits and code after a return that nothing reaches.            *)
(***************************************************************************)
EXTENDS Liveness

CONSTANTS pa, pb, vx, vy

G == INSTANCE GenIr WITH Zero <- NoVar, One <- NoVar,
                      Far <- NoVar, FarOffset <- 2

L(v) == G!Leaf(v)

Simple == <<G!Assign(vx, L(pa)),
            G!Assign(vy, G!Binary(L(vx), L(pb))),
            G!Assign(vx, G!CallOf("f", <<L(vy), L(vx)>>)),
            G!AssignElement(LocArr, L(vy), L(NoVar))>>

Both == G!LogicAnd(L(pa), G!Unary(L(vy)))

\* s and t inside each kind of control flow
Shapes(s, t) ==
    <<G!Block(<<G!If(L(vx), s), t>>),
      G!IfElse(Both, s, t),
      G!While(L(vx), G!Block(<<s, G!CallStmt("g", <<L(pb)>>), t>>)),
      G!While(Both, G!Block(<<G!If(L(vx), G!Break), s, t>>)),
      G!While(L(vy), G!Block(<<s, G!IfElse(L(vx), G!Continue, t)>>)),
      G!While(L(vy), G!Block(<<G!If(L(pb), G!Ret(L(vy))), s, G!Ret(L(pa)), t>>)),
      G!While(L(vx), G!Block(<<G!While(L(vy), s), t>>))>>

Result == <<L(NoVar), G!Element(pa, L(vx))>>

MCFuncs ==
    {G!GenFunc(2, FALSE, G!Block(<<Simple[i], Shapes(Simple[j], Simple[k])[n],
                                   G!Ret(Result[r])>>)) :
        i \in 1..2, j \in 1..4, k \in 1..4, n \in 1..7, r \in 1..2}
===============================================================================

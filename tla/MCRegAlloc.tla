------------------------------ MODULE MCRegAlloc ------------------------------
(***************************************************************************)
(* Functions for the allocator with three registers, two of them argument  *)
(* registers: enough scalars alive together to spill, moves and calls that *)
(* make recommendations collide, arguments alive on entry.                 *)
(***************************************************************************)
EXTENDS RegAlloc

CONSTANTS pa, pb, vx, vy, vz

G == INSTANCE GenIr WITH Zero <- NoVar, One <- NoVar,
                      Far <- NoVar, FarOffset <- 2

L(v) == G!Leaf(v)

Sum(e1, e2) == G!Binary(e1, e2)

Starts == <<G!Assign(vx, L(pa)),
            G!Block(<<G!Assign(vy, L(pb)), G!Assign(vx, L(pa))>>),
            G!Assign(vx, G!CallOf("f", <<L(pb), L(pa)>>))>>

Middles == <<G!While(L(pb), G!Assign(vz, L(vx))),
             G!IfElse(L(pb), G!Assign(vz, L(vx)), G!Assign(vy, L(pa))),
             G!Block(<<G!Assign(vz, L(pa)), G!Assign(pa, L(vx))>>)>>

Ends == <<G!Block(<<G!CallStmt("f", <<L(vx), L(vy)>>), G!CallStmt("f", <<L(vz), L(pa)>>)>>),
          G!Ret(Sum(L(vz), L(vx))),
          G!Block(<<G!Assign(pb, L(vz)), G!Ret(L(pb)), G!Assign(vy, L(vx))>>)>>

MCFuncs ==
    {f \in {G!GenFunc(2, FALSE, G!Block(<<Starts[i], Middles[j], Ends[k]>>)) :
                i \in 1..3, j \in 1..3, k \in 1..3} : Cardinality(Vars(f)) <= 6}

MCInputs == {[func |-> f, alive |-> <<>> \o LiveIn(f), arraysize |-> 2] : f \in MCFuncs}

\* int p(int a, int b) { putint(a); int x = getint(); b = x; return b; }
\* b is written before it is read, so a and b may share a register, and the
\* call recommends a0 for what ends up in b.
Reuse == G!GenFunc(2, FALSE, G!Block(<<G!CallStmt("putint", <<L(pa)>>),
                                       G!Assign(vx, G!CallOf("getint", <<>>)),
                                       G!Assign(pb, L(vx)),
                                       G!Ret(L(pb))>>))

ReuseInputs == {[func |-> Reuse, alive |-> LiveIn(Reuse), arraysize |-> 0]}

MCArgReg == [i \in 0..1 |-> <<"a0", "a1">>[i + 1]]
===============================================================================

------------------------------ MODULE MCPrograms ------------------------------
(***************************************************************************)
(* Small programs, with their functions placed in every way the allocator  *)
(* promises: four registers, two of them to pass arguments in.  One has    *)
(* recursion and loops of calls, one has arrays.                           *)
(***************************************************************************)
EXTENDS Places, FiniteSetsExt, TLC

CONSTANTS pa, pb, vx, vy

t(n) == Tempvar(n)

MCArgReg == [i \in 0..1 |-> <<"a0", "a1">>[i + 1]]

Func(params, stmts) == [params |-> params, stmts |-> stmts]

\* int g(int a, int b) { int x = a + b; return x - a; }
Leaf == Func(2, <<IrOpBinary(vx, pa, pb), IrOpBinary(t(0), vx, pa), IrReturn(t(0)),
                  IrReturn(NoVar)>>)

\* int f(int a, int b) { if(b == 1) return a; int x = g(b, 1), z = f(-b, a); v = x + a; return z - b; }
Recursive == Func(2, <<IrCondGoto(pb, NoVar, 1),
                       IrParam(0, pb), IrParam(1, NoVar),
                       IrCall(vx, "g", <<pb, NoVar>>),
                       IrOpUnary(t(0), pb),
                       IrParam(0, t(0)), IrParam(1, pa),
                       IrCall(t(1), "f", <<t(0), pa>>),
                       IrOpBinary(Glob, vx, pa),
                       IrOpBinary(t(2), t(1), pb),
                       IrReturn(t(2)),
                       IrLabel(1),
                       IrReturn(pa),
                       IrReturn(NoVar)>>)

\* void h(int a, int b) { while(b != a) { int x = getint(); f(x, b); putint(a); b = v; } }
Looping == Func(2, <<IrLabel(1),
                     IrCondGoto(pb, pa, 2),
                     IrCall(vx, "getint", <<>>),
                     IrParam(0, vx), IrParam(1, pb),
                     IrCall(t(0), "f", <<vx, pb>>),
                     IrParam(0, pa),
                     IrCallVoid("putint", <<pa>>),
                     IrMov(pb, Glob),
                     IrGoto(1),
                     IrLabel(2),
                     IrReturnVoid>>)

\* int main() { v = getint(); int x = f(1, v), y = v; h(y, x); putint(x); return 0; }
Main == Func(0, <<IrCall(Glob, "getint", <<>>),
                  IrParam(0, NoVar), IrParam(1, Glob),
                  IrCall(vx, "f", <<NoVar, Glob>>),
                  IrMov(vy, Glob),
                  IrParam(0, vy), IrParam(1, vx),
                  IrCallVoid("h", <<vy, vx>>),
                  IrParam(0, vx),
                  IrCallVoid("putint", <<vx>>),
                  IrReturn(NoVar),
                  IrReturn(NoVar)>>)

\* int w[4];  void k(int a[], int b) { int x = a[b]; a[x] = b; x = a[1]; a[2] = x; }
Storing == Func(2, <<IrOpBinary(t(0), pa, pb), IrArrayGet(vx, t(0), 0),
                     IrOpBinary(t(1), pa, vx), IrArraySet(t(1), 0, pb),
                     IrArrayGet(vx, pa, 1), IrArraySet(pa, 2, vx),
                     IrReturnVoid>>)

\* int e(int a) { int x = w[a]; w[1] = a; v = w[3]; w[2] = v; w[v] = 1; return x; }
Sharing == Func(1, <<IrOpBinary(t(0), GlobArr, pa), IrArrayGet(vx, t(0), 0),
                     IrArraySet(GlobArr, 1, pa),
                     IrArrayGet(Glob, GlobArr, 3), IrArraySet(GlobArr, 2, Glob),
                     IrOpBinary(t(1), GlobArr, Glob), IrArraySet(t(1), 0, NoVar),
                     IrReturn(vx), IrReturn(NoVar)>>)

\* int main() { int l[4] = {}; int x = getint(); l[1] = x; l[x] = 1; x = e(x);
\*     k(&l[1], x); k(&w[1], 1); v = l[3]; x = l[2]; return x; }
Owner == Func(0, <<IrLocalArrayFillZero(LocArr), IrCall(vx, "getint", <<>>),
                   IrArraySet(LocArr, 1, vx),
                   IrOpBinary(t(0), LocArr, vx), IrArraySet(t(0), 0, NoVar),
                   IrParam(0, vx), IrCall(vx, "e", <<vx>>),
                   IrOpBinary(t(1), LocArr, NoVar),
                   IrParam(0, t(1)), IrParam(1, vx), IrCallVoid("k", <<t(1), vx>>),
                   IrOpBinary(t(2), GlobArr, NoVar),
                   IrParam(0, t(2)), IrParam(1, NoVar), IrCallVoid("k", <<t(2), NoVar>>),
                   IrArrayGet(Glob, LocArr, 3), IrArrayGet(vx, LocArr, 2),
                   IrReturn(vx), IrReturn(NoVar)>>)

-------------------------------------------------------------------------------
\* as a tuple, which TLC computes once
Analysed(name, isvoid, arraysize, func) ==
    [name |-> name, isvoid |-> isvoid, func |-> func, alive |-> <<>> \o LiveIn(func),
     calls |-> {s \in Reached(func) : IsCall(func.stmts[s])}, arraysize |-> arraysize]

G == Analysed("g", FALSE, 1, Leaf)
F == Analysed("f", FALSE, 1, Recursive)
H == Analysed("h", TRUE, 1, Looping)
M == Analysed("main", FALSE, 1, Main)
S == Analysed("k", TRUE, 0, Storing)
E == Analysed("e", FALSE, 0, Sharing)
O == Analysed("main", FALSE, 4, Owner)

\* the function placed in all ways that use at most `slots' stack slots
Compiled(input, slots) ==
    LET P       == Pooled(input)
        places  == {InReg(r) : r \in AvailRegs}
                   \cup {OnStack(n) : n \in input.arraysize..(input.arraysize + slots - 1)}
        meets(p, q) == \E st \in Reached(input.func) : {p, q} \subseteq input.alive[st]
        given   == {Arg(i) : i \in 0..(input.func.params - 1)} \cap input.alive[1]
        mayBe(p) == IF p \in given THEN {InReg(ArgReg[p - Arg(0)])}
                    ELSE {at \in places : IsArg(p) => at.pos = "reg"}
        \* one variable after the other, so that few functions are thrown away
        place(p, done) == UNION {{f @@ (p :> at) :
                                      at \in mayBe(p) \ {f[q] : q \in {q \in DOMAIN f : meets(p, q)}}}
                                 : f \in done}
        fitting == FoldSet(place, {<<>>}, P)
    IN  {[name |-> input.name, isvoid |-> input.isvoid, func |-> input.func,
          alive |-> input.alive, calls |-> input.calls,
          arraysize |-> input.arraysize, spillsize |-> input.arraysize + slots,
          vreg |-> vreg] : vreg \in fitting}

Some(input) == CHOOSE f \in Compiled(input, 0) : TRUE

\* one function is placed in every way, the others in some way
RecursivePrograms ==
    LET g == Some(G)
        f == Some(F)
        h == Some(H)
        m == Some(M)
    IN  {<<c, f, h, m>> : c \in Compiled(G, 1)}
        \cup {<<g, c, h, m>> : c \in Compiled(F, 1)}
        \cup {<<g, f, c, m>> : c \in Compiled(H, 1)}
        \cup {<<g, f, h, c>> : c \in Compiled(M, 1)}

ArrayPrograms ==
    LET k == Some(S)
        e == Some(E)
        m == Some(O)
    IN  {<<c, e, m>> : c \in Compiled(S, 1)}
        \cup {<<k, c, m>> : c \in Compiled(E, 1)}
        \cup {<<k, e, c>> : c \in Compiled(O, 1)}
===============================================================================

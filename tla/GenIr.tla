--------------------------------- MODULE GenIr --------------------------------
(***************************************************************************)
(* The translation of a function body into statements (front/gen_ir.cpp).  *)
(* Its results are the functions the models of the back end are checked    *)
(* on, so that those are functions the front end can produce.              *)
(***************************************************************************)
EXTENDS Ir, Syntax, SequencesExt

CONSTANTS
    Zero, One,      \* the literals 0 and 1
    Far,            \* the literal FarOffset
    FarOffset       \* the first offset, in words, that is no immediate

-------------------------------------------------------------------------------
(* The generator's state: statements so far, label_top and tempvar_top.    *)

Fresh == [stmts |-> <<>>, label |-> 1, temp |-> 0]

Push(g, stmt) == [g EXCEPT !.stmts = Append(@, stmt)]
GenLabel(g)   == [g EXCEPT !.label = @ + 1]
GenTemp(g)    == [g EXCEPT !.temp = @ + 1]

RECURSIVE GenRval(_, _)

\* the values of several expressions, evaluated left to right
GenRvals(es, g) ==
    FoldLeft(LAMBDA acc, e : LET r == GenRval(e, acc.g)
                             IN  [g |-> r.g, vals |-> Append(acc.vals, r.val)],
             [g |-> g, vals |-> <<>>], es)

\* parameters are evaluated first and pushed together afterwards
GenParams(es, g) ==
    LET r == GenRvals(es, g)
    IN  [r EXCEPT !.g.stmts =
            @ \o [i \in 1..Len(es) |-> IrParam(i - 1, r.vals[i])]]

\* a pointer into the array, from an offset that was computed
GenAddress(arr, r) ==
    LET ptr == Tempvar(r.g.temp)
    IN  [g   |-> Push(GenTemp(r.g), Using("+", IrOpBinary(ptr, arr, r.val))),
         val |-> ptr]

\* defect: the default of && and || is that of the other one
GenShortCircuit_WrongDefault(e, g) ==
    LET t       == Tempvar(g.temp)
        isand   == e.node = "and"
        skip    == g.label
        test(v) == Using(IF isand THEN "==" ELSE "!=", IrCondGoto(v, Zero, skip))
        g1   == Push(GenTemp(g), IrMov(t, IF isand THEN One ELSE Zero))
        r1   == GenRval(e.sub[1], GenLabel(g1))
        r2   == GenRval(e.sub[2], Push(r1.g, test(r1.val)))
        g2   == Push(r2.g, test(r2.val))
        g3   == Push(g2, IrMov(t, IF isand THEN One ELSE Zero))
    IN  [g |-> Push(g3, IrLabel(skip)), val |-> t]

\* && and ||: a default, two tests that skip, the other value
GenShortCircuit(e, g) ==
    LET t       == Tempvar(g.temp)
        isand   == e.node = "and"
        skip    == g.label
        test(v) == Using(IF isand THEN "==" ELSE "!=", IrCondGoto(v, Zero, skip))
        g1   == Push(GenTemp(g), IrMov(t, IF isand THEN Zero ELSE One))
        r1   == GenRval(e.sub[1], GenLabel(g1))
        r2   == GenRval(e.sub[2], Push(r1.g, test(r1.val)))
        g2   == Push(r2.g, test(r2.val))
        g3   == Push(g2, IrMov(t, IF isand THEN One ELSE Zero))
    IN  [g |-> Push(g3, IrLabel(skip)), val |-> t]

\* gen_rval: where the value of an expression is found
GenRval(e, g) ==
    CASE e.node = "leaf" -> [g |-> g, val |-> e.var]
      [] e.node = "unary" ->
           LET t == Tempvar(g.temp)
               r == GenRval(e.sub[1], GenTemp(g))
           IN  [g |-> Push(r.g, Using(e.fn, IrOpUnary(t, r.val))), val |-> t]
      [] e.node = "binary" ->
           LET t == Tempvar(g.temp)
               r == GenRvals(e.sub, GenTemp(g))
           IN  [g   |-> Push(r.g, Using(e.fn, IrOpBinary(t, r.vals[1], r.vals[2]))),
                val |-> t]
      [] e.node \in {"and", "or"} -> GenShortCircuit(e, g)
      [] e.node = "element" ->    \* an element whose index is not constant
           LET t == Tempvar(g.temp)
               r == GenAddress(e.var, GenRval(e.sub[1], GenTemp(g)))
           IN  [g |-> Push(r.g, IrArrayGet(t, r.val, 0)), val |-> t]
      [] e.node = "elementat" ->
           [g   |-> Push(GenTemp(g), IrArrayGet(Tempvar(g.temp), e.var, e.at)),
            val |-> Tempvar(g.temp)]
      [] e.node = "address" -> GenAddress(e.var, GenRval(e.sub[1], g))
      [] e.node = "call" ->
           LET t == Tempvar(g.temp)
               r == GenParams(e.sub, GenTemp(g))
           IN  [g |-> Push(r.g, IrCall(t, e.fn, r.vals)), val |-> t]

\* if val == 0 goto label
Unless(val, label) == Using("==", IrCondGoto(val, Zero, label))

\* the element at a literal offset is given a value that was computed
GenSetAt(arr, n, r) ==
    IF n < FarOffset
    THEN Push(r.g, IrArraySet(arr, n, r.val))
    ELSE LET ptr == GenAddress(arr, [g |-> r.g, val |-> Far])
         IN  Push(ptr.g, IrArraySet(ptr.val, 0, r.val))

\* gen_ir_init_local of an array
GenDeclArray(es, g) ==
    FoldLeft(LAMBDA acc, i : IF es[i] = NoValue THEN acc
                             ELSE GenSetAt(LocArr, i - 1, GenRval(es[i], acc)),
             Push(g, IrLocalArrayFillZero(LocArr)),
             [i \in 1..Len(es) |-> i])

RECURSIVE GenStmt(_, _, _)

\* gen_ir of a statement; loop holds the labels of the enclosing while
GenStmt(s, loop, g) ==
    CASE s.node = "assign" ->
           LET r == GenRval(s.sub[1], g) IN Push(r.g, IrMov(s.var, r.val))
      [] s.node = "assignelement" ->
           LET r == GenRvals(s.sub, g)
               p == GenAddress(s.var, [g |-> r.g, val |-> r.vals[2]])
           IN  Push(p.g, IrArraySet(p.val, 0, r.vals[1]))
      [] s.node = "assignat" -> GenSetAt(s.var, s.at, GenRval(s.sub[1], g))
      [] s.node = "declarray" -> GenDeclArray(s.sub, g)
      [] s.node = "exp"      -> GenRval(s.sub[1], g).g
      [] s.node = "callstmt" ->
           LET r == GenParams(s.sub, g) IN Push(r.g, IrCallVoid(s.fn, r.vals))
      [] s.node = "ifonly" ->
           LET r    == GenRval(s.sub[1], g)
               skip == r.g.label
               g1   == Push(GenLabel(r.g), Unless(r.val, skip))
           IN  Push(GenStmt(s.sub[2], loop, g1), IrLabel(skip))
      [] s.node = "ifelse" ->
           LET r    == GenRval(s.sub[1], g)
               no   == r.g.label
               g1   == Push(GenLabel(r.g), Unless(r.val, no))
               g2   == GenStmt(s.sub[2], loop, g1)
               done == g2.label
               g3   == Push(Push(GenLabel(g2), IrGoto(done)), IrLabel(no))
           IN  Push(GenStmt(s.sub[3], loop, g3), IrLabel(done))
      [] s.node = "while" ->
           LET test == g.label
               done == g.label + 1
               g1   == Push(GenLabel(GenLabel(g)), IrLabel(test))
               r    == GenRval(s.sub[1], g1)
               g2   == Push(r.g, Unless(r.val, done))
               g3   == GenStmt(s.sub[2], [test |-> test, done |-> done], g2)
           IN  Push(Push(g3, IrGoto(test)), IrLabel(done))
      [] s.node = "break"      -> Push(g, IrGoto(loop.done))
      [] s.node = "continue"   -> Push(g, IrGoto(loop.test))
      [] s.node = "return"     ->
           LET r == GenRval(s.sub[1], g) IN Push(r.g, IrReturn(r.val))
      [] s.node = "returnvoid" -> Push(g, IrReturnVoid)
      [] s.node = "block"      ->
           FoldLeft(LAMBDA acc, sub : GenStmt(sub, loop, acc), g, s.sub)

NoLoop == [test |-> 0, done |-> 0]

\* AstFuncDef::gen_ir: the body, then a return in case it falls through
GenFunc(params, isvoid, body) ==
    LET g == GenStmt(body, NoLoop, Fresh)
    IN  [params |-> params,
         stmts  |-> Append(g.stmts, IF isvoid THEN IrReturnVoid ELSE IrReturn(Zero))]
===============================================================================

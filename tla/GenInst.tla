-------------------------------- MODULE GenInst -------------------------------
(***************************************************************************)
(* Code generation (back/gen_inst.cpp, back/reg.cpp): the instructions of  *)
(* a statement, given the places of the scalars, and what instructions do  *)
(* to registers, to the words of the frame and to the global scalar.       *)
(***************************************************************************)
EXTENDS Compiled, Values, SequencesExt

CONSTANTS
    GlobInit,       \* the initial values of the global array
    OffsetLimit     \* the first offset that is no immediate, in words

tmpreg0 == "t0"
tmpreg1 == "t1"

Regs == AvailRegs \cup BuiltinDestroys \cup {tmpreg0, tmpreg1, NoReg}

ASSUME RegistersAssumption ==
    /\ {tmpreg0, tmpreg1} \cap (AvailRegs \cup {NoReg}) = {}
    /\ NoReg \notin BuiltinDestroys

\* Numbers name scalars, and what is no scalar can be told apart.
ASSUME KindsAssumption ==
    /\ Int \cap Unpooled = {}
    /\ NoVar # Glob /\ NoVar \notin Arrays /\ Glob \notin Arrays /\ LocArr # GlobArr

ASSUME GlobalsAssumption ==
    \E n \in 0..(ArraySpan - 1) : GlobInit \in [0..n -> Val]

\* indices of globals: the scalar and the array
GlobIdx    == 0
GlobArrIdx == 1

-------------------------------------------------------------------------------
(* Instructions.                                                           *)

Inst(op, dest, srcs, n) == [inst |-> op, dest |-> dest, srcs |-> srcs, n |-> n]

InstOpBinary(dest, r1, r2) == Inst("opbinary", dest, <<r1, r2>>, 0)
InstOpUnary(dest, r)       == Inst("opunary", dest, <<r>>, 0)
InstMov(dest, src)         == Inst("mov", dest, <<src>>, 0)
InstLoadImm(dest, imm)     == Inst("loadimm", dest, <<>>, imm)
InstLoadStack(dest, n)     == Inst("loadstack", dest, <<>>, n)
InstStoreStack(n, src)     == Inst("storestack", NoReg, <<src>>, n)
InstLoadGlobal(dest)       == Inst("loadglobal", dest, <<>>, 0)
InstLoadAddrGlobal(dest, g) == Inst("loadaddrglobal", dest, <<>>, g)
InstLoadAddrStack(dest, n) == Inst("loadaddrstack", dest, <<>>, n)
InstArraySet(ptr, off, src) == Inst("arrayset", NoReg, <<ptr, src>>, off)
InstArrayGet(dest, ptr, off) == Inst("arrayget", dest, <<ptr>>, off)
InstAddI(dest, r, n)       == Inst("addi", dest, <<r>>, n)

\* a store through a pointer, to the global scalar or to a word of an array
StoreAt(m, p, v) ==
    CASE p = Address -> [m EXCEPT !.glob = v]
      [] IsPtr(p) /\ PtrArray(p) = 0 -> [m EXCEPT !.garr[PtrOffset(p)] = v]
      [] IsPtr(p) /\ PtrArray(p) # 0 ->
           [m EXCEPT !.frames[PtrArray(p)][PtrOffset(p)] = v]
      [] OTHER -> [m EXCEPT !.glob = Junk]

LoadFrom(m, p) ==
    CASE IsPtr(p) /\ PtrArray(p) = 0 -> m.garr[PtrOffset(p)]
      [] IsPtr(p) /\ PtrArray(p) # 0 -> m.frames[PtrArray(p)][PtrOffset(p)]
      [] OTHER -> Junk

\* one instruction on a machine [regs, frames, glob, garr], the last of the
\* frames being that of the running function; what the assembly may compute in
\* a scratch register on the way is Junk
Execute(m, i) ==
    LET src(k) == m.regs[i.srcs[k]]
        top    == Len(m.frames)
        set(v) == [m EXCEPT !.regs[i.dest] = v]
        after(r) == [m EXCEPT !.regs[r] = Junk]
    IN  CASE i.inst = "opbinary"  -> set(BinaryOp(src(1), src(2)))
          [] i.inst = "addi"      -> set(src(1) + i.n)
          [] i.inst = "opunary"   -> set(UnaryOp(src(1)))
          [] i.inst = "mov"       -> set(src(1))
          [] i.inst = "loadimm"   -> set(i.n)
          [] i.inst = "loadstack" -> set(m.frames[top][i.n])
          [] i.inst = "loadglobal"     -> set(m.glob)
          [] i.inst = "loadaddrglobal" ->
               set(IF i.n = GlobArrIdx THEN Ptr(0, 0) ELSE Address)
          [] i.inst = "loadaddrstack"  -> set(Ptr(top, i.n))
          [] i.inst = "storestack" ->
               [after(IF i.srcs[1] = tmpreg0 THEN tmpreg1 ELSE tmpreg0)
                   EXCEPT !.frames[top][i.n] = src(1)]
          [] i.inst = "arrayset" -> StoreAt(m, src(1) + i.n, src(2))
          [] i.inst = "arrayget" ->
               [after(tmpreg0) EXCEPT !.regs[i.dest] = LoadFrom(m, src(1) + i.n)]

ExecuteAll(m, insts) == FoldLeft(Execute, m, insts)

-------------------------------------------------------------------------------
(* Operands: fn_rload, fn_rstore and fn_dostore.                           *)

\* instructions that make an operand available in a register, and which
RLoad(f, v, tmp) ==
    CASE v = NoVar /\ Literal = 0 -> [insts |-> <<>>, reg |-> NoReg]
      [] v = NoVar /\ Literal # 0 ->
           [insts |-> <<InstLoadImm(tmp, Literal)>>, reg |-> tmp]
      [] v = Glob -> [insts |-> <<InstLoadGlobal(tmp)>>, reg |-> tmp]
      [] v \notin Unpooled /\ f.vreg[v].pos = "stack" ->
           [insts |-> <<InstLoadStack(tmp, f.vreg[v].slot)>>, reg |-> tmp]
      [] OTHER -> [insts |-> <<>>, reg |-> f.vreg[v].reg]

\* the register a result is computed in
RStore(f, v) ==
    IF v = Glob \/ f.vreg[v].pos = "stack" THEN tmpreg0 ELSE f.vreg[v].reg

\* defect: the address is loaded when its register has been stored to
DoStore_AddressLate(f, v, insts) ==
    LET addr == InstLoadAddrGlobal(tmpreg1, GlobIdx)
    IN  CASE v = Glob -> insts \o <<InstArraySet(tmpreg1, 0, tmpreg0), addr>>
          [] v # Glob /\ f.vreg[v].pos = "stack" ->
               Append(insts, InstStoreStack(f.vreg[v].slot, tmpreg0))
          [] OTHER -> insts

\* the instructions, and those that put their result where it belongs; a
\* result that the last of them moves to tmpreg0 is stored from where it was
DoStore(f, v, insts) ==
    LET last == insts[Len(insts)]
        addr == InstLoadAddrGlobal(tmpreg1, GlobIdx)
    IN  CASE v = Glob /\ last.inst = "mov" /\ last.dest = tmpreg0
                 /\ last.srcs[1] # tmpreg1 ->
               Front(insts) \o <<addr, InstArraySet(tmpreg1, 0, last.srcs[1])>>
          [] v = Glob /\ ~ (last.inst = "mov" /\ last.dest = tmpreg0
                            /\ last.srcs[1] # tmpreg1) ->
               insts \o <<addr, InstArraySet(tmpreg1, 0, tmpreg0)>>
          [] v # Glob /\ f.vreg[v].pos = "stack" ->
               Append(insts, InstStoreStack(f.vreg[v].slot, tmpreg0))
          [] OTHER -> insts

\* ret_if_unused: a scalar that is not alive after the statement
Unused(f, s) ==
    LET dest == f.func.stmts[s].dest
    IN  dest \notin Unpooled /\ dest \notin MeetOf(f.func, f.alive, s)

-------------------------------------------------------------------------------
(* Statements.                                                             *)

\* where an array begins, in a register; an array that is an argument is
\* where it was passed
Base(f, arr, n, tmp) ==
    CASE arr = GlobArr -> [insts |-> <<InstLoadAddrGlobal(tmp, GlobArrIdx)>>, reg |-> tmp]
      [] arr = LocArr  -> [insts |-> <<InstLoadAddrStack(tmp, n)>>, reg |-> tmp]
      [] OTHER         -> [insts |-> <<>>, reg |-> f.vreg[arr].reg]

\* an operator, or a pointer into an array
GenOpBinary(f, stmt) ==
    LET l1 == IF stmt.args[1] \in Arrays THEN Base(f, stmt.args[1], 0, tmpreg0)
              ELSE RLoad(f, stmt.args[1], tmpreg0)
        l2 == RLoad(f, stmt.args[2], tmpreg1)
        op == InstOpBinary(RStore(f, stmt.dest), l1.reg, l2.reg)
    IN  DoStore(f, stmt.dest, l1.insts \o l2.insts \o <<op>>)

GenOpUnary(f, stmt) ==
    LET l == RLoad(f, stmt.args[1], tmpreg1)
    IN  DoStore(f, stmt.dest,
                Append(l.insts, InstOpUnary(RStore(f, stmt.dest), l.reg)))

\* a value goes to the register r
GenMovTo(f, v, r) ==
    IF v = NoVar
    THEN <<InstLoadImm(r, Literal)>>
    ELSE LET l == RLoad(f, v, tmpreg1) IN Append(l.insts, InstMov(r, l.reg))

GenMov(f, stmt) ==
    DoStore(f, stmt.dest, GenMovTo(f, stmt.args[1], RStore(f, stmt.dest)))

\* IrArraySet: through a temporary, or into an array
GenArraySet(f, stmt) ==
    LET arr  == stmt.args[1]
        off  == IF arr = LocArr THEN 0 ELSE stmt.label
        base == CASE arr \in Arrays -> Base(f, arr, stmt.label, tmpreg1)
                  [] arr \notin Arrays /\ IsArg(arr) -> Base(f, arr, 0, tmpreg1)
                  [] OTHER          -> RLoad(f, arr, tmpreg0)
        src  == RLoad(f, stmt.args[2], IF arr \in Arrays THEN tmpreg0 ELSE tmpreg1)
    IN  base.insts \o src.insts \o <<InstArraySet(base.reg, off, src.reg)>>

GenArrayGet(f, stmt) ==
    LET arr  == stmt.args[1]
        off  == IF arr = LocArr THEN 0 ELSE stmt.label
        base == IF arr \in Arrays \/ IsArg(arr)
                THEN Base(f, arr, stmt.label, tmpreg1)
                ELSE RLoad(f, arr, tmpreg1)
    IN  DoStore(f, stmt.dest,
                Append(base.insts,
                       InstArrayGet(RStore(f, stmt.dest), base.reg, off)))

\* defect: the loop ends a word early
GenFillZero_OneShort(f) ==
    <<InstLoadAddrStack(tmpreg0, 0), InstLoadImm(tmpreg1, f.arraysize),
      InstOpBinary(tmpreg1, tmpreg1, tmpreg0)>>
    \o FlattenSeq([i \in 1..(f.arraysize - 1) |->
                      <<InstArraySet(tmpreg0, 0, NoReg), InstAddI(tmpreg0, tmpreg0, 1)>>])

\* IrLocalArrayFillZero: the loop, as often as it is taken
GenFillZero(f) ==
    <<InstLoadAddrStack(tmpreg0, 0), InstLoadImm(tmpreg1, f.arraysize),
      InstOpBinary(tmpreg1, tmpreg1, tmpreg0)>>
    \o FlattenSeq([i \in 1..f.arraysize |->
                      <<InstArraySet(tmpreg0, 0, NoReg), InstAddI(tmpreg0, tmpreg0, 1)>>])

\* IrRoot::gen_inst: what main starts with, the last value first
GenGlobalInit ==
    LET set(i) == <<InstLoadImm(ArgReg[0], GlobInit[i])>> \o
                  IF i < OffsetLimit
                  THEN <<InstArraySet(tmpreg0, i, ArgReg[0])>>
                  ELSE <<InstLoadImm(tmpreg1, i),
                         InstOpBinary(tmpreg1, tmpreg0, tmpreg1),
                         InstArraySet(tmpreg1, 0, ArgReg[0])>>
        n == Max(DOMAIN GlobInit)
    IN  <<InstLoadAddrGlobal(tmpreg0, GlobArrIdx)>>
        \o FlattenSeq([k \in 1..(n + 1) |-> set(n + 1 - k)])

\* the statements that neither call nor jump
GenStmtInst(f, s) ==
    LET stmt == f.func.stmts[s]
    IN  CASE stmt.op \in {"opbinary", "opunary", "mov", "arrayget"}
               /\ Unused(f, s) -> <<>>
          [] stmt.op = "opbinary" /\ ~ Unused(f, s) -> GenOpBinary(f, stmt)
          [] stmt.op = "opunary"  /\ ~ Unused(f, s) -> GenOpUnary(f, stmt)
          [] stmt.op = "mov"      /\ ~ Unused(f, s) -> GenMov(f, stmt)
          [] stmt.op = "arrayget" /\ ~ Unused(f, s) -> GenArrayGet(f, stmt)
          [] stmt.op = "arrayset" -> GenArraySet(f, stmt)
          [] stmt.op = "fillzero" -> GenFillZero(f)
          [] stmt.op = "return" -> GenMovTo(f, stmt.args[1], ArgReg[0])
          [] OTHER -> <<>>

\* IrCondGoto: the loads; the comparison is of the two registers
GenCondGoto(f, stmt) ==
    LET l1 == RLoad(f, stmt.args[1], tmpreg0)
        l2 == RLoad(f, stmt.args[2], tmpreg1)
    IN  [insts |-> l1.insts \o l2.insts, regs |-> <<l1.reg, l2.reg>>]

-------------------------------------------------------------------------------
(* Calls.  meet is meet_regs, in the order in which they were collected.   *)

\* saved_regs: colliding registers that are not among them are added
SavedSeq(f, s, meet) ==
    LET args == f.func.stmts[s].args
        saved[p \in 0..Len(args)] ==
            IF p = 0
            THEN meet
            ELSE LET r == f.vreg[args[p]].reg
                 IN  IF Collides(f, s, p) /\ ~ Contains(saved[p-1], r)
                     THEN Append(saved[p-1], r) ELSE saved[p-1]
    IN  saved[Len(args)]

IndexOf(seq, e) == CHOOSE i \in DOMAIN seq : seq[i] = e

\* up to the call: registers are saved above the spilled scalars, then the
\* parameters are moved, those from overwritten registers out of the save area
GenBeforeCall(f, s, meet) ==
    LET args  == f.func.stmts[s].args
        saved == SavedSeq(f, s, meet)
        save  == [i \in DOMAIN saved |->
                     InstStoreStack(f.spillsize + i - 1, saved[i])]
        pass(p) ==
            IF Collides(f, s, p)
            THEN <<InstLoadStack(ArgReg[p - 1],
                       f.spillsize + IndexOf(saved, f.vreg[args[p]].reg) - 1)>>
            ELSE LET l == RLoad(f, args[p], tmpreg1)
                 IN  Append(l.insts, InstMov(ArgReg[p - 1], l.reg))
    IN  save \o FlattenSeq([p \in DOMAIN args |-> pass(p)])

\* defect: registers are restored before the result is fetched
GenAfterCall_RestoreFirst(f, s, meet) ==
    LET stmt   == f.func.stmts[s]
        result == IF stmt.op = "call" /\ stmt.dest # NoVar /\ ~ Unused(f, s)
                  THEN DoStore(f, stmt.dest,
                               <<InstMov(RStore(f, stmt.dest), ArgReg[0])>>)
                  ELSE <<>>
    IN  [i \in DOMAIN meet |->
            InstLoadStack(meet[i], f.spillsize + i - 1)] \o result

\* after the call: the result first, then the registers wanted back
GenAfterCall(f, s, meet) ==
    LET stmt   == f.func.stmts[s]
        result == IF stmt.op = "call" /\ stmt.dest # NoVar /\ ~ Unused(f, s)
                  THEN DoStore(f, stmt.dest,
                               <<InstMov(RStore(f, stmt.dest), ArgReg[0])>>)
                  ELSE <<>>
        back   == [i \in DOMAIN meet |->
                      InstLoadStack(meet[i], f.spillsize + i - 1)]
    IN  result \o back
===============================================================================

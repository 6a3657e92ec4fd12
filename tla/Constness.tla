------------------------------- MODULE Constness ------------------------------
(***************************************************************************)
(* Tree completion (front/tree_completing.hpp): names are looked up in     *)
(* nested symbol tables, and a definition that no statement may modify     *)
(* stays "effectively constant".  What is read from such a definition is   *)
(* replaced by the value of its initialiser (front/ast_calc_const.cpp,     *)
(* InitVal::get_value).                                                    *)
(*                                                                         *)
(* The tree is visited in the order of the text, so it is a sequence of    *)
(* lines here: declarations of globals, then a function.  It grows as it   *)
(* is visited; when the function is closed it is called, with any          *)
(* arguments, and what was folded can be compared with what is stored.     *)
(***************************************************************************)
EXTENDS Integers, SequencesExt

CONSTANTS
    Lines,          \* the lines programs are made of
    MaxLines,       \* bound on the lines of a program but for func and closings
    Val             \* the values of scalars, which are also array indices

NotConst == -1      \* a constant evaluation that failed
Undef    == -2      \* in a variable that was never set

-------------------------------------------------------------------------------
(* Syntax.  An expression is a literal, a call of getint or a variable; it *)
(* has an index if it is an array, which is a literal or a scalar.  def is *)
(* the definition a name stands for, 0 while it has not been looked up.    *)

Lit(n)        == [op |-> "lit", n |-> n]
GetInt        == [op |-> "getint"]
LVal(x, idx)  == [op |-> "lval", name |-> x, idx |-> idx, def |-> 0]
Scalar(x)     == LVal(x, <<>>)
Element(a, i) == LVal(a, <<i>>)

\* size is 0 for a scalar; lhs is what the line modifies, exps what it reads;
\* visiting fills in loop, the while that is left, or def, what is defined
Line(st, name, size, lhs, exps) ==
    [st |-> st, name |-> name, size |-> size, lhs |-> lhs, exps |-> exps,
     loop |-> 0, def |-> 0]

Def(x, init)            == Line("def", x, 0, <<>>, init)
ArrayDef(a, size, init) == Line("def", a, size, <<>>, init)
Assign(lval, e)         == Line("assign", "", 0, <<lval>>, <<e>>)
PutInt(e)               == Line("putint", "", 0, <<>>, <<e>>)
Param(x, size)          == Line("param", x, size, <<>>, <<>>)
GetArray(a)             == Line("getarray", "", 0, <<>>, <<LVal(a, <<>>)>>)
While(e)                == Line("while", "", 0, <<>>, <<e>>)
If(e)                   == Line("if", "", 0, <<>>, <<e>>)
Func                    == Line("func", "", 0, <<>>, <<>>)
Open                    == Line("open", "", 0, <<>>, <<>>)
Close                   == Line("close", "", 0, <<>>, <<>>)
Break                   == Line("break", "", 0, <<>>, <<>>)
Continue                == Line("continue", "", 0, <<>>, <<>>)

Opening == {"func", "open", "if", "while"}
Defining == {"def", "param"}

\* the variables an expression mentions, that of its index included
LVals(e) ==
    IF e.op = "lval"
    THEN {e} \cup {e.idx[i] : i \in {j \in DOMAIN e.idx : e.idx[j].op = "lval"}}
    ELSE {}

LValsOf(exps) == UNION {LVals(exps[i]) : i \in DOMAIN exps}

\* as it is written, with nothing looked up: values are those of scalars
IsIndex(i) == \/ i.op = "lit" /\ i.n \in Val /\ i = Lit(i.n)
              \/ i.op = "lval" /\ i = Scalar(i.name)

IsExp(e) ==
    \/ e.op = "lit" /\ e.n \in Val /\ e = Lit(e.n)
    \/ e = GetInt
    \/ /\ e.op = "lval" /\ e = LVal(e.name, e.idx)
       /\ e.idx # <<>> => e.idx = <<e.idx[1]>> /\ IsIndex(e.idx[1])

\* values are natural and inside of every array: indices are in range
ASSUME LinesAssumption ==
    /\ Val \subseteq Nat /\ 0 \in Val
    /\ {Func, Close} \subseteq Lines
    /\ \A line \in Lines :
         /\ line = Line(line.st, line.name, line.size, line.lhs, line.exps)
         /\ line.size \in Nat /\ (line.size > 0 => Val \subseteq 0..(line.size - 1))
         /\ line.exps \in Seq({line.exps[i] : i \in DOMAIN line.exps})
         /\ \A i \in DOMAIN line.exps : IsExp(line.exps[i])
         /\ line.lhs # <<>> <=> line.st = "assign"
         /\ line.st = "assign" =>
              /\ DOMAIN line.lhs = {1}
              /\ line.lhs[1].op = "lval" /\ IsExp(line.lhs[1])
         /\ line.st \in {"assign", "if", "while", "getarray"} => DOMAIN line.exps = {1}
         /\ line.st = "getarray" => line.exps[1].op = "lval"
         /\ line.st = "param" => line.exps = <<>>

\* in a set of lines, arrays that are passed to the library are parameters
ParamsPassed(lines) ==
    \A line, d \in lines : line.st = "getarray" /\ d.st = "def" =>
        d.name # line.exps[1].name

-------------------------------------------------------------------------------
VARIABLES phase,    \* "visit", "run", or "over": refused or at an end
          text,     \* the lines visited, names looked up
          tables,   \* SymTables, innermost last: [var, loop, at]
          defs,     \* definitions, [name, size, init, global]
          isconst,  \* effectively_const of each definition
          folded,   \* what get_const returns for its elements
          pc, store \* the run: next line, contents of each definition

visitvars == <<text, tables, defs, isconst>>
runvars   == <<pc, store>>
vars      == <<phase, visitvars, folded, runvars>>

Table(loop, at) == [var |-> <<>>, loop |-> loop, at |-> at]

Init ==
    /\ phase = "visit"
    /\ text = <<>>
    /\ tables = <<Table(0, 0)>>
    /\ defs = <<>>
    /\ isconst = <<>>
    /\ folded = <<>>
    /\ pc = 1
    /\ store = <<>>

-------------------------------------------------------------------------------
(* Looking up.                                                             *)

Top == tables[Len(tables)]

\* StackedTable::put: parameters go to the table around that of the body
PutIn(line) == IF line.st = "param" THEN Len(tables) - 1 ELSE Len(tables)

\* defect: the number of the definition before
Put_Previous(line) ==
    [tables EXCEPT ![PutIn(line)].var =
        [x \in DOMAIN @ \cup {line.name} |-> IF x = line.name THEN Len(defs) ELSE @[x]]]

Put(line) ==
    [tables EXCEPT ![PutIn(line)].var =
        [x \in DOMAIN @ \cup {line.name} |-> IF x = line.name THEN Len(defs) + 1 ELSE @[x]]]

\* defect: the outermost definition is taken
Lookup_Outermost(x) ==
    LET having == {i \in DOMAIN tables : x \in DOMAIN tables[i].var}
    IN  IF having = {} THEN 0 ELSE tables[Min(having)].var[x]

\* StackedTable::get on tbl->var, 0 for an unknown symbol
Lookup(x) ==
    LET having == {i \in DOMAIN tables : x \in DOMAIN tables[i].var}
    IN  IF having = {} THEN 0 ELSE tables[Max(having)].var[x]

\* defect: the first loop entered
EnclosingLoop_Outermost ==
    LET loops == {tables[i].loop : i \in DOMAIN tables} \ {0}
    IN  IF loops = {} THEN 0 ELSE Min(loops)

\* get("StmtWhile") on tbl->special
EnclosingLoop == Max({tables[i].loop : i \in DOMAIN tables})

ResolveName(e) == IF e.op = "lval" THEN [e EXCEPT !.def = Lookup(e.name)] ELSE e

\* visit(AstExpLVal)
Resolve(e) ==
    IF e.op = "lval"
    THEN [ResolveName(e) EXCEPT !.idx = [i \in DOMAIN e.idx |-> ResolveName(e.idx[i])]]
    ELSE e

ResolveAll(exps) == [i \in DOMAIN exps |-> Resolve(exps[i])]

\* known, and indexed as it was declared, if not an array passed to getarray;
\* some of this is found out when statements are generated
Fits(e, dims) ==
    e.op = "lval" =>
        /\ e.def \in DOMAIN defs
        /\ Len(e.idx) + dims = IF defs[e.def].size > 0 THEN 1 ELSE 0
        /\ \A i \in DOMAIN e.idx : e.idx[i].op = "lval" =>
              e.idx[i].def \in DOMAIN defs /\ defs[e.idx[i].def].size = 0

\* the line with its names looked up
Resolved(line) ==
    [line EXCEPT !.lhs = ResolveAll(@), !.exps = ResolveAll(@),
                 !.loop = IF line.st \in {"break", "continue"}
                          THEN EnclosingLoop ELSE 0,
                 !.def = IF line.st \in Defining THEN Len(defs) + 1 ELSE 0]

Accepted(line, r) ==
    /\ \A i \in DOMAIN r.lhs : Fits(r.lhs[i], 0)
    /\ \A i \in DOMAIN r.exps : Fits(r.exps[i], IF r.st = "getarray" THEN 1 ELSE 0)
    /\ r.st \in Defining => r.name \notin DOMAIN tables[PutIn(r)].var
    /\ r.st \in {"break", "continue"} => r.loop # 0

-------------------------------------------------------------------------------
(* Visiting a line.                                                        *)

\* defect: an assignment to an element modifies the index only
Modified_NotArrays(r) ==
    {e.def : e \in {l \in LValsOf(r.lhs) : l.idx = <<>>}}

\* may_modify_scalar and may_modify_array are set while the left-hand side
\* is visited, its index included; nothing sets them for an argument, for
\* visit(AstExpFunctionCall) visits the arguments themselves and not their
\* AstFuncUseParams
Modified(r) == {e.def : e \in LValsOf(r.lhs)}

\* the tables in the block that a line opens or closes
TablesAfter(line) ==
    LET here == Len(text) + 1
    IN  CASE line.st \in {"open", "if"} -> Append(tables, Table(0, here))
          [] line.st = "while" ->
               tables \o <<Table(here, here), Table(0, here)>>
          [] line.st = "func"  -> tables \o <<Table(0, here), Table(0, here)>>
          [] line.st = "close" ->
               SubSeq(tables, 1, Min({i \in DOMAIN tables : tables[i].at = Top.at}) - 1)
          [] line.st \in Defining -> Put(line)
          [] OTHER -> tables

\* where a line may stand: globals, the function with its parameters first,
\* and nothing after it
Placeable(line) ==
    IF Len(tables) = 1
    THEN /\ line.st \in {"def", "func"}
         /\ \A k \in DOMAIN text : text[k].st = "def"
    ELSE /\ line.st # "func"
         /\ line.st = "param" => text[Len(text)].st \in {"func", "param"}

Visit(line) ==
    LET r == Resolved(line)
    IN  /\ Placeable(line)
        /\ Accepted(line, r)
        /\ text' = Append(text, r)
        /\ tables' = TablesAfter(line)
        /\ defs' = IF r.st \notin Defining THEN defs
                   ELSE Append(defs, [name |-> r.name, size |-> r.size,
                                      init |-> r.exps,
                                      global |-> Len(tables) = 1])
        /\ LET marked == [d \in DOMAIN isconst |-> isconst[d] /\ d \notin Modified(r)]
           IN  isconst' = IF r.st \in Defining
                          THEN Append(marked, r.st = "def") ELSE marked
        /\ UNCHANGED <<phase, folded, runvars>>

\* lookuperror, typeerror: the compiler exits
Refuse(line) ==
    /\ Placeable(line)
    /\ ~ Accepted(line, Resolved(line))
    /\ phase' = "over"
    /\ UNCHANGED <<visitvars, folded, runvars>>

-------------------------------------------------------------------------------
(* get_const, once the tree is complete.  consts has the definitions that  *)
(* were made before the one whose initialiser e is in.                     *)

\* defect: effectively_const is not looked at
FoldScalar_Unchecked(consts, e) ==
    CASE e.op = "lit"  -> e.n
      [] e.op = "lval" -> consts[e.def][0]
      [] OTHER -> NotConst

FoldScalar(consts, e) ==
    CASE e.op = "lit"  -> e.n
      [] e.op = "lval" /\ isconst[e.def] -> consts[e.def][0]
      [] OTHER -> NotConst

\* get_value: the element of a constant index
Fold(consts, e) ==
    IF e.op = "lval" /\ e.idx # <<>>
    THEN LET i == FoldScalar(consts, e.idx[1])
         IN  IF isconst[e.def] /\ i # NotConst THEN consts[e.def][i] ELSE NotConst
    ELSE FoldScalar(consts, e)

\* what a definition's elements are folded to; 0 if not initialised
FoldDef(consts, def) ==
    [i \in 0..(IF def.size = 0 THEN 0 ELSE def.size - 1) |->
        IF i < Len(def.init) THEN Fold(consts, def.init[i + 1]) ELSE 0]

FoldAll ==
    LET upto[d \in 0..Len(defs)] ==
            IF d = 0 THEN <<>> ELSE Append(upto[d - 1], FoldDef(upto[d - 1], defs[d]))
    IN  upto[Len(defs)]

\* the end of the tree: gen_ir wants constants as initialisers of globals
Complete ==
    /\ Len(tables) = 1
    /\ \E k \in DOMAIN text : text[k].st = "func"
    /\ folded' = FoldAll
    /\ phase' = IF \A d \in DOMAIN defs : defs[d].global =>
                      \A i \in DOMAIN folded'[d] : folded'[d][i] # NotConst
                THEN "run" ELSE "over"
    /\ store' = [d \in DOMAIN defs |-> [i \in DOMAIN folded'[d] |-> Undef]]
    /\ UNCHANGED <<visitvars, pc>>

-------------------------------------------------------------------------------
(* Running the program, as the language defines it.                        *)

Here == text[pc]

\* blocks open after line k
Depth(k) == Cardinality({j \in 1..k : text[j].st \in Opening})
            - Cardinality({j \in 1..k : text[j].st = "close"})

\* line k is in the block that line j is in, or opens
Encloses(j, k) == j < k /\ \A m \in j..(k - 1) : Depth(m) >= Depth(j)

\* where the block opened in line k is closed
ClosedAt(k) == Min({m \in (k + 1)..Len(text) : Depth(m) < Depth(k)})

\* where the block closed in line k was opened
OpenedAt(k) == Max({j \in 1..(k - 1) : text[j].st \in Opening /\ Encloses(j, k)})

\* values an expression can have
ScalarValues(e) ==
    CASE e.op = "lit"    -> {e.n}
      [] e.op = "getint" -> Val
      [] OTHER           -> {store[e.def][0]}

Values(e) ==
    IF e.op = "lval" /\ e.idx # <<>>
    THEN {IF i = Undef THEN Undef ELSE store[e.def][i] : i \in ScalarValues(e.idx[1])}
    ELSE ScalarValues(e)

ReadsUndef ==
    \/ Here.st # "getarray" /\ \E i \in DOMAIN Here.exps : Undef \in Values(Here.exps[i])
    \/ \E l \in LValsOf(Here.lhs) : \E i \in DOMAIN l.idx :
          Undef \in ScalarValues(l.idx[i])

GoTo(k) == pc' = k /\ UNCHANGED <<phase, visitvars, folded>>

RunDef ==
    /\ Here.st = "def"
    /\ \E init \in [DOMAIN Here.exps -> Val] :
         LET d    == Here.def
             rest == IF defs[d].global \/ (defs[d].size > 0 /\ Here.exps # <<>>)
                     THEN 0 ELSE Undef
         IN  /\ \A i \in DOMAIN init : init[i] \in Values(Here.exps[i])
             /\ store' = [store EXCEPT ![d] =
                    [i \in DOMAIN @ |-> IF i < Len(init) THEN init[i + 1] ELSE rest]]
    /\ GoTo(pc + 1)

\* the caller's arguments
RunParam ==
    /\ Here.st = "param"
    /\ LET d == Here.def
       IN  \E v \in [DOMAIN store[d] -> Val] : store' = [store EXCEPT ![d] = v]
    /\ GoTo(pc + 1)

RunAssign ==
    /\ Here.st = "assign"
    /\ LET l == Here.lhs[1]
       IN  \E v \in Values(Here.exps[1]) :
           \E i \in IF l.idx = <<>> THEN {0} ELSE ScalarValues(l.idx[1]) :
               store' = [store EXCEPT ![l.def][i] = v]
    /\ GoTo(pc + 1)

\* the library writes into the array
RunGetArray ==
    /\ Here.st = "getarray"
    /\ LET d == Here.exps[1].def
       IN  \E v \in [DOMAIN store[d] -> Val] : store' = [store EXCEPT ![d] = v]
    /\ GoTo(pc + 1)

RunTest ==
    /\ Here.st \in {"if", "while"}
    /\ \E v \in Values(Here.exps[1]) :
          GoTo(IF v # 0 THEN pc + 1 ELSE ClosedAt(pc) + 1)
    /\ UNCHANGED store

RunJump ==
    /\ Here.st \in {"break", "continue"}
    /\ GoTo(IF Here.st = "break" THEN ClosedAt(Here.loop) + 1 ELSE Here.loop)
    /\ UNCHANGED store

RunOn ==
    /\ \/ Here.st \in {"func", "open", "putint"} /\ GoTo(pc + 1)
       \/ /\ Here.st = "close"
          /\ GoTo(IF text[OpenedAt(pc)].st = "while" THEN OpenedAt(pc) ELSE pc + 1)
    /\ UNCHANGED store

\* the end, or a value that was never set: what happens then is undefined
Stop ==
    /\ pc \in DOMAIN text => ReadsUndef
    /\ phase' = "over"
    /\ UNCHANGED <<visitvars, folded, runvars>>

Step == \/ RunDef
        \/ RunParam
        \/ RunAssign
        \/ RunGetArray
        \/ RunTest
        \/ RunJump
        \/ RunOn

-------------------------------------------------------------------------------
VisitNext ==
    /\ phase = "visit"
    /\ \/ \E line \in Lines :
             /\ \/ line.st \in {"func", "close"}
                \/ Cardinality({k \in DOMAIN text :
                       text[k].st \notin {"func", "close"}}) < MaxLines
             /\ Visit(line) \/ Refuse(line)
       \/ Complete

RunNext ==
    /\ phase = "run"
    /\ \/ Stop
       \/ pc \in DOMAIN text /\ ~ ReadsUndef /\ Step

Over == phase = "over" /\ UNCHANGED vars

Next == VisitNext \/ RunNext \/ Over

Spec == Init /\ [][Next]_vars

-------------------------------------------------------------------------------
(* Properties.                                                             *)

\* Tables name definitions that exist, and the variables of a run follow them.
TypeOK ==
    /\ phase \in {"visit", "run", "over"}
    /\ DOMAIN isconst = DOMAIN defs
    /\ \A d \in DOMAIN isconst : isconst[d] \in BOOLEAN
    /\ \A i \in DOMAIN tables :
         /\ \A x \in DOMAIN tables[i].var : tables[i].var[x] \in DOMAIN defs
         /\ tables[i].loop \in 0..Len(text)
         /\ tables[i].at \in 0..Len(text)
    /\ pc \in 1..(Len(text) + 1)
    /\ phase = "run" =>
         /\ DOMAIN store = DOMAIN defs
         /\ \A d \in DOMAIN store : \A i \in DOMAIN store[d] :
               store[d][i] \in Val \cup {Undef}

\* StackedTable against the text: a name stands for the last definition of it
\* in the blocks around, and no block defines it twice; only a function's body
\* may hide a parameter.
ResolvesToInnermost ==
    \A k \in DOMAIN text : \A l \in LValsOf(text[k].lhs) \cup LValsOf(text[k].exps) :
        LET visible == {j \in 1..(k - 1) : /\ text[j].st \in Defining
                                           /\ text[j].name = l.name
                                           /\ Encloses(j, k)}
        IN  /\ visible # {} /\ l.def = text[Max(visible)].def
            /\ \A i, j \in visible : i # j /\ text[i].st = text[j].st =>
                  Depth(i) # Depth(j)

\* The loop that a break or continue is bound to while visiting is the last
\* while whose body the line is in, through blocks and branches.
LeavesInnermostLoop ==
    \A k \in DOMAIN text : text[k].st \in {"break", "continue"} =>
        LET around == {j \in 1..(k - 1) : text[j].st = "while" /\ Encloses(j, k)}
        IN  around # {} /\ text[k].loop = Max(around)

\* What a line of a run reads has the value that get_const replaced it by,
\* whatever was assigned meanwhile, in whatever block: the compiler's promise
\* that effectively_const is sound (ast.hpp).
FoldSound ==
    phase = "run" /\ pc <= Len(text) /\ Here.st # "getarray" =>
        /\ \A i \in DOMAIN Here.exps :
             LET c == Fold(folded, Here.exps[i])
             IN  c # NotConst => Values(Here.exps[i]) \subseteq {c, Undef}
        /\ \A l \in LValsOf(Here.lhs) : \A i \in DOMAIN l.idx :
             LET c == FoldScalar(folded, l.idx[i])
             IN  c # NotConst => ScalarValues(l.idx[i]) \subseteq {c, Undef}

\* A definition that is still effectively constant when the tree is complete
\* is written by its own declaration and by nothing else a run does.
ConstUntouched ==
    [][phase = "run" =>
          \A d \in DOMAIN defs : isconst[d] /\ store'[d] # store[d] =>
              Here.st = "def" /\ Here.def = d]_vars
===============================================================================

-------------------------------- MODULE Peephole ------------------------------
(***************************************************************************)
(* The peephole pass (back/peekhole.cpp): a move from a temporary is       *)
(* merged into the statement above it, and a comparison into the jump that *)
(* tests its result.  Up to three rounds over a function; then what has    *)
(* become of it and the body it was translated from are run side by side,  *)
(* event by event: the events are the calls and the return, and what a     *)
(* call does is arbitrary but the same.                                    *)
(***************************************************************************)
EXTENDS Ir, SourceExec

CONSTANTS Funcs     \* functions with their body and what gen_ir makes of it

\* what gen_ir hands over: a list of statements, well-formed
ASSUME FuncsAssumption ==
    \A f \in Funcs :
        /\ f.stmts \in Seq({f.stmts[i] : i \in DOMAIN f.stmts})
        /\ \A i \in DOMAIN f.stmts :
             LET s == f.stmts[i] IN s = Stmt(s.op, s.dest, s.args, s.label, s.fn)
        /\ f = [params |-> f.params, body |-> f.body, stmts |-> f.stmts]
        /\ WellFormed(f)

-------------------------------------------------------------------------------
VARIABLES func,         \* the function as gen_ir made it
          stmts,        \* its statements, being rewritten
          it, last,     \* positions, last = 0 for stmts.end()
          round,        \* 0..2, or 3 after the last one
          changed,
          before,       \* a run of the body, once begun
          after         \* a run of the statements, [pc, env, arr]

optvars == <<stmts, it, last, round, changed>>
runvars == <<before, after>>
vars    == <<func, optvars, runvars>>

NotBegun == [todo |-> <<>>, pc |-> 0]

Init ==
    /\ func \in Funcs
    /\ stmts = func.stmts
    /\ it = 1 /\ last = 0
    /\ round = 0
    /\ changed = FALSE
    /\ before = NotBegun /\ after = NotBegun

IsTempVar(v) == v \notin Unpooled \cup Literals /\ v < 0

Optimising == round < 3

-------------------------------------------------------------------------------
(* One step of the loop in peekhole_optimize.                              *)

CanMergeMov ==
    /\ Optimising /\ it <= Len(stmts)
    /\ stmts[it].op = "mov"
    /\ IsTempVar(stmts[it].args[1])
    /\ last # 0
    /\ stmts[last].op \in {"opbinary", "opunary", "call", "mov"}

\* tempvar = ...; x = tempvar   becomes   x = ...
MergeMov ==
    /\ CanMergeMov
    /\ stmts' = RemoveAt([stmts EXCEPT ![last].dest = stmts[it].dest], it)
    /\ changed' = TRUE
    /\ UNCHANGED <<func, it, last, round, runvars>>

CanMergeCond ==
    /\ Optimising /\ it <= Len(stmts)
    /\ stmts[it].op = "condgoto"
    /\ IsTempVar(stmts[it].args[1])
    /\ stmts[it].args[2] = Zero
    /\ last # 0
    /\ stmts[last].op = "opbinary"
    /\ stmts[last].dest = stmts[it].args[1]
    /\ stmts[last].fn \in Rels
    /\ stmts[it].fn \in {"==", "!="}

\* tempvar = v rel w; if tempvar == 0 goto l   becomes   if v !rel w goto l
MergeCond ==
    /\ CanMergeCond
    /\ LET rel  == stmts[last].fn
           test == [stmts[it] EXCEPT !.args = stmts[last].args,
                        !.fn = IF @ = "==" THEN RelInvert(rel) ELSE rel]
       IN  stmts' = RemoveAt([stmts EXCEPT ![it] = test], last)
    /\ last' = it - 1
    /\ changed' = TRUE
    /\ UNCHANGED <<func, it, round, runvars>>

\* defect: the statement above is the last one a move can be merged into
Keep_LastResult ==
    /\ Optimising /\ it <= Len(stmts)
    /\ ~ CanMergeMov /\ ~ CanMergeCond
    /\ last' = IF stmts[it].op \in {"opbinary", "opunary", "call", "mov"}
               THEN it ELSE last
    /\ it' = it + 1
    /\ UNCHANGED <<func, stmts, round, changed, runvars>>

Keep ==
    /\ Optimising /\ it <= Len(stmts)
    /\ ~ CanMergeMov /\ ~ CanMergeCond
    /\ last' = it
    /\ it' = it + 1
    /\ UNCHANGED <<func, stmts, round, changed, runvars>>

\* defect: the statement above is not forgotten
EndRound_LastKept ==
    /\ Optimising /\ it > Len(stmts)
    /\ round' = IF changed THEN round + 1 ELSE 3
    /\ it' = 1
    /\ changed' = FALSE
    /\ UNCHANGED <<func, stmts, last, runvars>>

\* main: up to three rounds, while they change something
EndRound ==
    /\ Optimising /\ it > Len(stmts)
    /\ round' = IF changed THEN round + 1 ELSE 3
    /\ it' = 1 /\ last' = 0
    /\ changed' = FALSE
    /\ UNCHANGED <<func, stmts, runvars>>

-------------------------------------------------------------------------------
(* Running a list of statements.                                           *)

Args(run, stmt) == [i \in DOMAIN stmt.args |-> Value(run.env, stmt.args[i])]

AtEventOf(list, run) == list[run.pc].op \in {"call", "callvoid", "return", "returnvoid"}

LineOf(list, label) == CHOOSE i \in DOMAIN list : /\ list[i].op = "label"
                                                  /\ list[i].label = label

\* a statement that is no event
After(list, run) ==
    LET stmt == list[run.pc]
        arg  == Args(run, stmt)
        word == arg[1] - Base + stmt.label
        set(v) == [run EXCEPT !.pc = @ + 1, !.env[stmt.dest] = v]
        goto(k) == [run EXCEPT !.pc = k]
    IN  CASE stmt.op = "opbinary" ->
               set(IF stmt.args[1] = LocArr THEN arg[1] + arg[2]
                   ELSE BinaryOp(stmt.fn, arg[1], arg[2]))
          [] stmt.op = "opunary"  -> set(UnaryOp(stmt.fn, arg[1]))
          [] stmt.op = "mov"      -> set(arg[1])
          [] stmt.op = "arrayget" -> set(run.arr[word])
          [] stmt.op = "arrayset" -> [run EXCEPT !.pc = @ + 1, !.arr[word] = arg[2]]
          [] stmt.op = "fillzero" -> [run EXCEPT !.pc = @ + 1,
                                                 !.arr = [i \in DOMAIN @ |-> 0]]
          [] stmt.op = "goto"     -> goto(LineOf(list, stmt.label))
          [] stmt.op = "condgoto" ->
               goto(IF Holds(stmt.fn, arg[1], arg[2])
                    THEN LineOf(list, stmt.label) ELSE run.pc + 1)
          [] OTHER -> goto(run.pc + 1)

\* the call returns v, and leaves w in the global and arr in the array
ReturnedOf(list, run, v, w, arr) ==
    LET dest == list[run.pc].dest
    IN  [pc  |-> run.pc + 1,
         env |-> [x \in DOMAIN run.env |-> CASE x = dest -> v
                                             [] x = Glob /\ x # dest -> w
                                             [] OTHER -> run.env[x]],
         arr |-> arr]

-------------------------------------------------------------------------------
(* The two runs.                                                           *)

Running == after.pc # 0

Start ==
    /\ ~ Optimising /\ ~ Running
    /\ \E arg \in [0..(func.params - 1) -> Val], w \in Val :
         LET env == [x \in (Vars(func) \cup {Glob}) \ Literals |->
                        IF x = Glob THEN w
                        ELSE IF IsArg(x) THEN arg[x - REGUID_ARG_OFFSET] ELSE 0]
             own == [x \in {x \in DOMAIN env : ~ IsTempVar(x)} |-> env[x]]
         IN  /\ before' = Initially(func.body, own)
             /\ after' = [pc |-> 1, env |-> env, arr |-> NoWords]
    /\ UNCHANGED <<func, optvars>>

\* to the next event, the body first
StepBefore ==
    /\ Running /\ ~ AtEvent(before)
    /\ before' = Step(before)
    /\ UNCHANGED <<func, optvars, after>>

StepAfter ==
    /\ Running /\ AtEvent(before) /\ ~ AtEventOf(stmts, after)
    /\ after' = After(stmts, after)
    /\ UNCHANGED <<func, optvars, before>>

BothAtEvent == Running /\ AtEvent(before) /\ AtEventOf(stmts, after)

\* a called function writes to the array if it is passed a pointer to it
CallOfBoth ==
    /\ BothAtEvent
    /\ AtCall(before) /\ IsCall(stmts[after.pc])
    /\ \E v, w \in Val :
       \E arr \in IF \E i \in DOMAIN Given(before) : Given(before)[i] >= Base
                 THEN {[i \in Val |-> (before.arr[i] + w) % Modulus]}
                 ELSE {before.arr} :
         /\ before' = Returned(before, v, w, arr)
         /\ after' = ReturnedOf(stmts, after, v, w, arr)
    /\ UNCHANGED <<func, optvars>>

Returning ==
    /\ BothAtEvent
    /\ ~ (AtCall(before) /\ IsCall(stmts[after.pc]))
    /\ UNCHANGED vars

Optimise == MergeMov \/ MergeCond \/ Keep \/ EndRound

Next == \/ Optimise
        \/ Start
        \/ StepBefore
        \/ StepAfter
        \/ CallOfBoth
        \/ Returning

Spec == Init /\ [][Next]_vars

FairSpec == Spec /\ WF_vars(Next)

-------------------------------------------------------------------------------
(* Properties.                                                             *)

\* what the assertion of IrArraySet allows
OffsetsFit(list) ==
    \A k \in DOMAIN list : list[k].op = "arrayset" => list[k].label < FarOffset

\* The iterators stay a step apart in the list; every jump has its label after
\* any number of rewrites, and no statement falls off the end; no offset an
\* array is set at exceeds what the assertion of IrArraySet allows.
TypeOK ==
    /\ it \in 1..(Len(stmts) + 1)
    /\ last \in {0, it - 1}
    /\ round \in 0..3
    /\ WellFormed([func EXCEPT !.stmts = stmts])
    /\ OffsetsFit(stmts)
    /\ after.pc \in 0..Len(stmts)

\* What gen_ir does with temporaries: each is read by one statement, and where
\* a move or a test begins with one, it is the result of the statement above, if
\* that computes anything.
Reading(t) ==
    /\ \/ t.op = "mov"
       \/ t.op \in {"condgoto", "opbinary"} /\ t.args[2] = Zero
    /\ IsTempVar(t.args[1])

Joined(s, t) ==
    Reading(t) /\ s.op \in {"opbinary", "opunary", "call", "mov"} => s.dest = t.args[1]

Temporaries(list) ==
    /\ \A i, j \in DOMAIN list : \A v \in Uses(list[i]) \cap Uses(list[j]) :
          IsTempVar(v) => i = j
    /\ \A i \in DOMAIN list \ {1} : Joined(list[i - 1], list[i])
    /\ \A i \in DOMAIN list :
          list[i].op \in {"mov", "condgoto", "opbinary"} => 1 \in DOMAIN list[i].args

\* What the code does not check: the statement that a move or a test is merged
\* with computes the temporary, on every path, and nobody else reads it.
MergesOnlyResults ==
    CanMergeMov \/ CanMergeCond =>
        /\ stmts[last].dest = stmts[it].args[1]
        /\ CfgPrev([func EXCEPT !.stmts = stmts], it) = {last}
        /\ \A k \in DOMAIN stmts : k # it =>
              stmts[it].args[1] \notin Uses(stmts[k])

\* Translated and rewritten, the function makes the calls its body makes, with
\* the same arguments, global and array, and returns the same value, whatever
\* it was called with and calls do.
SameEvents ==
    BothAtEvent =>
        LET n == Item(before).of
            s == stmts[after.pc]
        IN  /\ AtCall(before) <=> IsCall(s)
            /\ IsCall(s) => n.fn = s.fn
            /\ Given(before) = Args(after, s)
            /\ before.env[Glob] = after.env[Glob]
            /\ before.arr = after.arr

\* It is never stuck in a loop that its body does not have.
Follows == Running /\ AtEvent(before) ~> BothAtEvent
===============================================================================

-------------------------------- MODULE IrExec --------------------------------
(***************************************************************************)
(* What a program means before it is given registers: scalars have values  *)
(* of their own in every call of a function, and only those that are alive *)
(* have any.  A statement is one step; a library function returns any      *)
(* value and its parameters are what can be observed.                      *)
(* Arrays are the caller's, the callee's or global, and pointers lead to   *)
(* them.                                                                   *)
(***************************************************************************)
EXTENDS LiveSets, Values, SequencesExt

CONSTANTS
    Programs,       \* sequences of functions [name, isvoid, func, alive, ...]
    Builtins,       \* names of the functions of the runtime library
    GlobInit        \* the initial values of the global array

VARIABLES prog,     \* the program
          status,   \* "ready", "running" or "exited"
          frames,   \* calls in progress, [fi, pc, env, arr]
          glob,     \* the global scalar
          garr,     \* the global array
          out       \* the last call of a library function

ivars == <<prog, status, frames, glob, garr, out>>

Init == /\ prog \in Programs
        /\ status = "ready"
        /\ frames = <<>>
        /\ glob = 0
        /\ garr = GlobInit
        /\ out = <<>>

-------------------------------------------------------------------------------
Top   == frames[Len(frames)]
Here  == prog[Top.fi]
Stmt_ == Here.func.stmts[Top.pc]

Value(v) == CASE v = NoVar   -> Literal
              [] v = Glob    -> glob
              [] v = LocArr  -> Ptr(Len(frames), 0)
              [] v = GlobArr -> Ptr(0, 0)
              [] OTHER       -> Top.env[v]

\* the word a pointer leads to
Deref(p) == IF PtrArray(p) = 0 THEN garr[PtrOffset(p)]
            ELSE frames[PtrArray(p)].arr[PtrOffset(p)]

\* a local array that was not given values
NoValues(f) == [i \in 0..(f.arraysize - 1) |-> Junk]

\* the scalars alive at line n, x being given the value v
Bound(f, env, n, x, v) == [y \in f.alive[n] |-> IF y = x THEN v ELSE env[y]]

\* continue the calls fs in line n of the last, x having been given the value v
Continue(fs, n, x, v) ==
    LET last == fs[Len(fs)]
        f    == prog[last.fi]
    IN  /\ frames' = [fs EXCEPT ![Len(fs)] =
                            [last EXCEPT !.pc = n, !.env = Bound(f, last.env, n, x, v)]]
        /\ glob' = IF x = Glob THEN v ELSE glob

Start ==
    /\ status = "ready"
    /\ status' = "running"
    /\ frames' = <<[fi |-> Len(prog), pc |-> 1, env |-> <<>>,
                    arr |-> NoValues(prog[Len(prog)])]>>
    /\ UNCHANGED <<prog, glob, garr, out>>

\* what the statement computes
Result ==
    LET arg(i) == Value(Stmt_.args[i])
    IN  CASE Stmt_.op = "opbinary" -> BinaryOp(arg(1), arg(2))
          [] Stmt_.op = "opunary"  -> UnaryOp(arg(1))
          [] Stmt_.op \in {"mov", "return"} -> arg(1)
          [] Stmt_.op = "arrayget" -> Deref(arg(1) + Stmt_.label)
          [] OTHER                 -> 0

Compute ==
    /\ Stmt_.op \in {"opbinary", "opunary", "mov", "arrayget", "param", "label"}
    /\ Continue(frames, Top.pc + 1, Stmt_.dest, Result)
    /\ UNCHANGED <<prog, status, garr, out>>

ArraySet ==
    /\ Stmt_.op = "arrayset"
    /\ LET p == Value(Stmt_.args[1]) + Stmt_.label
           k == PtrArray(p)
           v == Value(Stmt_.args[2])
       IN  IF k = 0
           THEN /\ garr' = [garr EXCEPT ![PtrOffset(p)] = v]
                /\ Continue(frames, Top.pc + 1, NoVar, 0)
           ELSE /\ Continue([frames EXCEPT ![k].arr[PtrOffset(p)] = v],
                            Top.pc + 1, NoVar, 0)
                /\ UNCHANGED garr
    /\ UNCHANGED <<prog, status, out>>

FillZero ==
    /\ Stmt_.op = "fillzero"
    /\ Continue([frames EXCEPT ![Len(frames)].arr = [i \in DOMAIN @ |-> 0]],
                Top.pc + 1, NoVar, 0)
    /\ UNCHANGED <<prog, status, garr, out>>

Jump ==
    /\ Stmt_.op \in {"goto", "condgoto"}
    /\ LET jumps == Stmt_.op = "goto"
                    \/ Value(Stmt_.args[1]) = Value(Stmt_.args[2])
       IN  \E n \in Lines(Here.func) :
             /\ IF jumps THEN n \in LabelLines(Here.func, Stmt_.label)
                         ELSE n = Top.pc + 1
             /\ Continue(frames, n, NoVar, 0)
    /\ UNCHANGED <<prog, status, garr, out>>

Params == [i \in DOMAIN Stmt_.args |-> Value(Stmt_.args[i])]

\* what the caller keeps meanwhile: the scalars alive afterwards
Suspended ==
    [Top EXCEPT !.env = [y \in MeetOf(Here.func, Here.alive, Top.pc) \ Defs(Stmt_) |->
                            Top.env[y]]]

Call ==
    /\ IsCall(Stmt_)
    /\ \E j \in DOMAIN prog :
         /\ prog[j].name = Stmt_.fn
         /\ frames' = Front(frames) \o
              <<Suspended,
                [fi |-> j, pc |-> 1,
                 env |-> [y \in prog[j].alive[1] |->
                             Params[y - REGUID_ARG_OFFSET + 1]],
                 arr |-> NoValues(prog[j])]>>
    /\ UNCHANGED <<prog, status, glob, garr, out>>

CallLibrary ==
    /\ IsCall(Stmt_)
    /\ Stmt_.fn \in Builtins
    /\ out' = <<Stmt_.fn, Params>>
    /\ \E v \in Val : Continue(frames, Top.pc + 1, Stmt_.dest, v)
    /\ UNCHANGED <<prog, status, garr>>

Return ==
    /\ Stmt_.op \in {"return", "returnvoid"}
    /\ LET rest == Front(frames)
           call == prog[rest[Len(rest)].fi].func.stmts[rest[Len(rest)].pc]
       IN  IF rest = <<>>
           THEN /\ frames' = <<>>
                /\ status' = "exited"
                /\ out' = <<"exit", <<Result>>>>
                /\ UNCHANGED glob
           ELSE /\ Continue(rest, rest[Len(rest)].pc + 1, call.dest, Result)
                /\ UNCHANGED <<status, out>>
    /\ UNCHANGED <<prog, garr>>

Running == status = "running"

Next == \/ Start
        \/ Running /\ \/ Compute \/ ArraySet \/ FillZero \/ Jump
                      \/ Call \/ CallLibrary \/ Return

Spec == Init /\ [][Next]_ivars
===============================================================================

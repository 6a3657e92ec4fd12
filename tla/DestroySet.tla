------------------------------ MODULE DestroySet ------------------------------
(***************************************************************************)
(* IrFuncDef::report_destroyed_set (back/ir_misc.cpp): function after      *)
(* function, in the order of the program, which registers a call of it may *)
(* overwrite, and how many of them a caller may have to save around a      *)
(* call.  The first is looked up again when code is generated, after all   *)
(* functions have been reported; the second has then become the size of a  *)
(* part of the frame.                                                      *)
(***************************************************************************)
EXTENDS Compiled

VARIABLES prog,         \* the program
          fi,           \* the function being reported
          si,           \* its statement being looked at, 0 before the first
          destroyed,    \* root->destroy_sets, empty where nothing is reported
          own,          \* destory_set, the set being collected
          callersave    \* callersavesize of each function

vars == <<prog, fi, si, destroyed, own, callersave>>

Init ==
    /\ prog \in Programs
    /\ fi = 1
    /\ si = 0
    /\ destroyed = [n \in Names(prog) |->
                        IF n \in Builtins THEN BuiltinDestroys ELSE {}]
    /\ own = {}
    /\ callersave = [i \in DOMAIN prog |-> 0]

\* defect: the function's own registers are not published before the loop
Begin_NotInserted ==
    /\ fi <= Len(prog)
    /\ si = 0
    /\ own' = Direct(prog[fi])
    /\ si' = 1
    /\ UNCHANGED <<prog, fi, destroyed, callersave>>

\* "insert it first, therefore we can get it if the function recurses"
Begin ==
    /\ fi <= Len(prog)
    /\ si = 0
    /\ own' = Direct(prog[fi])
    /\ destroyed' = [destroyed EXCEPT ![prog[fi].name] = own']
    /\ si' = 1
    /\ UNCHANGED <<prog, fi, callersave>>

Look ==
    /\ fi <= Len(prog)
    /\ si \in 1..Len(prog[fi].func.stmts)
    /\ IF si \in Calls(prog[fi])
       THEN LET sub == destroyed[prog[fi].func.stmts[si].fn]
                n   == Cardinality(Working(prog[fi], si, sub))
            IN  /\ own' = own \cup sub
                /\ callersave' =
                     [callersave EXCEPT ![fi] = IF n > @ THEN n ELSE @]
       ELSE UNCHANGED <<own, callersave>>
    /\ si' = si + 1
    /\ UNCHANGED <<prog, fi, destroyed>>

\* defect: what the called functions overwrite is collected for nothing
End_NotPublished ==
    /\ fi <= Len(prog)
    /\ si > Len(prog[fi].func.stmts)
    /\ fi' = fi + 1
    /\ si' = 0
    /\ own' = {}
    /\ UNCHANGED <<prog, destroyed, callersave>>

End ==
    /\ fi <= Len(prog)
    /\ si > Len(prog[fi].func.stmts)
    /\ destroyed' = [destroyed EXCEPT ![prog[fi].name] = own]
    /\ fi' = fi + 1
    /\ si' = 0
    /\ own' = {}
    /\ UNCHANGED <<prog, callersave>>

Done == fi > Len(prog)

Terminated == Done /\ UNCHANGED vars

Next == Begin \/ Look \/ End \/ Terminated

Spec == Init /\ [][Next]_vars

-------------------------------------------------------------------------------
(* Properties.                                                             *)

\* The loops stay inside the program, sets hold registers.
TypeOK ==
    /\ fi \in 1..(Len(prog) + 1)
    /\ si \in Nat
    /\ fi <= Len(prog) => si <= Len(prog[fi].func.stmts) + 1
    /\ destroyed \in [Names(prog) -> SUBSET (AvailRegs \cup BuiltinDestroys)]
    /\ own \subseteq AvailRegs \cup BuiltinDestroys
    /\ callersave \in [DOMAIN prog -> Nat]

\* The assertion of gen_inst_common: the frame has room for what is saved
\* around any call.  The room was counted before the call with what was then
\* known to be destroyed, of a function that calls itself only a part.
SaveAreaSuffices ==
    Done => \A i \in DOMAIN prog : \A s \in Calls(prog[i]) :
        LET sub == destroyed[prog[i].func.stmts[s].fn]
        IN  Cardinality(SavedRegs(prog[i], s, sub)) <= callersave[i]

\* The functions a call of a function may lead to, by name.
Called(name) ==
    LET callees(i) == {prog[i].func.stmts[s].fn : s \in Calls(prog[i])}
        within[k \in 0..Len(prog)] ==
            IF k = 0
            THEN {name}
            ELSE LET ns == within[k-1]
                 IN  ns \cup UNION {callees(i) : i \in {j \in DOMAIN prog : prog[j].name \in ns}}
    IN  within[Len(prog)]

\* In the end a function's set is what it and all functions it leads to
\* overwrite themselves: nothing is missing, also not through recursion, and
\* nothing is saved for nothing.
DestroyedExact ==
    Done => \A i \in DOMAIN prog :
        LET called == Called(prog[i].name)
        IN  destroyed[prog[i].name] =
                (UNION {Direct(prog[j]) : j \in {k \in DOMAIN prog : prog[k].name \in called}})
                \cup (IF called \cap Builtins # {} THEN BuiltinDestroys ELSE {})
===============================================================================

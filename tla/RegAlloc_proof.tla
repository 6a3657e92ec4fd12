---------------------------- MODULE RegAlloc_proof ----------------------------
(***************************************************************************)
(* Proofs about back/regalloc.cpp, for every well-formed function: first   *)
(* the liveness analysis, then the allocation of registers.                *)
(***************************************************************************)
EXTENDS Liveness, RegAlloc, SequenceTheorems, Fixpoints, TLAPS

-------------------------------------------------------------------------------
(* The liveness analysis.                                                  *)

\* Equations may have several solutions (a loop can call alive what nothing
\* reads); the one computed is below all of them.
BelowEverySolution ==
    \A live \in [Lines(func) -> SUBSET Vars(func)] :
        Solution(func, live) => \A s \in Lines(func) : alive[s] \subseteq live[s]

\* The loop ends with the least solution of the equations.
FinishedLeast == Finished => Solution(func, alive) /\ BelowEverySolution

-------------------------------------------------------------------------------

\* The equations take sets of scalars of the function to such sets.
LEMMA AliveOfType ==
    ASSUME NEW f, NEW live \in [Lines(f) -> SUBSET Vars(f)], WellFormed(f),
           NEW s \in Lines(f)
    PROVE  /\ MeetOf(f, live, s) \in SUBSET Vars(f)
           /\ AliveOf(f, live, s) \in SUBSET Vars(f)
<1>1. CfgNext(f, s) \subseteq Lines(f)
  BY DEF WellFormed
<1>2. MeetOf(f, live, s) \in SUBSET Vars(f)
  BY <1>1 DEF MeetOf
<1>3. Uses(f.stmts[s]) \subseteq Vars(f)
  BY DEF Vars
<1> QED
  BY <1>2, <1>3 DEF AliveOf

\* Changing the set of one statement leaves the equation of every statement
\* that does not precede it as it was.
LEMMA EquationElsewhere ==
    ASSUME NEW f, NEW live \in [Lines(f) -> SUBSET Vars(f)], WellFormed(f),
           NEW s \in Lines(f), NEW a \in SUBSET Vars(f),
           NEW t \in Lines(f), a = live[s] \/ t \notin CfgPrev(f, s)
    PROVE  /\ MeetOf(f, [live EXCEPT ![s] = a], t) = MeetOf(f, live, t)
           /\ AliveOf(f, [live EXCEPT ![s] = a], t) = AliveOf(f, live, t)
<1> DEFINE new == [live EXCEPT ![s] = a]
<1>1. CfgNext(f, t) \subseteq Lines(f)
  BY DEF WellFormed
<1>2. \A u \in CfgNext(f, t) : new[u] = live[u]
  BY <1>1 DEF CfgPrev
<1>3. MeetOf(f, new, t) = MeetOf(f, live, t)
  BY <1>2 DEF MeetOf
<1> QED
  BY <1>3 DEF AliveOf

\* The equations are monotone.
LEMMA AliveOfMonotone ==
    ASSUME NEW f, WellFormed(f), NEW s \in Lines(f),
           NEW low \in [Lines(f) -> SUBSET Vars(f)],
           NEW high \in [Lines(f) -> SUBSET Vars(f)],
           \A t \in Lines(f) : low[t] \subseteq high[t]
    PROVE  AliveOf(f, low, s) \subseteq AliveOf(f, high, s)
<1>1. CfgNext(f, s) \subseteq Lines(f)
  BY DEF WellFormed
<1>2. MeetOf(f, low, s) \subseteq MeetOf(f, high, s)
  BY <1>1 DEF MeetOf
<1> QED
  BY <1>2 DEF AliveOf

-------------------------------------------------------------------------------

\* Queue, flags and sets stay within the function under analysis.
THEOREM LiveTypeCorrect == LiveSpec => []LiveTypeOK
<1>1. LiveInit => LiveTypeOK
  <2> SUFFICES ASSUME LiveInit PROVE LiveTypeOK
    OBVIOUS
  <2>1. WellFormed(func)
    BY FuncsWellFormed DEF LiveInit
  <2>2. q \in Seq(Lines(func))
    BY <2>1 DEF LiveInit, WellFormed
  <2> QED
    BY <2>1, <2>2 DEF LiveInit, LiveTypeOK
<1>2. LiveTypeOK /\ [LiveNext]_livevars => LiveTypeOK'
  <2> SUFFICES ASSUME LiveTypeOK, [LiveNext]_livevars PROVE LiveTypeOK'
    OBVIOUS
  <2> USE DEF LiveTypeOK
  <2>1. CASE Process
    <3> DEFINE s == Head(q)
    <3>1. s \in Lines(func) /\ Tail(q) \in Seq(Lines(func))
      BY <2>1 DEF Process
    <3>2. /\ MeetOf(func, alive, s) \in SUBSET Vars(func)
          /\ AliveOf(func, alive, s) \in SUBSET Vars(func)
      BY <3>1, AliveOfType
    <3>3. CfgPrev(func, s) \subseteq Lines(func)
      BY DEF CfgPrev
    <3> QED
      BY <2>1, <3>1, <3>2, <3>3 DEF Process
  <2>2. ASSUME NEW t \in todo, Requeue(t) PROVE LiveTypeOK'
    BY <2>2 DEF Requeue
  <2>3. CASE UNCHANGED livevars
    BY <2>3 DEF livevars
  <2> QED
    BY <2>1, <2>2, <2>3 DEF LiveNext, LiveTerminated
<1> QED
  BY <1>1, <1>2, PTL DEF LiveSpec

\* The in-queue flags and the queue never disagree, and no statement is in
\* the queue twice.
THEOREM WorklistCorrect == LiveSpec => []WorklistConsistent
<1>1. LiveInit => WorklistConsistent
  <2> SUFFICES ASSUME LiveInit PROVE WorklistConsistent
    OBVIOUS
  <2>1. WellFormed(func)
    BY FuncsWellFormed DEF LiveInit
  <2>2. Len(q) = Len(func.stmts) /\ \A i \in 1..Len(q) : q[i] = i
    BY <2>1 DEF LiveInit, WellFormed
  <2> QED
    BY <2>1, <2>2 DEF LiveInit, WorklistConsistent, WellFormed
<1>2. LiveTypeOK /\ WorklistConsistent /\ [LiveNext]_livevars => WorklistConsistent'
  <2> SUFFICES ASSUME LiveTypeOK, WorklistConsistent, [LiveNext]_livevars
               PROVE  WorklistConsistent'
    OBVIOUS
  <2> USE DEF WorklistConsistent, LiveTypeOK
  <2>1. CASE Process
    <3>1. /\ q' = Tail(q) /\ q # <<>>
          /\ inqueue' = [inqueue EXCEPT ![Head(q)] = FALSE]
          /\ func' = func
      BY <2>1 DEF Process
    <3>2. /\ Len(q') = Len(q) - 1 /\ Len(q) \in Nat
          /\ \A i \in 1..Len(q') : q'[i] = q[i + 1] /\ i + 1 \in 1..Len(q)
          /\ \A i \in 2..Len(q) : q[i] = q'[i - 1] /\ i - 1 \in 1..Len(q')
          /\ Head(q) = q[1] /\ 1 \in 1..Len(q)
      BY <3>1
    <3>3. \A i, j \in 1..Len(q') : q'[i] = q'[j] => i = j
      BY <3>2
    <3>4. ASSUME NEW s \in Lines(func)
          PROVE  inqueue'[s] <=> \E i \in 1..Len(q') : q'[i] = s
      <4>1. CASE s = Head(q)
        BY <3>1, <3>2, <4>1
      <4>2. CASE s # Head(q)
        <5>1. inqueue'[s] = inqueue[s]
          BY <3>1, <4>2
        <5>2. \A i \in 1..Len(q) : q[i] = s => i \in 2..Len(q)
          BY <3>2, <4>2
        <5> QED
          BY <5>1, <5>2, <3>2
      <4> QED
        BY <4>1, <4>2
    <3> QED
      BY <3>1, <3>3, <3>4
  <2>2. ASSUME NEW t \in todo, Requeue(t) PROVE WorklistConsistent'
    <3>1. CASE inqueue[t]
      BY <2>2, <3>1 DEF Requeue
    <3>2. CASE ~ inqueue[t]
      <4>1. /\ q' = Append(q, t) /\ func' = func
            /\ inqueue' = [inqueue EXCEPT ![t] = TRUE]
        BY <2>2, <3>2 DEF Requeue
      <4>2. /\ Len(q') = Len(q) + 1 /\ Len(q) \in Nat
            /\ \A i \in 1..Len(q) : q'[i] = q[i]
            /\ q'[Len(q) + 1] = t
        BY <4>1
      <4>3. \A i \in 1..Len(q) : q[i] # t
        BY <3>2
      <4> QED
        BY <4>1, <4>2, <4>3
    <3> QED
      BY <3>1, <3>2
  <2>3. CASE UNCHANGED livevars
    BY <2>3 DEF livevars
  <2> QED
    BY <2>1, <2>2, <2>3 DEF LiveNext, LiveTerminated
<1> QED
  BY <1>1, <1>2, LiveTypeCorrect, PTL DEF LiveSpec

\* A statement out of the queue satisfies its equation.
THEOREM SettledCorrect == LiveSpec => []SettledUnlessQueued
<1>1. LiveInit => SettledUnlessQueued
  BY DEF LiveInit, SettledUnlessQueued
<1>2. LiveTypeOK /\ SettledUnlessQueued /\ [LiveNext]_livevars => SettledUnlessQueued'
  <2> SUFFICES ASSUME LiveTypeOK, SettledUnlessQueued, [LiveNext]_livevars
               PROVE  SettledUnlessQueued'
    OBVIOUS
  <2> USE DEF SettledUnlessQueued, LiveTypeOK
  <2>1. CASE Process
    <3> DEFINE s == Head(q)
               a == AliveOf(func, alive, s)
    <3>1. s \in Lines(func)
      BY <2>1 DEF Process
    <3>2. a \in SUBSET Vars(func)
      BY <3>1, AliveOfType
    <3>3. SUFFICES ASSUME NEW t \in Lines(func), ~ inqueue'[t], t \notin todo'
                   PROVE  /\ meet'[t] = MeetOf(func, alive', t)
                          /\ alive'[t] = AliveOf(func, alive', t)
      BY <2>1 DEF Process
    <3>4. a = alive[s] \/ t \notin CfgPrev(func, s)
      BY <2>1, <3>3 DEF Process
    <3>5. alive' = [alive EXCEPT ![s] = a]
      BY <2>1 DEF Process
    <3>6. /\ MeetOf(func, alive', t) = MeetOf(func, alive, t)
          /\ AliveOf(func, alive', t) = AliveOf(func, alive, t)
      BY <3>1, <3>2, <3>4, <3>5, EquationElsewhere
    <3>7. CASE t = s
      BY <2>1, <3>1, <3>6, <3>7 DEF Process
    <3>8. CASE t # s
      BY <2>1, <3>1, <3>3, <3>6, <3>8 DEF Process
    <3> QED
      BY <3>7, <3>8
  <2>2. ASSUME NEW t \in todo, Requeue(t) PROVE SettledUnlessQueued'
    BY <2>2 DEF Requeue
  <2>3. CASE UNCHANGED livevars
    BY <2>3 DEF livevars
  <2> QED
    BY <2>1, <2>2, <2>3 DEF LiveNext, LiveTerminated
<1> QED
  BY <1>1, <1>2, LiveTypeCorrect, PTL DEF LiveSpec

\* With nothing queued every equation holds.
LEMMA FinishedSolves ==
    ASSUME LiveTypeOK, WorklistConsistent, SettledUnlessQueued, Finished
    PROVE  Solution(func, alive)
<1>1. \A s \in Lines(func) : ~ inqueue[s]
  BY DEF WorklistConsistent, Finished
<1> QED
  BY <1>1 DEF SettledUnlessQueued, Finished, Solution

\* Nothing is alive that some solution of the equations does without, and the
\* loop ends with a solution: with the least one.
THEOREM LeastSolution == LiveSpec => []FinishedLeast
<1>1. LiveInit => BelowEverySolution
  BY DEF LiveInit, BelowEverySolution
<1>2. LiveTypeOK /\ BelowEverySolution /\ [LiveNext]_livevars => BelowEverySolution'
  <2> SUFFICES ASSUME LiveTypeOK, BelowEverySolution, [LiveNext]_livevars
               PROVE  BelowEverySolution'
    OBVIOUS
  <2>1. CASE Process
    <3> DEFINE s == Head(q)
    <3>1. /\ s \in Lines(func) /\ func' = func
          /\ alive' = [alive EXCEPT ![s] = AliveOf(func, alive, s)]
          /\ WellFormed(func)
          /\ alive \in [Lines(func) -> SUBSET Vars(func)]
      BY <2>1 DEF Process, LiveTypeOK
    <3>2. SUFFICES ASSUME NEW live \in [Lines(func) -> SUBSET Vars(func)],
                          Solution(func, live)
                   PROVE  \A t \in Lines(func) : alive'[t] \subseteq live[t]
      BY <3>1 DEF BelowEverySolution
    <3>3. \A t \in Lines(func) : alive[t] \subseteq live[t]
      BY <3>2 DEF BelowEverySolution
    <3>4. AliveOf(func, alive, s) \subseteq AliveOf(func, live, s)
      BY <3>1, <3>2, <3>3, AliveOfMonotone
    <3>5. AliveOf(func, live, s) = live[s]
      BY <3>1, <3>2 DEF Solution
    <3> QED
      BY <3>1, <3>3, <3>4, <3>5
  <2>2. ASSUME NEW t \in todo, Requeue(t) PROVE BelowEverySolution'
    BY <2>2 DEF Requeue, BelowEverySolution
  <2>3. CASE UNCHANGED livevars
    BY <2>3 DEF livevars, BelowEverySolution
  <2> QED
    BY <2>1, <2>2, <2>3 DEF LiveNext, LiveTerminated
<1>3. LiveTypeOK /\ WorklistConsistent /\ SettledUnlessQueued /\ BelowEverySolution
      => FinishedLeast
  BY FinishedSolves DEF FinishedLeast
<1> QED
  BY <1>1, <1>2, <1>3, LiveTypeCorrect, WorklistCorrect, SettledCorrect, PTL
  DEF LiveSpec

\* The abstract specification speaks of the same control flow and equations.
LEMMA SameEquations ==
    /\ \A f : Chaotic!Lines(f) = Lines(f)
    /\ \A f, live, s : Chaotic!AliveOf(f, live, s) = AliveOf(f, live, s)
<1>1. \A f : Chaotic!Lines(f) = Lines(f)
  BY DEF Chaotic!Lines, Lines
<1>2. \A f, l : Chaotic!LabelLines(f, l) = LabelLines(f, l)
  BY <1>1 DEF Chaotic!LabelLines, LabelLines
<1>3. \A f, s : Chaotic!CfgNext(f, s) = CfgNext(f, s)
  BY <1>2 DEF Chaotic!CfgNext, CfgNext
<1>4. \A stmt : Chaotic!Defs(stmt) = Defs(stmt) /\ Chaotic!Uses(stmt) = Uses(stmt)
  BY DEF Chaotic!Defs, Defs, Chaotic!Uses, Uses, Chaotic!Unpooled, Unpooled,
         Chaotic!Arrays, Arrays
<1>5. \A f, live, s : Chaotic!MeetOf(f, live, s) = MeetOf(f, live, s)
  BY <1>3 DEF Chaotic!MeetOf, MeetOf
<1> QED
  BY <1>1, <1>4, <1>5 DEF Chaotic!AliveOf, AliveOf

\* Every run of the worklist algorithm is a run of chaotic iteration: it only
\* re-establishes single equations, and ends only when all of them hold.
THEOREM WorklistImplementsChaotic == LiveSpec => ImplementsChaotic
<1>1. LiveInit => Chaotic!Init
  <2> SUFFICES ASSUME LiveInit PROVE Chaotic!Init
    OBVIOUS
  <2>1. WellFormed(func)
    BY FuncsWellFormed DEF LiveInit
  <2>2. ~ Finished
    BY <2>1 DEF LiveInit, Finished, WellFormed
  <2> QED
    BY <2>2, SameEquations DEF LiveInit, Chaotic!Init
<1>2. /\ LiveTypeOK /\ WorklistConsistent' /\ SettledUnlessQueued' /\ LiveTypeOK'
      /\ [LiveNext]_livevars
      => [Chaotic!Next]_(Chaotic!avars)
  <2> SUFFICES ASSUME LiveTypeOK, LiveTypeOK', WorklistConsistent', SettledUnlessQueued',
                      [LiveNext]_livevars
               PROVE  Chaotic!Next \/ UNCHANGED Chaotic!avars
    OBVIOUS
  <2>1. CASE Process
    <3>1. /\ Head(q) \in Lines(func) /\ ~ Finished /\ func' = func
          /\ alive' = [alive EXCEPT ![Head(q)] = AliveOf(func, alive, Head(q))]
      BY <2>1 DEF Process, LiveTypeOK, Finished
    <3>2. Finished' => Chaotic!Solution(func, alive')
      <4>1. Finished' => \A s \in Lines(func') : ~ inqueue'[s] /\ s \notin todo'
        BY DEF WorklistConsistent, Finished
      <4> QED
        BY <4>1, <3>1, SameEquations DEF SettledUnlessQueued, Chaotic!Solution
    <3>3. UNCHANGED Finished \/ Finished' = TRUE
      BY <3>1 DEF Finished
    <3>4. Chaotic!Solve(Head(q))
      BY <3>1, <3>2, <3>3, SameEquations DEF Chaotic!Solve
    <3> QED
      BY <3>1, <3>4, SameEquations DEF Chaotic!Next
  <2>2. ASSUME NEW t \in todo, Requeue(t) PROVE UNCHANGED Chaotic!avars
    <3>1. ~ Finished
      BY DEF Finished
    <3>2. q' # <<>>
      BY <2>2 DEF Requeue, WorklistConsistent, LiveTypeOK
    <3> QED
      BY <2>2, <3>1, <3>2 DEF Requeue, Chaotic!avars, Finished
  <2>3. CASE UNCHANGED livevars
    BY <2>3 DEF livevars, Chaotic!avars, Finished
  <2> QED
    BY <2>1, <2>2, <2>3 DEF LiveNext, LiveTerminated
<1> QED
  BY <1>1, <1>2, LiveTypeCorrect, WorklistCorrect, SettledCorrect, PTL
  DEF LiveSpec, ImplementsChaotic, Chaotic!Spec

-------------------------------------------------------------------------------
(* The sets in terms of paths: what ReadWithin counts to as many steps as  *)
(* there are statements is what a path of any length reads.                *)

Reads(f, v)  == {s \in Lines(f) : v \in Uses(f.stmts[s])}
Writes(f, v) == {s \in Lines(f) : v \in Defs(f.stmts[s])}

\* one more step to a read of v
Closer(f, v) ==
    [X \in SUBSET Lines(f) |->
        Reads(f, v) \cup {s \in Lines(f) \ Writes(f, v) : CfgNext(f, s) \cap X # {}}]

\* ReadWithin iterates Closer.
LEMMA ReadWithinIterates ==
    ASSUME NEW f, WellFormed(f), NEW v
    PROVE  \E g : /\ IsIteration(g, Reads(f, v), Closer(f, v), Len(f.stmts))
                  /\ ReadWithin(f, v) = g[Len(f.stmts)]
<1> DEFINE n == Len(f.stmts)
           T == SUBSET Lines(f)
           step(X) == Reads(f, v) \cup {s \in Lines(f) \ Writes(f, v) :
                                           CfgNext(f, s) \cap X # {}}
           Eq(g) == g = [k \in 0..n |-> IF k = 0 THEN Reads(f, v) ELSE step(g[k - 1])]
<1>1. n \in Nat /\ Reads(f, v) \in T /\ Closer(f, v) \in [T -> T]
  BY DEF WellFormed, Reads, Closer
<1>2. ReadWithin(f, v) = (CHOOSE g : Eq(g))[n]
  BY DEF ReadWithin, Reads, Writes
<1>3. \E g \in [0..n -> T] : IsIteration(g, Reads(f, v), Closer(f, v), n)
  BY <1>1, IterationExists
<1>4. \E g : Eq(g)
  <2>1. PICK g \in [0..n -> T] : IsIteration(g, Reads(f, v), Closer(f, v), n)
    BY <1>3
  <2>2. \A X \in T : Closer(f, v)[X] = step(X)
    BY DEF Closer
  <2>3. \A k \in 0..n : k # 0 => g[k - 1] \in T
    BY <1>1
  <2> HIDE DEF T, step
  <2>4. Eq(g)
    BY <2>1, <2>2, <2>3 DEF IsIteration
  <2> QED
    BY <2>4
<1> DEFINE h == CHOOSE g : Eq(g)
<1>5. Eq(h)
  BY <1>4
<1> HIDE DEF h
<1>6. \A k \in 0..n : h[k] = IF k = 0 THEN Reads(f, v) ELSE step(h[k - 1])
  BY <1>5
<1>7. \A k \in 0..n : h[k] \in T
  BY <1>1, <1>6 DEF Reads
<1>8. IsIteration(h, Reads(f, v), Closer(f, v), n)
  <2>2. \A X \in T : Closer(f, v)[X] = step(X)
    BY DEF Closer
  <2>3. \A k \in 0..n : k # 0 => h[k - 1] \in T
    BY <1>1, <1>7
  <2> HIDE DEF T, step
  <2> QED
    BY <1>5, <2>2, <2>3 DEF IsIteration
<1> QED
  BY <1>2, <1>8 DEF h

\* Counting further than there are statements finds nothing more.
LEMMA ReadWithinFixed ==
    ASSUME NEW f, WellFormed(f), NEW v
    PROVE  /\ ReadWithin(f, v) \in SUBSET Lines(f)
           /\ Closer(f, v)[ReadWithin(f, v)] = ReadWithin(f, v)
<1> DEFINE n == Len(f.stmts)
           U == Lines(f)
           base == Reads(f, v)
           F == Closer(f, v)
<1>1. n \in Nat /\ U = 1..n
  BY DEF WellFormed
<1>2. IsFiniteSet(U) /\ Cardinality(U) = n
  BY <1>1, FS_Interval
<1>3. base \in SUBSET U /\ F \in [SUBSET U -> SUBSET U]
  BY DEF Reads, Closer
<1>4. Monotone(F, U) /\ base \subseteq F[base]
  BY <1>3 DEF Closer, Monotone
<1>5. PICK g : IsIteration(g, base, F, n) /\ ReadWithin(f, v) = g[n]
  BY ReadWithinIterates
<1>6. Cardinality(base) \in Nat
  BY <1>2, <1>3, FS_Subset, FS_CardinalityType
<1>7. Enough(n, base, U)
  <2> HIDE DEF U, base, n
  <2> QED
    BY <1>1, <1>2, <1>6 DEF Enough
<1>8. g[n] \in SUBSET U
  <2> DEFINE T == SUBSET U
  <2>1. base \in T /\ F \in [T -> T] /\ T \subseteq T /\ \A X \in T : F[X] \in T
    BY <1>3
  <2> HIDE DEF T, U, base, F, n
  <2>2. \A k \in 0..n : g[k] \in T
    BY <1>1, <1>5, <2>1, IterationInside
  <2> QED
    BY <1>1, <2>2 DEF T
<1>9. F[g[n]] = g[n]
  <2> HIDE DEF U, base, F, n
  <2>1. IsFiniteSet(U) /\ n \in Nat
    BY <1>1, <1>2
  <2> QED
    BY <1>3, <1>4, <1>5, <1>7, <2>1, IterationEnds
<1> QED
  BY <1>5, <1>8, <1>9

\* Reading along paths solves the equations.
LEMMA LiveInSolves ==
    ASSUME NEW f, WellFormed(f)
    PROVE  /\ LiveIn(f) \in [Lines(f) -> SUBSET Vars(f)]
           /\ Solution(f, LiveIn(f))
<1>1. /\ LiveIn(f) \in [Lines(f) -> SUBSET Vars(f)]
      /\ \A s \in Lines(f), v \in Vars(f) : v \in LiveIn(f)[s] <=> s \in ReadWithin(f, v)
  BY DEF LiveIn
<1>2. SUFFICES ASSUME NEW s \in Lines(f)
               PROVE  LiveIn(f)[s] = AliveOf(f, LiveIn(f), s)
  BY <1>1 DEF Solution
<1>3. AliveOf(f, LiveIn(f), s) \in SUBSET Vars(f) /\ LiveIn(f)[s] \in SUBSET Vars(f)
  BY <1>1, AliveOfType
<1>4. ASSUME NEW v \in Vars(f)
      PROVE  v \in LiveIn(f)[s] <=> v \in AliveOf(f, LiveIn(f), s)
  <2> DEFINE R == ReadWithin(f, v)
  <2>1. R \in SUBSET Lines(f) /\ R = Closer(f, v)[R]
    BY ReadWithinFixed
  <2>2. \A t \in Lines(f) : v \in LiveIn(f)[t] <=> t \in R
    BY <1>1
  <2>3. CfgNext(f, s) \subseteq Lines(f)
    BY DEF WellFormed
  <2> HIDE DEF R
  <2>4. s \in R <=> \/ v \in Uses(f.stmts[s])
                    \/ v \notin Defs(f.stmts[s]) /\ CfgNext(f, s) \cap R # {}
    BY <2>1 DEF Closer, Reads, Writes
  <2>5. CfgNext(f, s) \cap R # {} <=> v \in MeetOf(f, LiveIn(f), s)
    BY <2>2, <2>3 DEF MeetOf
  <2> QED
    BY <2>2, <2>4, <2>5 DEF AliveOf
<1> QED
  BY <1>3, <1>4

\* A solution calls alive whatever some path reads.
LEMMA LiveInLeast ==
    ASSUME NEW f, WellFormed(f), NEW live \in [Lines(f) -> SUBSET Vars(f)],
           Solution(f, live), NEW s \in Lines(f)
    PROVE  LiveIn(f)[s] \subseteq live[s]
<1> SUFFICES ASSUME NEW v \in Vars(f), s \in ReadWithin(f, v) PROVE v \in live[s]
  BY DEF LiveIn
<1> DEFINE n == Len(f.stmts)
           T == SUBSET Lines(f)
           base == Reads(f, v)
           F == Closer(f, v)
           inside == {t \in Lines(f) : v \in live[t]}
           P == SUBSET inside
<1>1. n \in Nat /\ base \in T /\ F \in [T -> T]
  BY DEF WellFormed, Reads, Closer
<1>2. PICK g : IsIteration(g, base, F, n) /\ ReadWithin(f, v) = g[n]
  BY ReadWithinIterates
<1>3. \A t \in Lines(f) :
        live[t] = (MeetOf(f, live, t) \ Defs(f.stmts[t])) \cup Uses(f.stmts[t])
  BY DEF Solution, AliveOf
<1>4. P \in SUBSET T /\ base \in P
  BY <1>3 DEF Reads
<1>5. \A X \in P : F[X] \in P
  <2> SUFFICES ASSUME NEW X \in P, NEW t \in F[X] PROVE t \in inside
    BY DEF Closer
  <2>1. X \in T
    BY <1>4
  <2>2. t \in Lines(f) /\ (\/ v \in Uses(f.stmts[t])
                           \/ v \notin Defs(f.stmts[t]) /\ CfgNext(f, t) \cap X # {})
    BY <2>1 DEF Closer, Reads, Writes
  <2>3. CfgNext(f, t) \subseteq Lines(f)
    BY <2>2 DEF WellFormed
  <2>4. CfgNext(f, t) \cap X # {} => v \in MeetOf(f, live, t)
    BY <2>3 DEF MeetOf
  <2> QED
    BY <1>3, <2>2, <2>4
<1>6. \A k \in 0..n : g[k] \in P
  <2> HIDE DEF n, T, base, F, P
  <2> QED
    BY <1>1, <1>2, <1>4, <1>5, IterationInside
<1> QED
  BY <1>1, <1>2, <1>6

\* For every function: the sets the allocator takes over hold a scalar exactly
\* where some path reads it before writing it (propagate_alive_vars).
THEOREM FinishedIsExact == LiveSpec => []FinishedExact
<1>1. /\ LiveTypeOK /\ WorklistConsistent /\ SettledUnlessQueued /\ FinishedLeast
      => FinishedExact
  <2> SUFFICES ASSUME LiveTypeOK, WorklistConsistent, SettledUnlessQueued, FinishedLeast,
                      Finished
               PROVE  alive = LiveIn(func) /\ meet = LiveOut(func)
    BY DEF FinishedExact
  <2>1. /\ WellFormed(func) /\ alive \in [Lines(func) -> SUBSET Vars(func)]
        /\ meet \in [Lines(func) -> SUBSET Vars(func)]
    BY DEF LiveTypeOK
  <2>2. Solution(func, alive) /\ BelowEverySolution
    BY DEF FinishedLeast
  <2>3. /\ LiveIn(func) \in [Lines(func) -> SUBSET Vars(func)]
        /\ Solution(func, LiveIn(func))
    BY <2>1, LiveInSolves
  <2>4. \A s \in Lines(func) : alive[s] \subseteq LiveIn(func)[s]
    BY <2>2, <2>3 DEF BelowEverySolution
  <2>5. \A s \in Lines(func) : LiveIn(func)[s] \subseteq alive[s]
    BY <2>1, <2>2, LiveInLeast
  <2>6. alive = LiveIn(func)
    <3> DEFINE other == LiveIn(func)
    <3>1. other \in [Lines(func) -> SUBSET Vars(func)]
      BY <2>3
    <3>2. \A s \in Lines(func) : alive[s] = other[s]
      BY <2>4, <2>5
    <3> HIDE DEF other
    <3>3. alive = other
      BY <2>1, <3>1, <3>2
    <3> QED
      BY <3>3 DEF other
  <2>7. \A s \in Lines(func) : meet[s] = MeetOf(func, alive, s)
    BY DEF WorklistConsistent, SettledUnlessQueued, Finished
  <2>8. meet = LiveOut(func)
    BY <2>1, <2>6, <2>7 DEF LiveOut
  <2> QED
    BY <2>6, <2>8
<1> QED
  BY <1>1, LiveTypeCorrect, WorklistCorrect, SettledCorrect, LeastSolution, PTL

-------------------------------------------------------------------------------
(* The allocation of registers.                                            *)

\* Neighbours of the i-th node of the stack that can have a register by the
\* time its turn comes.
Ahead(i) ==
    {y \in Interferes(in)[stk[i]] :
        \/ y \in nodes
        \/ \E j \in (i + 1)..Len(stk) : stk[j] = y
        \/ vreg[y].pos = "reg"}

\* Chaitin's argument: fewer than K of them.
AheadBounded == \A i \in 1..Len(stk) : Cardinality(Ahead(i)) < K

\* NoConflict, stated on the graph.
PairwiseApart ==
    \A x \in Pooled(in) : \A y \in Interferes(in)[x] :
        vreg[x] # Unmapped => vreg[x] # vreg[y]

\* What the allocator knows of its input.
InputOK ==
    /\ IsFiniteSet(Pooled(in))
    /\ in.arraysize \in Nat
    /\ in.func.params \in 0..MaxArgs
    /\ \A x \in Pooled(in) :
         IsArg(x) => \E i \in 0..(in.func.params - 1) : x = Arg(i)

-------------------------------------------------------------------------------

\* PlaceKinds of different kinds, and registers and slots, are told apart.
LEMMA PlaceKinds ==
    /\ \A r1, r2 : InReg(r1) = InReg(r2) => r1 = r2
    /\ \A n1, n2 : OnStack(n1) = OnStack(n2) => n1 = n2
    /\ \A r, n : InReg(r) # OnStack(n) /\ InReg(r) # Unmapped /\ OnStack(n) # Unmapped
    /\ \A r : InReg(r).pos = "reg" /\ InReg(r).reg = r
    /\ \A n : OnStack(n).pos = "stack" /\ OnStack(n).slot = n /\ OnStack(n).reg = NoReg
    /\ Unmapped.pos = "none"
BY DEF InReg, OnStack, Unmapped

\* Interference is symmetric and no scalar interferes with itself.
LEMMA Symmetric ==
    ASSUME NEW input, NEW x \in Pooled(input), NEW y \in Interferes(input)[x]
    PROVE  /\ y \in Pooled(input) /\ y # x
           /\ x \in Interferes(input)[y]
BY DEF Interferes

\* Interference is between scalars of the pool.
LEMMA InterferesType ==
    ASSUME NEW input
    PROVE  Interferes(input) \in [Pooled(input) -> SUBSET Pooled(input)]
BY DEF Interferes

\* There are no more argument registers than registers.
LEMMA KType == K \in Nat /\ MaxArgs \in Nat /\ MaxArgs <= K
BY RegsAssumption, FS_CardinalityType DEF K

\* What is left of a stack after taking its top.
LEMMA PopProperties ==
    ASSUME NEW S, NEW s \in Seq(S), s # <<>>
    PROVE  LET t == SubSeq(s, 1, Len(s) - 1)
           IN  /\ t \in Seq(S) /\ Len(t) = Len(s) - 1
               /\ \A i \in 1..(Len(s) - 1) : t[i] = s[i]
<1>1. PICK n \in Nat : n = Len(s) - 1 /\ Len(s) \in Nat
  <2>1. Len(s) \in Nat /\ Len(s) # 0
    OBVIOUS
  <2> QED
    BY <2>1
<1>2. \A i \in 1..n : s[i] \in S
  BY <1>1
<1>3. /\ SubSeq(s, 1, n) \in Seq(S)
      /\ Len(SubSeq(s, 1, n)) = IF 1 <= n THEN n - 1 + 1 ELSE 0
      /\ \A i \in 1..(n - 1 + 1) : SubSeq(s, 1, n)[i] = s[1 + i - 1]
  BY <1>2, SubSeqProperties
<1>4. Len(SubSeq(s, 1, n)) = n
  BY <1>3
<1>5. ASSUME NEW i \in 1..n PROVE SubSeq(s, 1, n)[i] = s[i]
  <2>1. 1 + i - 1 = i /\ n - 1 + 1 = n
    OBVIOUS
  <2> QED
    BY <1>3, <2>1
<1> QED
  BY <1>1, <1>3, <1>4, <1>5

\* Removing a node keeps the graph consistent.
LEMMA RmNodeConsistent ==
    ASSUME InputOK, TypeOK, GraphConsistent, NEW x \in nodes, RmNode(x), in' = in
    PROVE  /\ GraphConsistent'
           /\ nodes' \subseteq Pooled(in)
           /\ edges' \in [Pooled(in) -> SUBSET Pooled(in)]
           /\ removed' \in [Pooled(in) -> SUBSET Pooled(in)]
           /\ degrees' \in [Pooled(in) -> Nat]
<1> DEFINE gone(y) == IF y = x THEN edges[x] ELSE edges[y] \cap {x}
<1>1. /\ nodes' = nodes \ {x}
      /\ edges' = [y \in Pooled(in) |-> edges[y] \ gone(y)]
      /\ removed' = [y \in Pooled(in) |-> removed[y] \cup gone(y)]
      /\ degrees' = [y \in Pooled(in) |-> degrees[y] - Cardinality(gone(y))]
  BY DEF RmNode, TypeOK
<1>2. \A y \in Pooled(in) : edges[y] \in SUBSET Pooled(in) /\ gone(y) \subseteq edges[y]
  BY DEF TypeOK
<1> HIDE DEF gone
<1>3. ASSUME NEW y \in Pooled(in)
      PROVE  /\ degrees'[y] = Cardinality(edges'[y])
             /\ degrees'[y] \in Nat
  <2>1. IsFiniteSet(edges[y])
    BY <1>2, FS_Subset DEF InputOK
  <2>2. IsFiniteSet(gone(y)) /\ IsFiniteSet(edges[y] \ gone(y))
    BY <1>2, <2>1, FS_Subset
  <2>3. edges[y] = gone(y) \cup (edges[y] \ gone(y))
    BY <1>2
  <2>4. gone(y) \cap (edges[y] \ gone(y)) = {}
    OBVIOUS
  <2>5. Cardinality(edges[y]) = Cardinality(gone(y)) + Cardinality(edges[y] \ gone(y))
    <3>1. Cardinality(gone(y) \cup (edges[y] \ gone(y)))
            = Cardinality(gone(y)) + Cardinality(edges[y] \ gone(y)) - Cardinality({})
      BY <2>2, <2>4, FS_Union
    <3>2. Cardinality({}) = 0
      BY FS_EmptySet
    <3>3. /\ Cardinality(gone(y)) \in Nat
          /\ Cardinality(edges[y] \ gone(y)) \in Nat
      BY <2>2, FS_CardinalityType
    <3>4. Cardinality(gone(y) \cup (edges[y] \ gone(y)))
            = Cardinality(gone(y)) + Cardinality(edges[y] \ gone(y))
      BY <3>1, <3>2, <3>3
    <3> QED
      BY <2>3, <3>4
  <2>6. degrees[y] = Cardinality(edges[y])
    BY DEF GraphConsistent
  <2> QED
    BY <1>1, <2>2, <2>5, <2>6, FS_CardinalityType
<1>4. ASSUME NEW y \in Pooled(in)
      PROVE  /\ edges'[y] = IF y \in nodes' THEN Interferes(in)[y] \cap nodes' ELSE {}
             /\ removed'[y] = Interferes(in)[y] \ edges'[y]
  <2>1. /\ edges[y] = IF y \in nodes THEN Interferes(in)[y] \cap nodes ELSE {}
        /\ removed[y] = Interferes(in)[y] \ edges[y]
    BY DEF GraphConsistent
  <2>2. edges'[y] = edges[y] \ gone(y) /\ removed'[y] = removed[y] \cup gone(y)
    BY <1>1
  <2> QED
    BY <1>1, <1>2, <2>1, <2>2 DEF gone
<1> QED
  BY <1>1, <1>2, <1>3, <1>4 DEF GraphConsistent, TypeOK

-------------------------------------------------------------------------------

\* Registers are given out only when the graph is empty, and renamed only when
\* all have been given out; slots start above the arrays.
Bookkeeping ==
    /\ ~ Simplified => \A x \in Pooled(in) : vreg[x].pos # "reg"
    /\ argidx > 0 => Selected
    /\ in.arraysize <= spillsize

IndInv ==
    /\ InputOK
    /\ TypeOK
    /\ GraphConsistent
    /\ EachInOnePlace
    /\ Bookkeeping
    /\ AheadBounded
    /\ PairwiseApart
    /\ SlotsApart

\* What is coloured before a node is a finite set of scalars.
LEMMA AheadFinite ==
    ASSUME IndInv, NEW i \in 1..Len(stk)
    PROVE  IsFiniteSet(Ahead(i)) /\ Ahead(i) \subseteq Pooled(in)
<1>1. stk[i] \in Pooled(in)
  BY DEF IndInv, TypeOK
<1>2. Ahead(i) \subseteq Pooled(in)
  BY <1>1, InterferesType DEF Ahead
<1> QED
  BY <1>2, FS_Subset DEF IndInv, InputOK

\* The neighbours of a statement's scalar can only become fewer.
LEMMA FewerAhead ==
    ASSUME IndInv, NEW i \in 1..Len(stk), NEW S \in SUBSET Ahead(i)
    PROVE  Cardinality(S) < K
<1>1. Cardinality(S) <= Cardinality(Ahead(i)) /\ IsFiniteSet(S)
  BY AheadFinite, FS_Subset
<1>2. Cardinality(S) \in Nat /\ Cardinality(Ahead(i)) \in Nat
  BY <1>1, AheadFinite, FS_CardinalityType
<1>3. Cardinality(Ahead(i)) < K
  BY DEF IndInv, AheadBounded
<1> QED
  BY <1>1, <1>2, <1>3, KType

\* Removing a node of low degree keeps the invariant,
LEMMA SimplifyPreserves ==
    ASSUME IndInv, NEW x \in nodes, Simplify(x)
    PROVE  IndInv'
<1> USE DEF IndInv
<1>1. /\ stk' = Append(stk, x) /\ RmNode(x) /\ degrees[x] < K
      /\ UNCHANGED <<in, vreg, spillsize, rec, argidx>>
  BY DEF Simplify, Colorable
<1>2. x \in Pooled(in) /\ nodes' = nodes \ {x}
  BY <1>1 DEF TypeOK, RmNode
<1>3. /\ GraphConsistent' /\ nodes' \subseteq Pooled(in)
      /\ edges' \in [Pooled(in) -> SUBSET Pooled(in)]
      /\ removed' \in [Pooled(in) -> SUBSET Pooled(in)]
      /\ degrees' \in [Pooled(in) -> Nat]
  BY <1>1, RmNodeConsistent
<1>4. /\ Len(stk') = Len(stk) + 1 /\ Len(stk) \in Nat
      /\ \A i \in 1..Len(stk) : stk'[i] = stk[i]
      /\ stk'[Len(stk) + 1] = x
      /\ stk' \in Seq(Pooled(in))
  BY <1>1, <1>2 DEF TypeOK
<1>5. InputOK'
  BY <1>1 DEF InputOK
<1>6. TypeOK'
  BY <1>1, <1>3, <1>4 DEF TypeOK
<1>7. EachInOnePlace'
  <2>1. \A i \in 1..Len(stk) : stk[i] # x
    BY DEF EachInOnePlace
  <2>2. \A i, j \in 1..Len(stk') : stk'[i] = stk'[j] => i = j
    BY <1>4, <2>1 DEF EachInOnePlace
  <2>3. \A y \in Pooled(in) :
          (y \in nodes' \/ \E i \in 1..Len(stk') : stk'[i] = y)
            <=> (y \in nodes \/ \E i \in 1..Len(stk) : stk[i] = y)
    BY <1>2, <1>4
  <2>4. \A i \in 1..Len(stk') : stk'[i] \notin nodes'
    BY <1>2, <1>4 DEF EachInOnePlace
  <2> QED
    BY <1>1, <2>2, <2>3, <2>4 DEF EachInOnePlace
<1>8. Bookkeeping'
  BY <1>1 DEF Bookkeeping, Simplified, Selected, InputOK
<1>9. AheadBounded'
  <2>1. SUFFICES ASSUME NEW i \in 1..Len(stk')
                 PROVE  Cardinality(Ahead(i)') < K
    BY DEF AheadBounded
  <2>2. CASE i \in 1..Len(stk)
    <3>1. Ahead(i)' \subseteq Ahead(i)
      BY <1>1, <1>2, <1>4, <2>2 DEF Ahead
    <3> QED
      BY <2>2, <3>1, FewerAhead
  <2>3. CASE i = Len(stk) + 1
    <3>1. Ahead(i)' \subseteq Interferes(in)[x] \cap nodes
      BY <1>1, <1>2, <1>4, <2>3, InterferesType
      DEF Ahead, Bookkeeping, Simplified
    <3>2. Interferes(in)[x] \cap nodes = edges[x]
      BY <1>2 DEF GraphConsistent
    <3>3. IsFiniteSet(edges[x])
      BY <1>2, FS_Subset DEF InputOK, TypeOK
    <3>4. /\ Cardinality(Ahead(i)') <= Cardinality(edges[x])
          /\ IsFiniteSet(Ahead(i)')
      BY <3>1, <3>2, <3>3, FS_Subset
    <3>5. Cardinality(Ahead(i)') \in Nat /\ Cardinality(edges[x]) \in Nat
      BY <3>3, <3>4, FS_CardinalityType
    <3>6. degrees[x] = Cardinality(edges[x])
      BY <1>2 DEF GraphConsistent
    <3> QED
      BY <1>1, <3>4, <3>5, <3>6, KType
  <2> QED
    BY <1>4, <2>2, <2>3
<1>10. PairwiseApart'
  BY <1>1 DEF PairwiseApart
<1>11. SlotsApart'
  BY <1>1 DEF SlotsApart
<1> QED
  BY <1>3, <1>5, <1>6, <1>7, <1>8, <1>9, <1>10, <1>11

\* and so does removing one to be spilled,
LEMMA SpillPreserves ==
    ASSUME IndInv, NEW x \in nodes, Spill(x)
    PROVE  IndInv'
<1> USE DEF IndInv
<1>1. /\ ~ IsArg(x) /\ RmNode(x)
      /\ vreg' = [vreg EXCEPT ![x] = OnStack(spillsize)]
      /\ spillsize' = spillsize + 1
      /\ UNCHANGED <<in, stk, rec, argidx>>
  BY DEF Spill, CanSacrifice
<1>2. x \in Pooled(in) /\ nodes' = nodes \ {x} /\ spillsize \in Nat
  BY <1>1 DEF TypeOK, RmNode
<1>3. /\ GraphConsistent' /\ nodes' \subseteq Pooled(in)
      /\ edges' \in [Pooled(in) -> SUBSET Pooled(in)]
      /\ removed' \in [Pooled(in) -> SUBSET Pooled(in)]
      /\ degrees' \in [Pooled(in) -> Nat]
  BY <1>1, RmNodeConsistent
<1>4. /\ DOMAIN vreg' = Pooled(in)
      /\ vreg'[x] = OnStack(spillsize)
      /\ \A y \in Pooled(in) : y # x => vreg'[y] = vreg[y]
  BY <1>1, <1>2 DEF TypeOK
\* the new slot is above all that are in use
<1>5. \A y \in Pooled(in) : vreg[y] # OnStack(spillsize)
  BY <1>2, PlaceKinds DEF TypeOK
<1>6. InputOK'
  BY <1>1 DEF InputOK
<1>7. TypeOK'
  <2>1. \A y \in Pooled(in) :
          vreg'[y] \in {Unmapped} \cup {InReg(r) : r \in AvailRegs}
                       \cup {OnStack(n) : n \in 0..(spillsize' - 1)}
    BY <1>1, <1>2, <1>4 DEF TypeOK
  <2> QED
    BY <1>1, <1>2, <1>3, <1>4, <2>1 DEF TypeOK
<1>8. EachInOnePlace'
  BY <1>1, <1>2, <1>4, PlaceKinds DEF EachInOnePlace
<1>9. Bookkeeping'
  BY <1>1, <1>2, <1>4, PlaceKinds DEF Bookkeeping, Simplified, Selected, InputOK
<1>10. AheadBounded'
  <2>1. SUFFICES ASSUME NEW i \in 1..Len(stk)
                 PROVE  Cardinality(Ahead(i)') < K
    BY <1>1 DEF AheadBounded
  <2>2. Ahead(i)' \subseteq Ahead(i)
    <3>1. Interferes(in)[stk[i]] \subseteq Pooled(in)
      BY InterferesType DEF TypeOK
    <3> QED
      BY <1>1, <1>2, <1>4, <3>1, PlaceKinds DEF Ahead
  <2> QED
    BY <2>2, FewerAhead
<1>11. PairwiseApart'
  <2>1. SUFFICES ASSUME NEW u \in Pooled(in), NEW v \in Interferes(in)[u],
                        vreg'[u] # Unmapped
                 PROVE  vreg'[u] # vreg'[v]
    BY <1>1 DEF PairwiseApart
  <2>2. v \in Pooled(in) /\ u # v
    BY Symmetric
  <2> QED
    BY <1>4, <1>5, <2>1, <2>2 DEF PairwiseApart
<1>12. SlotsApart'
  <2>1. SUFFICES ASSUME NEW y \in Pooled(in), vreg'[y].pos = "stack"
                 PROVE  /\ ~ IsArg(y)
                        /\ vreg'[y].slot \in in.arraysize..(spillsize' - 1)
                        /\ \A z \in Pooled(in) : vreg'[z] = vreg'[y] => z = y
    BY <1>1 DEF SlotsApart
  <2>2. in.arraysize <= spillsize
    BY DEF Bookkeeping
  <2> QED
    BY <1>1, <1>2, <1>4, <1>5, <2>1, <2>2, PlaceKinds DEF SlotsApart, InputOK
<1> QED
  BY <1>3, <1>6, <1>7, <1>8, <1>9, <1>10, <1>11, <1>12

\* With the graph taken apart, the neighbours of a scalar are all in removed.
LEMMA AllRemoved ==
    ASSUME IndInv, Simplified, NEW x \in Pooled(in)
    PROVE  removed[x] = Interferes(in)[x]
BY DEF IndInv, GraphConsistent, Simplified

\* The pigeonhole: fewer neighbours with a register than registers.
LEMMA RegisterForTop ==
    ASSUME IndInv PROVE RegisterLeft
<1> SUFFICES ASSUME Simplified, stk # <<>>, UsefulRegs(stk[Len(stk)]) = {}
             PROVE  FALSE
  BY DEF RegisterLeft
<1> DEFINE n == Len(stk)
           x == stk[n]
           holder == [r \in AvailRegs |-> CHOOSE y \in removed[x] : vreg[y] = InReg(r)]
<1>1. n \in 1..Len(stk) /\ x \in Pooled(in)
  BY DEF IndInv, TypeOK
<1>2. \A r \in AvailRegs : \E y \in removed[x] : vreg[y] = InReg(r)
  BY DEF UsefulRegs
<1>3. \A r \in AvailRegs : holder[r] \in removed[x] /\ vreg[holder[r]] = InReg(r)
  BY <1>2
<1>4. removed[x] = Interferes(in)[x]
  BY <1>1, AllRemoved
<1> HIDE DEF holder
<1>5. \A r \in AvailRegs : holder[r] \in Ahead(n)
  BY <1>1, <1>3, <1>4, PlaceKinds DEF Ahead
<1>6. holder \in [AvailRegs -> Ahead(n)]
  BY <1>5 DEF holder
<1>7. IsFiniteSet(Ahead(n)) /\ Cardinality(Ahead(n)) < K
  BY <1>1, AheadFinite DEF IndInv, AheadBounded
<1>8. \E r1, r2 \in AvailRegs : r1 # r2 /\ holder[r1] = holder[r2]
  BY <1>6, <1>7, FS_PigeonHole, RegsAssumption DEF K
<1> QED
  BY <1>3, <1>8, PlaceKinds

\* giving a node on the stack its register,
LEMMA SelectPreserves ==
    ASSUME IndInv, Select
    PROVE  IndInv'
<1> USE DEF IndInv
<1> DEFINE n == Len(stk)
           x == stk[n]
<1>1. PICK r \in UsefulRegs(x) : vreg' = [vreg EXCEPT ![x] = InReg(r)]
  BY DEF Select
<1>2. /\ Simplified /\ stk # <<>>
      /\ stk' = SubSeq(stk, 1, n - 1)
      /\ UNCHANGED <<in, nodes, edges, removed, degrees, spillsize, argidx>>
  BY DEF Select
<1>3. /\ n \in 1..Len(stk) /\ n \in Nat /\ x \in Pooled(in)
      /\ stk \in Seq(Pooled(in))
  BY <1>2 DEF TypeOK
<1>4. /\ stk' \in Seq(Pooled(in)) /\ Len(stk') = n - 1
      /\ \A i \in 1..(n - 1) : stk'[i] = stk[i]
  BY <1>2, <1>3, PopProperties
<1>5. /\ DOMAIN vreg' = Pooled(in) /\ vreg'[x] = InReg(r) /\ r \in AvailRegs
      /\ \A y \in Pooled(in) : y # x => vreg'[y] = vreg[y]
  BY <1>1, <1>3 DEF TypeOK, UsefulRegs
<1>6. removed[x] = Interferes(in)[x]
  BY <1>2, <1>3, AllRemoved
<1>7. \A y \in Interferes(in)[x] : vreg[y] # InReg(r)
  BY <1>1, <1>6 DEF UsefulRegs
<1>8. InputOK' /\ GraphConsistent'
  BY <1>2 DEF InputOK, GraphConsistent
<1>9. TypeOK'
  BY <1>2, <1>4, <1>5 DEF TypeOK
<1>10. EachInOnePlace'
  <2>1. \A i \in 1..(n - 1) : stk[i] # x
    BY <1>3 DEF EachInOnePlace
  <2>2. \A y \in Pooled(in) : y # x =>
          ((\E i \in 1..(n - 1) : stk[i] = y) <=> (\E i \in 1..n : stk[i] = y))
    BY <1>3
  <2>3. \A i, j \in 1..Len(stk') : stk'[i] = stk'[j] => i = j
    BY <1>3, <1>4 DEF EachInOnePlace
  <2>4. \A y \in Pooled(in) :
          IF y \in nodes' \/ \E i \in 1..Len(stk') : stk'[i] = y
          THEN vreg'[y] = Unmapped
          ELSE vreg'[y] # Unmapped
    <3>1. ASSUME NEW y \in Pooled(in), y # x
          PROVE  IF y \in nodes' \/ \E i \in 1..Len(stk') : stk'[i] = y
                 THEN vreg'[y] = Unmapped
                 ELSE vreg'[y] # Unmapped
      BY <1>2, <1>4, <1>5, <2>2, <3>1 DEF EachInOnePlace
    <3>2. x \notin nodes' /\ ~ \E i \in 1..Len(stk') : stk'[i] = x
      BY <1>2, <1>4, <2>1 DEF Simplified
    <3> QED
      BY <1>5, <3>1, <3>2, PlaceKinds
  <2>5. \A i \in 1..Len(stk') : stk'[i] \notin nodes'
    BY <1>2 DEF Simplified
  <2> QED
    BY <1>2, <2>3, <2>4, <2>5 DEF EachInOnePlace
<1>11. Bookkeeping'
  BY <1>2 DEF Bookkeeping, Simplified, Selected
<1>12. AheadBounded'
  <2>1. SUFFICES ASSUME NEW i \in 1..(n - 1)
                 PROVE  Cardinality(Ahead(i)') < K
    BY <1>4 DEF AheadBounded
  <2>2. i \in 1..Len(stk) /\ stk'[i] = stk[i]
    BY <1>3, <1>4
  <2>3. Interferes(in)[stk[i]] \subseteq Pooled(in)
    BY <2>2, InterferesType DEF TypeOK
  <2>4. Ahead(i)' \subseteq Ahead(i)
    <3>1. SUFFICES ASSUME NEW y \in Ahead(i)' PROVE y \in Ahead(i)
      OBVIOUS
    <3>2. y \in Interferes(in)[stk[i]] /\ y \in Pooled(in)
      BY <1>2, <2>2, <2>3 DEF Ahead
    <3>3. CASE y = x
      BY <1>3, <2>1, <3>2, <3>3 DEF Ahead
    <3>4. CASE y # x
      BY <1>2, <1>3, <1>4, <1>5, <3>2, <3>4 DEF Ahead
    <3> QED
      BY <3>3, <3>4
  <2> QED
    BY <2>2, <2>4, FewerAhead
<1>13. PairwiseApart'
  <2>1. SUFFICES ASSUME NEW u \in Pooled(in), NEW v \in Interferes(in)[u],
                        vreg'[u] # Unmapped
                 PROVE  vreg'[u] # vreg'[v]
    BY <1>2 DEF PairwiseApart
  <2>2. v \in Pooled(in) /\ u # v /\ u \in Interferes(in)[v]
    BY Symmetric
  <2>3. CASE u = x
    BY <1>5, <1>7, <2>2, <2>3
  <2>4. CASE v = x
    BY <1>5, <1>7, <2>2, <2>4
  <2>5. CASE u # x /\ v # x
    BY <1>5, <2>1, <2>2, <2>5 DEF PairwiseApart
  <2> QED
    BY <2>3, <2>4, <2>5
<1>14. SlotsApart'
  BY <1>2, <1>3, <1>5, PlaceKinds DEF SlotsApart
<1> QED
  BY <1>8, <1>9, <1>10, <1>11, <1>12, <1>13, <1>14

\* Exchanging two registers everywhere keeps different places different.
LEMMA SwapApart ==
    ASSUME TypeOK, NEW r1, NEW r2
    PROVE  /\ DOMAIN Swapped(r1, r2) = Pooled(in)
           /\ \A x \in Pooled(in) :
                /\ Swapped(r1, r2)[x] = Unmapped <=> vreg[x] = Unmapped
                /\ \A n : Swapped(r1, r2)[x] = OnStack(n) <=> vreg[x] = OnStack(n)
           /\ \A x, y \in Pooled(in) :
                Swapped(r1, r2)[x] = Swapped(r1, r2)[y] => vreg[x] = vreg[y]
BY PlaceKinds DEF TypeOK, Swapped

\* and putting an argument in place.
LEMMA FixArgPreserves ==
    ASSUME IndInv, FixArg
    PROVE  IndInv'
<1> USE DEF IndInv
<1> DEFINE uid == Arg(argidx)
<1>1. /\ Selected /\ argidx < in.func.params /\ argidx' = argidx + 1
      /\ UNCHANGED <<in, nodes, edges, removed, degrees, stk, spillsize, rec>>
  BY DEF FixArg
<1>2. argidx \in 0..(MaxArgs - 1) /\ ArgReg[argidx] \in AvailRegs
  BY <1>1, RegsAssumption DEF InputOK, TypeOK
<1>3. CASE vreg' = vreg
  BY <1>1, <1>3 DEF InputOK, TypeOK, GraphConsistent, EachInOnePlace,
     Bookkeeping, AheadBounded, Ahead, PairwiseApart, SlotsApart, Simplified, Selected
<1>4. CASE /\ uid \in Pooled(in) /\ vreg[uid] # Unmapped
           /\ vreg' = Swapped(vreg[uid].reg, ArgReg[argidx])
  <2> DEFINE r1 == vreg[uid].reg
             r2 == ArgReg[argidx]
  <2>1. IsArg(uid)
    BY <1>2 DEF Arg, IsArg, REGUID_ARG_OFFSET
  <2>2. r1 \in AvailRegs
    <3>1. vreg[uid].pos # "stack"
      BY <1>4, <2>1 DEF SlotsApart
    <3> QED
      BY <1>4, <3>1, PlaceKinds DEF TypeOK
  <2>3. /\ DOMAIN vreg' = Pooled(in)
        /\ \A x \in Pooled(in) :
             /\ vreg'[x] = Unmapped <=> vreg[x] = Unmapped
             /\ \A n : vreg'[x] = OnStack(n) <=> vreg[x] = OnStack(n)
        /\ \A x, y \in Pooled(in) : vreg'[x] = vreg'[y] => vreg[x] = vreg[y]
    BY <1>4, SwapApart
  <2>4. \A x \in Pooled(in) :
          vreg'[x] \in {vreg[x], InReg(r1), InReg(r2)}
    BY <1>4 DEF Swapped, TypeOK
  <2>5. InputOK' /\ GraphConsistent'
    BY <1>1 DEF InputOK, GraphConsistent
  <2>6. TypeOK'
    BY <1>1, <1>2, <2>2, <2>3, <2>4 DEF TypeOK, InputOK
  <2>7. EachInOnePlace'
    BY <1>1, <2>3 DEF EachInOnePlace
  <2>8. Bookkeeping'
    BY <1>1 DEF Bookkeeping, Simplified, Selected
  <2>9. AheadBounded'
    BY <1>1 DEF AheadBounded, Selected
  <2>10. PairwiseApart'
    BY <1>1, <2>3, Symmetric DEF PairwiseApart
  <2>11. SlotsApart'
    <3>1. SUFFICES ASSUME NEW y \in Pooled(in), vreg'[y].pos = "stack"
                   PROVE  /\ ~ IsArg(y)
                          /\ vreg'[y].slot \in in.arraysize..(spillsize - 1)
                          /\ \A z \in Pooled(in) : vreg'[z] = vreg'[y] => z = y
      BY <1>1 DEF SlotsApart
    <3>2. vreg'[y] = vreg[y]
      BY <2>4, <3>1, PlaceKinds
    <3> QED
      BY <2>3, <3>1, <3>2 DEF SlotsApart
  <2> QED
    BY <2>5, <2>6, <2>7, <2>8, <2>9, <2>10, <2>11
<1> QED
  BY <1>3, <1>4 DEF FixArg, IsMapped, TypeOK

\* The graph of a function has the invariant.
LEMMA InitEstablishes == Init => IndInv
<1> SUFFICES ASSUME Init PROVE IndInv
  OBVIOUS
<1>1. InputOK
  BY InputsAssumption DEF Init, InputOK
<1>2. Interferes(in) \in [Pooled(in) -> SUBSET Pooled(in)]
  BY InterferesType
<1>3. \A x \in Pooled(in) : Cardinality(Interferes(in)[x]) \in Nat
  BY <1>1, <1>2, FS_Subset, FS_CardinalityType DEF InputOK
<1>4. TypeOK
  BY <1>1, <1>2, <1>3, KType DEF Init, TypeOK, InputOK
<1>5. GraphConsistent
  BY <1>2 DEF Init, GraphConsistent
<1>6. EachInOnePlace /\ AheadBounded
  BY DEF Init, EachInOnePlace, AheadBounded
<1>7. Bookkeeping
  BY <1>1, PlaceKinds DEF Init, Bookkeeping, InputOK
<1>8. PairwiseApart /\ SlotsApart
  BY PlaceKinds DEF Init, PairwiseApart, SlotsApart
<1> QED
  BY <1>1, <1>4, <1>5, <1>6, <1>7, <1>8 DEF IndInv

\* Every step keeps it.
LEMMA NextPreserves == IndInv /\ [Next]_vars => IndInv'
<1> SUFFICES ASSUME IndInv, [Next]_vars PROVE IndInv'
  OBVIOUS
<1>1. ASSUME NEW x \in nodes, Simplify(x) PROVE IndInv'
  BY <1>1, SimplifyPreserves
<1>2. ASSUME NEW x \in nodes, Spill(x) PROVE IndInv'
  BY <1>2, SpillPreserves
<1>3. CASE Select
  BY <1>3, SelectPreserves
<1>4. CASE FixArg
  BY <1>4, FixArgPreserves
<1>5. CASE UNCHANGED vars
  <2>1. /\ in' = in /\ nodes' = nodes /\ edges' = edges /\ removed' = removed
        /\ degrees' = degrees /\ stk' = stk /\ vreg' = vreg
        /\ spillsize' = spillsize /\ argidx' = argidx
    BY <1>5 DEF vars
  <2>2. InputOK' /\ TypeOK' /\ GraphConsistent' /\ EachInOnePlace'
    BY <2>1 DEF IndInv, InputOK, TypeOK, GraphConsistent, EachInOnePlace
  <2>3. Bookkeeping'
    BY <2>1 DEF IndInv, Bookkeeping, Simplified, Selected
  <2>4. AheadBounded'
    BY <2>1 DEF IndInv, AheadBounded, Ahead
  <2>5. PairwiseApart' /\ SlotsApart'
    BY <2>1 DEF IndInv, PairwiseApart, SlotsApart
  <2> QED
    BY <2>2, <2>3, <2>4, <2>5 DEF IndInv
<1> QED
  BY <1>1, <1>2, <1>3, <1>4, <1>5 DEF Next, Terminated

\* The inductive invariant: types, the graph taken apart without loss, each
\* scalar in one place, fewer than K neighbours ahead of each stacked scalar.
THEOREM Invariance == Spec => []IndInv
BY InitEstablishes, NextPreserves, PTL DEF Spec

\* The state of the allocator is always about the function's pooled scalars.
THEOREM TypeCorrect == Spec => []TypeOK
<1>1. IndInv => TypeOK
  BY DEF IndInv
<1> QED
  BY <1>1, Invariance, PTL

\* The assertion of choose_reg cannot fail.
THEOREM RegisterAlwaysLeft == Spec => []RegisterLeft
<1>1. IndInv => RegisterLeft
  BY RegisterForTop
<1> QED
  BY <1>1, Invariance, PTL

\* The assertion of get_sacrificed_node cannot fail: arguments alone never
\* make up a graph in which every degree is high.
THEOREM SacrificeAlwaysExists == Spec => []SacrificeExists
<1>1. IndInv => SacrificeExists
  <2> SUFFICES ASSUME IndInv, ~ Simplified, \A x \in nodes : ~ Colorable(x),
                      \A x \in nodes : IsArg(x)
               PROVE  FALSE
    BY DEF SacrificeExists, CanSacrifice
  <2> USE DEF IndInv
  <2> DEFINE N == in.func.params
             index == [x \in nodes |-> x - REGUID_ARG_OFFSET]
  <2>1. nodes \subseteq Pooled(in) /\ IsFiniteSet(nodes) /\ N \in 0..MaxArgs /\ N \in Nat
    BY FS_Subset, KType DEF TypeOK, InputOK
  <2>2. \A x \in nodes : \E i \in 0..(N - 1) : x = REGUID_ARG_OFFSET + i
    BY <2>1 DEF InputOK, Arg
  <2>3. \A x \in nodes : index[x] \in 0..(N - 1) /\ x = REGUID_ARG_OFFSET + index[x]
    BY <2>1, <2>2 DEF REGUID_ARG_OFFSET
  <2>4. index \in [nodes -> 0..(N - 1)]
    BY <2>3
  <2>5. IsFiniteSet(0..(N - 1)) /\ Cardinality(0..(N - 1)) = N
    BY <2>1, FS_Interval
  <2> HIDE DEF index
  <2>6. Cardinality(nodes) \in Nat
    BY <2>1, FS_CardinalityType
  <2>7. Cardinality(nodes) <= N
    <3>1. SUFFICES ASSUME N < Cardinality(nodes) PROVE FALSE
      BY <2>1, <2>6
    <3>2. \E x, y \in nodes : x # y /\ index[x] = index[y]
      BY <2>1, <2>4, <2>5, <3>1, FS_PigeonHole
    <3> QED
      BY <2>3, <3>2
  <2>8. PICK x \in nodes : TRUE
    BY DEF Simplified
  <2>9. edges[x] \subseteq nodes \ {x}
    BY <2>1, <2>8, Symmetric DEF GraphConsistent
  <2>10. Cardinality(nodes \ {x}) = Cardinality(nodes) - 1 /\ IsFiniteSet(nodes \ {x})
    BY <2>1, FS_RemoveElement
  <2>11. Cardinality(edges[x]) <= Cardinality(nodes \ {x}) /\ IsFiniteSet(edges[x])
    BY <2>9, <2>10, FS_Subset
  <2>12. Cardinality(edges[x]) \in Nat
    BY <2>11, FS_CardinalityType
  <2>13. degrees[x] = Cardinality(edges[x])
    BY <2>1 DEF GraphConsistent
  <2>14. ~ (degrees[x] < K)
    BY <2>8 DEF Colorable
  <2> QED
    BY <2>1, <2>6, <2>7, <2>10, <2>11, <2>12, <2>13, <2>14, KType
<1> QED
  BY <1>1, Invariance, PTL

\* Scalars alive together never share a place, neither when registers are
\* chosen nor while they are renamed.
THEOREM ConflictFree == Spec => []NoConflict
<1>1. IndInv => NoConflict
  <2> SUFFICES ASSUME IndInv, NEW s \in Reached(in.func),
                      NEW x \in in.alive[s], NEW y \in in.alive[s],
                      x # y, vreg[x] # Unmapped
               PROVE  vreg[x] # vreg[y]
    BY DEF NoConflict
  <2>1. x \in Pooled(in) /\ y \in Pooled(in)
    BY DEF Pooled
  <2>2. y \in Interferes(in)[x]
    BY <2>1 DEF Interferes
  <2> QED
    BY <2>1, <2>2 DEF IndInv, PairwiseApart
<1> QED
  BY <1>1, Invariance, PTL

\* Edges, removed edges and degrees agree with the interference of what is left,
\* whatever was removed and in which order.
THEOREM GraphAlwaysConsistent == Spec => []GraphConsistent
<1>1. IndInv => GraphConsistent
  BY DEF IndInv
<1> QED
  BY <1>1, Invariance, PTL

\* Slots of spilled scalars are never shared nor below the arrays' end, and
\* no argument is spilled.
THEOREM SlotsAlwaysApart == Spec => []SlotsApart
<1>1. IndInv => SlotsApart
  BY DEF IndInv
<1> QED
  BY <1>1, Invariance, PTL

\* When the arguments in use are alive together, the renaming puts every one
\* of them where it is passed.
THEOREM ArgsPlacedIfMeet == Spec => []ArgsInPlaceIfMeet
<1>1. Init => ArgsInPlaceIfMeet
  BY DEF Init, ArgsInPlaceIfMeet
<1>2. IndInv /\ ArgsInPlaceIfMeet /\ [Next]_vars => ArgsInPlaceIfMeet'
  <2> SUFFICES ASSUME IndInv, ArgsInPlaceIfMeet, [Next]_vars, ArgsMeet,
                      NEW i \in 0..(argidx' - 1), IsMapped(Arg(i))'
               PROVE  vreg'[Arg(i)] = InReg(ArgReg[i])
    BY DEF ArgsInPlaceIfMeet, ArgsMeet, Next, Simplify, Spill, Select, FixArg,
       Terminated, vars
  <2> USE DEF IndInv
  <2>1. argidx \in Nat /\ in.func.params \in Nat
    BY KType DEF TypeOK, InputOK
  <2>2. CASE FixArg
    <3> DEFINE uid == Arg(argidx)
               r1 == vreg[uid].reg
               r2 == ArgReg[argidx]
    <3>1. /\ argidx < in.func.params /\ argidx' = argidx + 1 /\ in' = in
          /\ vreg' = IF IsMapped(uid) /\ r1 # r2 THEN Swapped(r1, r2) ELSE vreg
      BY <2>2 DEF FixArg
    <3>2. i \in 0..argidx
      BY <2>1, <3>1
    <3>3. Arg(i) \in Pooled(in) /\ DOMAIN vreg = Pooled(in) /\ vreg[Arg(i)] # Unmapped
      <4>1. DOMAIN vreg' = Pooled(in) /\ DOMAIN vreg = Pooled(in)
        BY <3>1, SwapApart DEF TypeOK
      <4>2. Arg(i) \in Pooled(in) /\ vreg'[Arg(i)] # Unmapped
        BY <4>1 DEF IsMapped
      <4> QED
        BY <3>1, <4>1, <4>2, SwapApart
    <3>4. \A j \in 0..(MaxArgs - 1) : IsArg(Arg(j)) /\ ArgReg[j] \in AvailRegs
      BY RegsAssumption DEF Arg, IsArg, REGUID_ARG_OFFSET
    <3>5. argidx \in 0..(MaxArgs - 1) /\ i \in 0..(MaxArgs - 1)
      BY <2>1, <3>1, <3>2, KType DEF InputOK
    <3>6. \A x \in Pooled(in) : IsArg(x) /\ vreg[x] # Unmapped => vreg[x] = InReg(vreg[x].reg)
      BY PlaceKinds DEF TypeOK, SlotsApart
    <3>7. CASE i = argidx
      <4>1. IsMapped(uid) /\ vreg[uid] = InReg(r1)
        BY <3>3, <3>4, <3>5, <3>6, <3>7 DEF IsMapped
      <4> QED
        BY <3>1, <3>3, <3>7, <4>1 DEF Swapped
    <3>8. CASE i # argidx
      <4>1. i \in 0..(argidx - 1)
        BY <2>1, <3>2, <3>8
      <4>2. vreg[Arg(i)] = InReg(ArgReg[i])
        BY <3>3, <4>1 DEF ArgsInPlaceIfMeet, IsMapped
      <4>3. ArgReg[i] # r2
        BY <3>5, <3>8, RegsAssumption
      <4>4. ASSUME IsMapped(uid) PROVE ArgReg[i] # r1
        <5>1. uid \in Pooled(in) /\ vreg[uid] = InReg(r1)
          BY <3>3, <3>4, <3>5, <3>6, <4>4 DEF IsMapped
        <5>2. uid \in Interferes(in)[Arg(i)]
          BY <2>1, <3>1, <3>3, <3>8, <4>1, <5>1 DEF ArgsMeet
        <5>3. vreg[Arg(i)] # vreg[uid]
          BY <3>3, <5>2 DEF PairwiseApart
        <5> QED
          BY <4>2, <5>1, <5>3
      <4> QED
        BY <3>1, <3>3, <4>2, <4>3, <4>4, PlaceKinds DEF Swapped
    <3> QED
      BY <3>7, <3>8
  <2>3. CASE ~ FixArg
    <3>1. argidx' = argidx
      BY <2>3 DEF Next, Simplify, Spill, Select, Terminated, vars
    <3>2. Selected
      BY <2>1, <3>1 DEF Bookkeeping
    <3>3. vreg' = vreg
      BY <2>3, <3>2 DEF Next, Simplify, Spill, Select, Terminated, vars,
         Selected, Simplified
    <3> QED
      BY <3>1, <3>3 DEF ArgsInPlaceIfMeet, IsMapped
  <2> QED
    BY <2>2, <2>3
<1> QED
  BY <1>1, <1>2, Invariance, PTL DEF Spec

\* The search of collect_correlation starts with the first statement and
\* gives up nothing it has found.
LEMMA EntryReached ==
    ASSUME NEW input \in Inputs
    PROVE  1 \in Reached(input.func)
<1> DEFINE f == input.func
           n == Len(f.stmts)
           T == SUBSET Lines(f)
           step(X) == X \cup UNION {CfgNext(f, s) : s \in X}
           F == [X \in T |-> step(X)]
           Eq(g) == g = [k \in 0..n |-> IF k = 0 THEN {1} ELSE step(g[k - 1])]
<1>1. n \in Nat \ {0} /\ {1} \in T /\ \A s \in Lines(f) : CfgNext(f, s) \subseteq Lines(f)
  <2>1. WellFormed(f)
    BY InputsAssumption
  <2>2. /\ n \in Nat \ {0} /\ Lines(f) = 1..n
        /\ \A s \in Lines(f) : CfgNext(f, s) \subseteq Lines(f)
    BY <2>1 DEF WellFormed
  <2> HIDE DEF n, f
  <2>3. 1 \in Lines(f)
    BY <2>2
  <2> QED
    BY <2>2, <2>3 DEF T
<1>2. F \in [T -> T] /\ \A X \in T : F[X] = step(X)
  BY <1>1
<1>3. Reached(f) = (CHOOSE g : Eq(g))[n]
  BY DEF Reached
<1> HIDE DEF T, step, F, f, n
<1>4. \E g : Eq(g)
  <2>1. PICK g \in [0..n -> T] : IsIteration(g, {1}, F, n)
    BY <1>1, <1>2, IterationExists
  <2>2. \A k \in 0..n : k # 0 => g[k - 1] \in T
    BY <1>1
  <2>3. Eq(g)
    BY <2>1, <2>2, <1>2 DEF IsIteration
  <2> QED
    BY <2>3
<1> DEFINE h == CHOOSE g : Eq(g)
<1>5. Eq(h)
  BY <1>4
<1> HIDE DEF h
<1>6. \A k \in 0..n : h[k] = IF k = 0 THEN {1} ELSE step(h[k - 1])
  BY <1>5
<1> DEFINE S == {k \in 0..n : 1 \in h[k]}
<1>7. 0 \in S
  BY <1>1, <1>6
<1>8. \A k \in 0..(n - 1) : k \in S => k + 1 \in S
  <2> SUFFICES ASSUME NEW k \in 0..(n - 1), 1 \in h[k] PROVE 1 \in h[k + 1]
    BY <1>1
  <2>1. k + 1 \in 0..n /\ k + 1 # 0 /\ (k + 1) - 1 = k
    BY <1>1
  <2>2. h[k + 1] = step(h[k])
    BY <1>6, <2>1
  <2> QED
    BY <2>2 DEF step
<1> HIDE DEF S
<1>9. 0..n \subseteq S
  BY <1>1, <1>7, <1>8, InductionUpTo
<1> QED
  BY <1>1, <1>3, <1>9 DEF S, h, f

GivesPlaces == Done /\ ArgsMeet => Placed(in, vreg, spillsize)

\* What code generation is handed: in the end each scalar has a register or a
\* slot of its own among those alive with it, above the arrays, and each argument
\* in use on entry is in the register the caller passes it in.
THEOREM ResultIsPlaced == Spec => []GivesPlaces
<1>1. Init => in \in Inputs
  BY DEF Init
<1>2. in \in Inputs /\ [Next]_vars => (in \in Inputs)'
  BY DEF Next, Simplify, Spill, Select, FixArg, Terminated, vars
<1>3. IndInv /\ in \in Inputs /\ NoConflict /\ SlotsApart /\ ArgsInPlaceIfMeet
        => GivesPlaces
  <2> SUFFICES ASSUME IndInv, in \in Inputs, NoConflict, SlotsApart,
                      ArgsInPlaceIfMeet, Done, ArgsMeet
               PROVE  Placed(in, vreg, spillsize)
    BY DEF GivesPlaces
  <2>1. ASSUME NEW x \in Pooled(in) PROVE vreg[x] # Unmapped
    <3>1. nodes = {} /\ \A i \in 1..Len(stk) : FALSE
      BY DEF Done, Selected, Simplified
    <3> QED
      BY <3>1 DEF IndInv, EachInOnePlace
  <2>2. ASSUME NEW x \in Pooled(in)
        PROVE  \/ \E r \in AvailRegs : vreg[x] = InReg(r)
               \/ /\ ~ IsArg(x)
                  /\ \E n \in in.arraysize..(spillsize - 1) : vreg[x] = OnStack(n)
    <3>1. \/ \E r \in AvailRegs : vreg[x] = InReg(r)
          \/ \E n \in 0..(spillsize - 1) : vreg[x] = OnStack(n)
      BY <2>1 DEF IndInv, TypeOK
    <3>2. ASSUME NEW n \in 0..(spillsize - 1), vreg[x] = OnStack(n)
          PROVE  ~ IsArg(x) /\ n \in in.arraysize..(spillsize - 1)
      <4>1. vreg[x].pos = "stack" /\ vreg[x].slot = n
        BY <3>2 DEF OnStack
      <4> QED
        BY <4>1 DEF SlotsApart
    <3> QED
      BY <3>1, <3>2
  <2>3. in.arraysize <= spillsize
    BY DEF IndInv, Bookkeeping
  <2>4. Apart(in, vreg)
    <3> SUFFICES ASSUME NEW s \in Reached(in.func),
                        NEW x \in in.alive[s], NEW y \in in.alive[s], x # y
                 PROVE  vreg[x] # vreg[y]
      BY DEF Apart
    <3>1. x \in Pooled(in)
      BY DEF Pooled
    <3> QED
      BY <2>1, <3>1 DEF NoConflict
  <2>5. ASSUME NEW i \in 0..(in.func.params - 1), Arg(i) \in in.alive[1]
        PROVE  vreg[Arg(i)] = InReg(ArgReg[i])
    <3>1. 1 \in Reached(in.func)
      BY EntryReached
    <3>2. Arg(i) \in Pooled(in)
      BY <2>5, <3>1 DEF Pooled
    <3>3. IsMapped(Arg(i))
      BY <2>1, <3>2 DEF IsMapped, IndInv, TypeOK
    <3>4. argidx = in.func.params
      BY DEF Done
    <3> QED
      BY <3>3, <3>4 DEF ArgsInPlaceIfMeet
  <2> QED
    BY <2>2, <2>3, <2>4, <2>5 DEF Placed
<1> QED
  BY <1>1, <1>2, <1>3, Invariance, ConflictFree, SlotsAlwaysApart, ArgsPlacedIfMeet,
     PTL DEF Spec
===============================================================================

------------------------------ MODULE FrameMachine -----------------------------
(***************************************************************************)
(* What the back end takes the machine to be: every call in progress has a *)
(* frame of words of its own, that no other call touches unless it was     *)
(* given a pointer into it, and returns to where it was called from.       *)
(* There is no stack pointer, no layout and no immediate that is too large.*)
(* The instructions may leave anything in the scratch registers.           *)
(***************************************************************************)
EXTENDS Integers, Sequences

CONSTANTS
    Scratch,        \* registers that instructions may use on the way
    CalleeSaved,    \* registers that a library function leaves as they were
    CodeAddrs,      \* where a call can return to
    MaxFrame        \* the largest frame, in words

VARIABLES regs,     \* registers -> values
          frames,   \* calls in progress, [ret, words]
          at        \* where control arrived last

fvars == <<regs, frames, at>>

\* a pointer to a word of the k-th frame; it differs from every other value
PointerBase == 1000
Slot(k, i) == PointerBase + 100 * k + i

Top == frames[Len(frames)]
Depth == Len(frames)

KeepAllBut(S) ==
    /\ DOMAIN regs' = DOMAIN regs
    /\ \A r \in DOMAIN regs \ S : regs'[r] = regs[r]

Assign(r, v, S) == KeepAllBut({r} \cup S) /\ regs'[r] = v

Write(k, i, v) ==
    frames' = [frames EXCEPT ![k] = [@ EXCEPT !.words[i] = v]]

Init == frames = <<>> /\ at = 0

StoreStack(i, r) ==
    /\ i \in DOMAIN Top.words
    /\ Write(Depth, i, regs[r])
    /\ KeepAllBut(Scratch \ {r})
    /\ UNCHANGED at

LoadStack(r, i) ==
    /\ i \in DOMAIN Top.words
    /\ Assign(r, Top.words[i], {})
    /\ UNCHANGED <<frames, at>>

LoadAddrStack(r, i) ==
    /\ i \in DOMAIN Top.words
    /\ Assign(r, Slot(Depth, i), {})
    /\ UNCHANGED <<frames, at>>

ArraySet(p, off, r) ==
    /\ \E k \in DOMAIN frames : \E i \in DOMAIN frames[k].words :
         /\ regs[p] = Slot(k, i)
         /\ i + off \in DOMAIN frames[k].words
         /\ Write(k, i + off, regs[r])
    /\ UNCHANGED <<regs, at>>

ArrayGet(r, p, off) ==
    /\ \E k \in DOMAIN frames : \E i \in DOMAIN frames[k].words :
         /\ regs[p] = Slot(k, i)
         /\ i + off \in DOMAIN frames[k].words
         /\ Assign(r, frames[k].words[i + off], Scratch)
    /\ UNCHANGED <<frames, at>>

\* the words of a new frame have any values; the scratch registers
\* mean nothing from one function to the other
Call(ret, stacksize) ==
    /\ Len(frames') = Depth + 1
    /\ \A k \in DOMAIN frames : frames'[k] = frames[k]
    /\ frames'[Depth + 1].ret = ret
    /\ DOMAIN frames'[Depth + 1].words = 0..(stacksize - 1)
    /\ KeepAllBut(Scratch)
    /\ at' = 0

CallLibrary ==
    /\ KeepAllBut(DOMAIN regs \ CalleeSaved)
    /\ UNCHANGED <<frames, at>>

Return ==
    /\ at' = Top.ret
    /\ frames' = SubSeq(frames, 1, Depth - 1)
    /\ KeepAllBut(Scratch)

Next ==
    \/ \E ret \in CodeAddrs, n \in 0..MaxFrame : Call(ret, n)
    \/ /\ frames # <<>>
       /\ \/ CallLibrary
          \/ Return
          \/ \E r \in DOMAIN regs, i \in 0..MaxFrame :
               \/ StoreStack(i, r)
               \/ LoadStack(r, i)
               \/ LoadAddrStack(r, i)
               \/ \E p \in DOMAIN regs :
                    ArraySet(p, i, r) \/ ArrayGet(r, p, i)

Spec == Init /\ [][Next]_fvars
===============================================================================

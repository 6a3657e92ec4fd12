------------------------------- MODULE MCFrames -------------------------------
(***************************************************************************)
(* Bytes for words: the largest immediate is 17, so that a frame of 32     *)
(* bytes and the words of one from the fifth on are out of its reach.      *)
(***************************************************************************)
EXTENDS Frames

MCFuncs ==
    [main |-> [stacksize |-> 0, isleaf |-> FALSE],
     f    |-> [stacksize |-> 6, isleaf |-> FALSE],
     g    |-> [stacksize |-> 3, isleaf |-> FALSE],
     leaf |-> [stacksize |-> 1, isleaf |-> TRUE],
     bare |-> [stacksize |-> 0, isleaf |-> TRUE]]

MCCallSite == [runtime |-> 101, main |-> 102, f |-> 103, g |-> 105,
               leaf |-> 106, bare |-> 107]
===============================================================================

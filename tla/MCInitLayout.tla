----------------------------- MODULE MCInitLayout -----------------------------
(***************************************************************************)
(* Up to three dimensions; enough items to fill every array and more, with *)
(* all of them in lists or none.                                           *)
(***************************************************************************)
EXTENDS InitLayout

MCShapes == {<<>>, <<3>>, <<2, 2>>, <<1, 3>>, <<3, 2>>, <<2, 1, 2>>, <<2, 2, 2>>}
===============================================================================

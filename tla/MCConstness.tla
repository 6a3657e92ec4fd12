------------------------------ MODULE MCConstness -----------------------------
(***************************************************************************)
(* All programs of a few lines, with two names for scalars so that blocks  *)
(* hide definitions, and one array.                                        *)
(***************************************************************************)
EXTENDS Constness

MCLines == {Func, Close, Open, While(Scalar("i")), If(GetInt), Break,
            Def("i", <<>>), Def("i", <<Lit(1)>>), Def("j", <<Scalar("i")>>),
            Assign(Scalar("i"), Scalar("j")), Assign(Scalar("j"), Lit(0)),
            ArrayDef("a", 2, <<Lit(0), Scalar("i")>>),
            Assign(Element("a", Scalar("i")), GetInt),
            PutInt(Element("a", Scalar("j"))),
            Param("i", 0), Param("b", 2), GetArray("b"), PutInt(Element("b", Lit(1)))}

ASSUME MCLinesAssumption == ParamsPassed(MCLines)

\* an array is given to a function
MCPassingLines == {Func, Close, ArrayDef("a", 2, <<>>), GetArray("a"),
                   PutInt(Element("a", Lit(1)))}
===============================================================================

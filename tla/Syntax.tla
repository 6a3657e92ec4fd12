--------------------------------- MODULE Syntax -------------------------------
(***************************************************************************)
(* The body of a function as tree completion leaves it (front/ast.hpp):    *)
(* typed, its constants folded, so that a leaf is a scalar or a literal.   *)
(* The offset of an element is an expression, or a number where it is      *)
(* constant.                                                               *)
(***************************************************************************)
Leaf(v)           == [node |-> "leaf", var |-> v]
OpUnary(o, e)     == [node |-> "unary", fn |-> o, sub |-> <<e>>]
OpBinary(o, e1, e2) == [node |-> "binary", fn |-> o, sub |-> <<e1, e2>>]
Unary(e)          == OpUnary("-", e)
Binary(e1, e2)    == OpBinary("+", e1, e2)
LogicAnd(e1, e2)  == [node |-> "and", sub |-> <<e1, e2>>]
LogicOr(e1, e2)   == [node |-> "or", sub |-> <<e1, e2>>]
Element(arr, i)   == [node |-> "element", var |-> arr, sub |-> <<i>>]
ElementAt(arr, n) == [node |-> "elementat", var |-> arr, at |-> n, sub |-> <<>>]
Address(arr, i)   == [node |-> "address", var |-> arr, sub |-> <<i>>]
CallOf(fn, args)  == [node |-> "call", fn |-> fn, sub |-> args]

Assign(v, e)        == [node |-> "assign", var |-> v, sub |-> <<e>>]
AssignElement(arr, i, e) == [node |-> "assignelement", var |-> arr, sub |-> <<e, i>>]
AssignAt(arr, n, e) == [node |-> "assignat", var |-> arr, at |-> n, sub |-> <<e>>]
\* a local array with its initialiser, each element an expression or nothing
NoValue             == [node |-> "none"]
DeclArray(es)       == [node |-> "declarray", sub |-> es]
\* a value that is not used, and a call of a function without one
StmtExp(e)          == [node |-> "exp", sub |-> <<e>>]
CallStmt(fn, args)  == [node |-> "callstmt", fn |-> fn, sub |-> args]
If(c, s)            == [node |-> "ifonly", sub |-> <<c, s>>]
IfElse(c, s1, s2)   == [node |-> "ifelse", sub |-> <<c, s1, s2>>]
While(c, s)         == [node |-> "while", sub |-> <<c, s>>]
Break               == [node |-> "break"]
Continue            == [node |-> "continue"]
Ret(e)              == [node |-> "return", sub |-> <<e>>]
RetVoid             == [node |-> "returnvoid", sub |-> <<>>]
Block(ss)           == [node |-> "block", sub |-> ss]
===============================================================================

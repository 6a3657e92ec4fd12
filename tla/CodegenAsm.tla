------------------------------- MODULE CodegenAsm ------------------------------
(***************************************************************************)
(* The assembly each instruction of the back end is printed as             *)
(* (back/codegen_asm.cpp).  The instructions are those of back/inst.hpp;   *)
(* gotos and labels, which move control and nothing else, are left to the  *)
(* modules that run programs.                                              *)
(***************************************************************************)
EXTENDS RiscV

imm_overflows(imm) == imm <= -(ImmLimit - 1) \/ imm >= ImmLimit - 1

\* defect: no room for the return address when the words fill the frame
STK_NoRoom(stacksize) == ((stacksize + 3) \div 4) * 16

\* bytes of a frame with stacksize words
STK(stacksize) == ((stacksize \div 4) + 1) * 16

HasFrame(func) == ~ func.isleaf \/ func.stacksize > 0

\* defect: the limit of immediates forgotten
MoveSp_Addi(imm) == <<Addi("sp", "sp", imm)>>

\* sp moved by imm bytes
MoveSp(imm) ==
    IF imm_overflows(imm)
    THEN <<Li("t0", imm), Arith("add", "sp", "sp", "t0")>>
    ELSE <<Addi("sp", "sp", imm)>>

\* the entry of a function; ra is saved below sp, before there is a frame
FuncDefAsm(func) ==
    (IF func.isleaf THEN <<>> ELSE <<Sw("ra", -4, "sp")>>)
    \o (IF HasFrame(func) THEN MoveSp(-STK(func.stacksize)) ELSE <<>>)

\* up to the ret
RetAsm(func) ==
    (IF HasFrame(func) THEN MoveSp(STK(func.stacksize)) ELSE <<>>)
    \o (IF func.isleaf THEN <<>> ELSE <<Lw("ra", -4, "sp")>>)

-------------------------------------------------------------------------------
(* Operators.                                                              *)

OpBinaryAsm(dest, op1, op, op2) ==
    LET one(i)     == <<Arith(i, dest, op1, op2)>>
        two(i, by) == Append(one(i), by)
    IN  CASE op = "+"  -> one("add")
          [] op = "-"  -> one("sub")
          [] op = "*"  -> one("mul")
          [] op = "/"  -> one("div")
          [] op = "%"  -> one("rem")
          [] op = "<"  -> one("slt")
          [] op = ">"  -> one("sgt")
          [] op = "<=" -> two("sgt", Seqz(dest, dest))
          [] op = ">=" -> two("slt", Seqz(dest, dest))
          [] op = "==" -> two("xor", Seqz(dest, dest))
          [] op = "!=" -> two("xor", Snez(dest, dest))

OpUnaryAsm(dest, op, src) ==
    IF op = "-" THEN <<Neg(dest, src)>> ELSE <<Seqz(dest, src)>>

MovAsm(dest, src)     == IF dest = src THEN <<>> ELSE <<Mv(dest, src)>>
LoadImmAsm(dest, imm) == <<Li(dest, imm)>>

AddIAsm(dest, src, imm) ==
    IF dest = src /\ imm = 0 THEN <<>> ELSE <<Addi(dest, src, imm)>>

LeftShiftIAsm(dest, src, n) ==
    CASE n > 0 -> <<Slli(dest, src, n)>>
      [] n < 0 -> <<Srai(dest, src, -n)>>
      [] n = 0 -> MovAsm(dest, src)

LeftShiftAsm(dest, op1, op2) == <<Arith("sll", dest, op1, op2)>>

\* InstCondGoto
BranchOf(rel) ==
    CASE rel = "<"  -> "blt"
      [] rel = ">"  -> "bgt"
      [] rel = "<=" -> "ble"
      [] rel = ">=" -> "bge"
      [] rel = "==" -> "beq"
      [] rel = "!=" -> "bne"

-------------------------------------------------------------------------------
(* Memory.                                                                 *)

\* the address of a word of the frame, in the register dest
StackAddr(dest, idx) == <<Li(dest, 4 * idx), Arith("add", dest, dest, "sp")>>

StoreStackAsm(idx, src) ==
    LET tmp == IF src = "t0" THEN "t1" ELSE "t0"
    IN  IF imm_overflows(4 * idx)
        THEN Append(StackAddr(tmp, idx), Sw(src, 0, tmp))
        ELSE <<Sw(src, 4 * idx, "sp")>>

LoadStackAsm(dest, idx) ==
    IF imm_overflows(4 * idx)
    THEN Append(StackAddr(dest, idx), Lw(dest, 0, dest))
    ELSE <<Lw(dest, 4 * idx, "sp")>>

LoadAddrStackAsm(dest, idx) ==
    IF imm_overflows(4 * idx)
    THEN StackAddr(dest, idx)
    ELSE <<Addi(dest, "sp", 4 * idx)>>

\* the constructor refuses an offset that overflows
ArraySetOK(offset) == ~ imm_overflows(offset)
ArraySetAsm(ptr, offset, src) == <<Sw(src, offset, ptr)>>

\* the constructor refuses a pointer in t0
ArrayGetOK(ptr) == ptr # "t0"
ArrayGetAsm(dest, ptr, offset) ==
    IF imm_overflows(offset)
    THEN <<Li("t0", offset), Arith("add", "t0", "t0", ptr), Lw(dest, 0, "t0")>>
    ELSE <<Lw(dest, offset, ptr)>>
===============================================================================

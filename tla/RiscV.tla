---------------------------------- MODULE RiscV --------------------------------
(***************************************************************************)
(* The part of a RISC-V processor that the generated assembly uses: the    *)
(* registers, a memory of words at byte addresses that are multiples of    *)
(* four, and what one instruction does to them.  An instruction that       *)
(* cannot be encoded or that leaves the memory stops the machine.          *)
(***************************************************************************)
EXTENDS Word, Sequences, SequencesExt

CONSTANT ImmLimit       \* immediates are less than this; 2048 on the machine

ASSUME ImmLimitAssumption == ImmLimit \in Nat \ {0}

AsmI(op, rd, rs1, rs2, imm) ==
    [op |-> op, rd |-> rd, rs1 |-> rs1, rs2 |-> rs2, imm |-> imm]

Arith(op, rd, rs1, rs2) == AsmI(op, rd, rs1, rs2, 0)
Li(rd, imm)             == AsmI("li", rd, "x0", "x0", imm)
Addi(rd, rs1, imm)      == AsmI("addi", rd, rs1, "x0", imm)
Slli(rd, rs1, imm)      == AsmI("slli", rd, rs1, "x0", imm)
Srai(rd, rs1, imm)      == AsmI("srai", rd, rs1, "x0", imm)
Mv(rd, rs1)             == AsmI("mv", rd, rs1, "x0", 0)
Neg(rd, rs1)            == AsmI("neg", rd, rs1, "x0", 0)
Seqz(rd, rs1)           == AsmI("seqz", rd, rs1, "x0", 0)
Snez(rd, rs1)           == AsmI("snez", rd, rs1, "x0", 0)
Sw(rs2, imm, rs1)       == AsmI("sw", "x0", rs1, rs2, imm)
Lw(rd, imm, rs1)        == AsmI("lw", rd, rs1, "x0", imm)

\* li stands for as many instructions as its number needs, the others have
\* twelve bits, or five for the amount of a shift
Encodable(i) ==
    CASE i.op \in {"addi", "sw", "lw"} -> -ImmLimit <= i.imm /\ i.imm < ImmLimit
      [] i.op \in {"slli", "srai"}     -> 0 <= i.imm /\ i.imm < WordBits
      [] OTHER                         -> TRUE

-------------------------------------------------------------------------------
\* a machine is [regs, mem, ok]

SetReg(m, rd, v) == IF rd = "x0" THEN m ELSE [m EXCEPT !.regs[rd] = v]

Halt(m) == [m EXCEPT !.ok = FALSE]

ExecAsm(m, i) ==
    LET x    == m.regs[i.rs1]
        y    == m.regs[i.rs2]
        addr == Wrap(x + i.imm)
        set(v) == SetReg(m, i.rd, v)
    IN  CASE ~ m.ok \/ ~ Encodable(i) -> Halt(m)
          [] i.op \in {"lw", "sw"} /\ addr \notin DOMAIN m.mem -> Halt(m)
          [] i.op = "li"   -> set(Wrap(i.imm))
          [] i.op = "addi" -> set(Wrap(x + i.imm))
          [] i.op = "slli" -> set(Sll(x, i.imm))
          [] i.op = "srai" -> set(Sra(x, i.imm))
          [] i.op = "mv"   -> set(x)
          [] i.op = "neg"  -> set(Wrap(-x))
          [] i.op = "seqz" -> set(Truth(x = 0))
          [] i.op = "snez" -> set(Truth(x # 0))
          [] i.op = "lw"   -> set(m.mem[addr])
          [] i.op = "sw"   -> [m EXCEPT !.mem[addr] = y]
          [] OTHER         -> set(Alu(i.op, x, y))

ExecAsmAll(m, asm) == FoldLeft(ExecAsm, m, asm)
===============================================================================

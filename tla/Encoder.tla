------------------------------ MODULE Encoder ------------------------------
(***************************************************************************)
(* The assembler of ml/reward.py: strip_verifier_log turns the text of a   *)
(* verifier log into bare assembly, _encode_to_hex turns bare assembly     *)
(* into bytecode, one instruction per recognised line.  The metrics that   *)
(* the benchmark and the figures take from the bytecode are at the end.    *)
(*                                                                         *)
(* A line of text is a record: what it is (kind), the instruction it       *)
(* writes (insn) and the decorations a verifier log adds to it: the number *)
(* "N:" (num), the opcode byte "(XX)" (byte), a "; ..." suffix (comment),  *)
(* and "pc" before the offset of a goto (pc).  An instruction of the text  *)
(* is a record of the operands of its pattern; bytecode is a sequence of   *)
(* the fields of struct bpf_insn.                                          *)
(***************************************************************************)
EXTENDS Integers, Sequences, FiniteSets, SequencesExt, Positions

CONSTANTS OffMax,    \* the 16-bit field: offsets are in -OffMax-1 .. OffMax
          ImmMax,    \* the 32-bit field: immediates are in -ImmMax-1 .. ImmMax
          NoCode,    \* the answer None of _encode_to_hex
          AsmLines,  \* the lines a text is made of
          MaxLines   \* bound: lines of a text

\* The instructions a text may write, with the operands their patterns capture.
MemSizes == {8, 16, 32, 64}
Widths == {"r", "w"}
Rhs == [reg : BOOLEAN, n : Int]
JmpNames == {"==", "!=", ">", ">=", "<", "<=", "s>", "s>=", "s<", "s<=", "&"}
AluNames == {"+=", "-=", "*=", "/=", "|=", "&=", "<<=", ">>=", "%=", "^=", "s>>="}
Insns ==
    [form : {"exit"}] \cup [form : {"goto"}, off : Int] \cup [form : {"call"}, named : BOOLEAN, id : Nat]
      \cup [form : {"load"}, size : Nat, dst : Nat, src : Nat, off : Int]
      \cup [form : {"store"}, size : Nat, dst : Nat, rhs : Rhs, off : Int]
      \cup [form : {"if"}, op : JmpNames, width : Widths, dst : Nat, rhs : Rhs, off : Int]
      \cup [form : {"neg"}, width : Widths, dst : Nat] \cup [form : {"mov"}, width : Widths, dst : Nat, rhs : Rhs]
      \cup [form : {"alu"}, op : AluNames, width : Widths, dst : Nat, rhs : Rhs] \cup [form : {"lddw"}, dst : Nat]

ASSUME EncoderAssumption ==
    /\ OffMax \in Nat /\ ImmMax \in Nat
    /\ AsmLines \subseteq
         [kind : {"insn"}, insn : Insns, num : BOOLEAN, byte : BOOLEAN, comment : BOOLEAN, pc : BOOLEAN]

VARIABLE asmText   \* a text of bare assembly, as a model writes it line by line

Mem(ldx, stx, st) == [ldx |-> ldx, stx |-> stx, st |-> st]
MemOpcodes == [size \in MemSizes |->
    CASE size = 64 -> Mem(121, 123, 122)
      [] size = 32 -> Mem(97, 99, 98)
      [] size = 16 -> Mem(105, 107, 106)
      [] size = 8  -> Mem(113, 115, 114)]

Jmp(reg, imm) == [reg |-> reg, imm |-> imm]
JmpOpcodes == [op \in JmpNames |->
    CASE op = "==" -> Jmp(29, 21)    [] op = "!="  -> Jmp(93, 85)
      [] op = ">"  -> Jmp(45, 37)    [] op = ">="  -> Jmp(61, 53)
      [] op = "<"  -> Jmp(173, 165)  [] op = "<="  -> Jmp(189, 181)
      [] op = "s>" -> Jmp(109, 101)  [] op = "s>=" -> Jmp(125, 117)
      [] op = "s<" -> Jmp(205, 197)  [] op = "s<=" -> Jmp(221, 213)
      [] op = "&"  -> Jmp(77, 69)]

Alu(r64, i64, r32, i32) == [r |-> [reg |-> r64, imm |-> i64], w |-> [reg |-> r32, imm |-> i32]]
AluOpcodes == [op \in AluNames |->
    CASE op = "+="  -> Alu(15, 7, 12, 4)       [] op = "-="   -> Alu(31, 23, 28, 20)
      [] op = "*="  -> Alu(47, 39, 44, 36)     [] op = "/="   -> Alu(63, 55, 60, 52)
      [] op = "|="  -> Alu(79, 71, 76, 68)     [] op = "&="   -> Alu(95, 87, 92, 84)
      [] op = "<<=" -> Alu(111, 103, 108, 100) [] op = ">>="  -> Alu(127, 119, 124, 116)
      [] op = "%="  -> Alu(159, 151, 156, 148) [] op = "^="   -> Alu(175, 167, 172, 164)
      [] op = "s>>=" -> Alu(207, 199, 204, 196)]

Clamp(x, top) == IF x > top THEN top ELSE IF x < -top - 1 THEN -top - 1 ELSE x

PackInsn(code, dst, src, off, imm) ==
    [code |-> code, dst |-> dst % 16, src |-> src % 16,
     off |-> Clamp(off, OffMax), imm |-> Clamp(imm, ImmMax)]

Exit == PackInsn(149, 0, 0, 0, 0)

\* The operand after the operator: a register or a number.
WithRhs(opcodes, dst, rhs, off) ==
    IF rhs.reg THEN PackInsn(opcodes.reg, dst, rhs.n, off, 0)
               ELSE PackInsn(opcodes.imm, dst, 0, off, rhs.n)

MemOf(size) == IF size \in DOMAIN MemOpcodes THEN MemOpcodes[size] ELSE MemOpcodes[64]

\* One instruction; its fields are those its pattern captures.  A w register in
\* a comparison is read as its 64-bit one, and a negation has no source.
EncodeInsn(t) ==
    CASE t.form = "exit"  -> Exit
      [] t.form = "goto"  -> PackInsn(5, 0, 0, t.off, 0)
      [] t.form = "call"  -> PackInsn(133, 0, 0, 0, IF t.named THEN 1 ELSE t.id)
      [] t.form = "load"  -> PackInsn(MemOf(t.size).ldx, t.dst, t.src, t.off, 0)
      [] t.form = "store" -> WithRhs([reg |-> MemOf(t.size).stx, imm |-> MemOf(t.size).st], t.dst, t.rhs, t.off)
      [] t.form = "if"    -> WithRhs(JmpOpcodes[t.op], t.dst, t.rhs, t.off)
      [] t.form = "neg"   -> PackInsn(IF t.width = "r" THEN 135 ELSE 132, t.dst, 0, 0, 0)
      [] t.form = "mov"   -> WithRhs(IF t.width = "r" THEN Jmp(191, 183) ELSE Jmp(188, 180), t.dst, t.rhs, 0)
      [] t.form = "alu"   -> WithRhs(AluOpcodes[t.op][t.width], t.dst, t.rhs, 0)

\* The line is kept by the patterns of _encode_insn: the loads of 64-bit
\* addresses are left out on purpose, and of the decorations only a comment is
\* taken, by the two patterns that end in (.+)$.
Recognised(l) ==
    /\ l.kind = "insn"
    /\ l.insn.form # "lddw"
    /\ ~l.num /\ ~l.byte /\ ~l.pc
    /\ l.comment => l.insn.form \in {"call", "store"}

\* A comment makes the argument of a call something else than a number.
Read(l) == IF l.comment /\ l.insn.form = "call" THEN [l.insn EXCEPT !.named = TRUE] ELSE l.insn

EncodeToHex(assembly) ==
    LET kept  == ItemsAt(assembly, {i \in DOMAIN assembly : Recognised(assembly[i])})
        insns == [i \in DOMAIN kept |-> EncodeInsn(Read(kept[i]))]
    IN  IF kept = <<>> THEN NoCode
        ELSE IF insns[Len(insns)] = Exit THEN insns ELSE Append(insns, Exit)

\* State lines, transitions and markers go; the decorations of the others go.
Stays(l) == l.kind \in {"insn", "other"}
\* A plausible slip: the substitution for goto pc+N is left out.
FaultyBare(l) == [l EXCEPT !.num = FALSE, !.byte = FALSE, !.comment = FALSE]
Bare(l) == [l EXCEPT !.num = FALSE, !.byte = FALSE, !.comment = FALSE, !.pc = FALSE]
StripVerifierLog(text) ==
    LET kept == ItemsAt(text, {i \in DOMAIN text : Stays(text[i])}) IN [i \in DOMAIN kept |-> Bare(kept[i])]

-----------------------------------------------------------------------------
(* Metrics of the bytecode. *)

InsnCount(hex) == IF hex = NoCode THEN 0 ELSE Len(hex)

JmpClasses == {5, 6}

\* The diversity is the pair (distinct opcodes, instructions).
Analyze(text) ==
    LET hex == EncodeToHex(StripVerifierLog(text))
        codes == [i \in DOMAIN hex |-> hex[i].code]
    IN  IF hex = NoCode
        THEN [encoded |-> FALSE, insns |-> 0, distinct |-> 0, jumps |-> 0]
        ELSE [encoded  |-> TRUE,
              insns    |-> Len(hex),
              distinct |-> Cardinality({codes[i] : i \in DOMAIN codes}),
              jumps    |-> Cardinality({i \in DOMAIN codes : codes[i] % 8 \in JmpClasses})]

-----------------------------------------------------------------------------
(* The kernel's instruction set: class, source bit and operation make the  *)
(* opcode.  clang assembles what it says; comparisons of w registers are   *)
(* a class of their own.                                                   *)

AluOps == <<"+=", "-=", "*=", "/=", "|=", "&=", "<<=", ">>=", "neg", "%=", "^=", "mov", "s>>=">>
JmpOps == <<"goto", "==", ">", ">=", "&", "!=", "s>", "s>=", "call", "exit", "<", "<=", "s<", "s<=">>
Nibble(ops, op) == 16 * ((CHOOSE k \in DOMAIN ops : ops[k] = op) - 1)
SizeBits == [size \in MemSizes |-> IF size = 32 THEN 0 ELSE IF size = 16 THEN 8 ELSE IF size = 8 THEN 16 ELSE 24]

IsaInsn(t) ==
    LET insn(class, dst, src, off, imm) == [code |-> class, dst |-> dst, src |-> src, off |-> off, imm |-> imm]
        rhs(class, off) == IF t.rhs.reg THEN insn(class + 8, t.dst, t.rhs.n, off, 0) ELSE insn(class, t.dst, 0, off, t.rhs.n)
        alu == IF t.width = "r" THEN 7 ELSE 4
    IN  CASE t.form = "exit"  -> insn(5 + Nibble(JmpOps, "exit"), 0, 0, 0, 0)
          [] t.form = "goto"  -> insn(5, 0, 0, t.off, 0)
          [] t.form = "call"  -> insn(5 + Nibble(JmpOps, "call"), 0, 0, 0, t.id)
          [] t.form = "load"  -> insn(1 + 96 + SizeBits[t.size], t.dst, t.src, t.off, 0)
          [] t.form = "store" -> [rhs(0, t.off) EXCEPT !.code = (IF t.rhs.reg THEN 3 ELSE 2) + 96 + SizeBits[t.size]]
          [] t.form = "if"    -> rhs((IF t.width = "r" THEN 5 ELSE 6) + Nibble(JmpOps, t.op), t.off)
          [] t.form = "neg"   -> insn(alu + Nibble(AluOps, "neg"), t.dst, 0, 0, 0)
          [] t.form = "mov"   -> rhs(alu + Nibble(AluOps, "mov"), 0)
          [] t.form = "alu"   -> rhs(alu + Nibble(AluOps, t.op), 0)

\* The verifier prints each instruction with its number, its opcode and the
\* state behind it, and a line of state before it.
VerifierLog(text) ==
    LET state == [kind |-> "state"]
        shown(l) == [kind |-> "insn", insn |-> l.insn, num |-> TRUE, byte |-> TRUE, comment |-> TRUE,
                     pc |-> l.insn.form \in {"goto", "if"}]
    IN  [k \in 1 .. 2 * Len(text) |-> IF k % 2 = 0 THEN shown(text[k \div 2]) ELSE state]

AsmInit == asmText = <<>>
AsmNext == Len(asmText) < MaxLines /\ \E l \in AsmLines : asmText' = Append(asmText, l)

\* What the field widths and the encoder's patterns can express.
Expressible(t) ==
    /\ t.form # "lddw" /\ (t.form = "if" => t.width = "r") /\ (t.form = "call" => ~t.named)
    /\ t.form \in {"load", "store"} => t.size \in MemSizes
    /\ LET e == IsaInsn(t)
       IN  /\ e.off \in -OffMax - 1 .. OffMax /\ e.imm \in -ImmMax - 1 .. ImmMax
           /\ e.dst \in 0 .. 15 /\ e.src \in 0 .. 15

\* strip_verifier_log and _encode_to_hex undo a verifier log (ml/reward.py:365-392):
\* the bytecode of the log of a program is what the instruction set says of its
\* lines, in order, so offsets stay right, with an exit at the end.
LogEncodesPerIsa ==
    (\A i \in DOMAIN asmText : Expressible(asmText[i].insn)) =>
      LET hex  == EncodeToHex(StripVerifierLog(VerifierLog(asmText)))
          isa  == [i \in DOMAIN asmText |-> IsaInsn(asmText[i].insn)]
      IN  IF asmText = <<>> THEN hex = NoCode
          ELSE hex = IF asmText[Len(asmText)].insn.form = "exit" THEN isa ELSE Append(isa, IsaInsn([form |-> "exit"]))

=============================================================================

----------------------- MODULE MCSequentialPrograms --------------------------
(***************************************************************************)
(* Programs for the interpreter, on words of eight bits and four           *)
(* registers (r2 is sp, r3 is ra), and what it promises about them.        *)
(***************************************************************************)
EXTENDS SequentialPrograms

Reg(n) == [form |-> "reg", val |-> n]
Hex(v) == [form |-> "hex", val |-> v]
Dec(v) == [form |-> "dec", val |-> v]
Neg(v) == [form |-> "neg", val |-> v]

Three(op, mod, rd, rs1, src) == [op |-> op, mod |-> mod, rd |-> rd, rs1 |-> rs1, src |-> src]
Two(op, mod, rd, src) == [op |-> op, mod |-> mod, rd |-> rd, src |-> src]
Access(op, rd, src, rs1) == [op |-> op, rd |-> rd, rs1 |-> rs1, src |-> src]
Branch(op, to) == [op |-> op, to |-> to]
Plain(op) == [op |-> op]
Directive(i) == [op |-> ".encode", of |-> i]

Line(before, label, after) ==
  [kind |-> "line", before |-> before, label |-> label, after |-> after]
I(i) == Line(i, "", None)
L(label) == Line(None, label, None)
C(c) == [kind |-> "char", c |-> c]
Program(is) == <<Line(None, ".main", is[1])>> \o [k \in 1 .. Len(is) - 1 |-> I(is[k + 1])]
NoAnswer == 999
Ask(text, answer) == [text |-> text, answer |-> answer]

\* 3! by recursion: the argument and the return address live on the stack.
Factorial ==
  << Line(None, ".fact", Two("cmp", 0, 0, Dec(1))), I(Branch("bgt", ".rec")),
     I(Two("mov", 0, 0, Dec(1))), I(Plain("ret")), L(".rec"),
     I(Three("sub", 1, 2, 2, Hex(8))), I(Access("st", 0, Dec(0), 2)),
     I(Access("st", 3, Dec(4), 2)), I(Three("sub", 0, 0, 0, Dec(1))),
     I(Branch("call", ".fact")), I(Access("ld", 1, Dec(0), 2)),
     I(Access("ld", 3, Dec(4), 2)), I(Three("add", 0, 2, 2, Dec(7))),
     I(Three("sub", 0, 2, 2, Neg(1))), I(Three("mul", 0, 0, 0, Reg(1))), I(Plain("ret")),
     Line(None, ".main", Two("mov", 0, 0, Dec(3))), I(Branch("call", ".fact")),
     I(Branch("b", ".end")), I(Two("mov", 0, 0, Dec(0))), I(Plain(".print")), L(".end") >>

\* gcd(12, 9) in a loop, with a comment and a label behind an instruction.
Gcd ==
  << C("/"), C("*"), C("x"), C("/"), C("*"), C("x"), C("*"), C("/"), I(Plain("blank")),
     L(".main"), I(Two("mov", 1, 0, Dec(12))),
     Line(Two("mov", 1, 1, Dec(9)), ".loop", None), I(Two("cmp", 0, 1, Dec(0))),
     I(Branch("beq", ".out")), I(Three("mod", 0, 2, 0, Reg(1))),
     I(Two("mov", 0, 0, Reg(1))), I(Two("mov", 0, 1, Reg(2))), I(Branch("b", ".loop")),
     Line(None, ".out", Plain("nop")) >>

\* Programs that end in invalidInst or before they begin.
Faulty ==
  { Program(<<Branch("b", ".nowhere")>>), <<I(Plain("nop"))>>,
    Program(<<Three("add", 1, 0, 0, Reg(1))>>), Program(<<Two("mov", 0, 4, Dec(1))>>),
    Program(<<Two("mov", 0, 0, Dec(8))>>), Program(<<Access("ld", 0, Dec(1), 2)>>),
    Program(<<Access("st", 0, Dec(4), 2)>>), Program(<<Access("ld", 0, Neg(8), 0)>>),
    Program(<<Plain("bad")>>), Program(<<Two("mov", 0, 3, Neg(8)), Plain("ret")>>),
    Program(<<Two("mov", 0, 3, Neg(1)), Plain("ret")>>), Program(<<Plain("ret")>>),
    <<L(".main"), C("x"), C("/"), C("x")>>, <<C("/"), C("*"), L(".main")>>,
    <<Line(None, ".main", Plain("nop")), C("/")>> }

Operands == { <<0, Neg(8)>>, <<0, Neg(1)>>, <<0, Dec(0)>>, <<0, Dec(1)>>, <<0, Dec(3)>>,
            <<0, Hex(13)>>, <<1, Hex(15)>>, <<2, Hex(8)>>, <<2, Dec(7)>> }
Load(r, v) == Two("mov", v[1], r, v[2])

\* Every operation on every pair of values, in registers and immediate.
OnRegisters ==
  { Program(<<Load(0, x), Load(1, y), Three(op, 0, 1, 0, Reg(1))>>)
      : op \in ThreeAddress, x \in Operands, y \in Operands }
OnImmediates ==
  { Program(<<Load(0, x), Three(op, y[1], 1, 0, y[2])>>)
      : op \in ThreeAddress \ Shifts, x \in Operands, y \in Operands \union {<<1, Neg(3)>>} }
  \union
  { Program(<<Load(0, x), Three(op, 0, 1, 0, y)>>)
      : op \in Shifts, x \in Operands, y \in {Dec(0), Dec(3), Dec(7), Neg(1)} }
OneOperand ==
  { Program(<<Load(0, x), Load(1, y), Two(op, 0, 0, Reg(1)), Branch(jump, ".main")>>)
      : op \in TwoAddress, x \in Operands, y \in Operands, jump \in {"beq", "bgt"} }

\* .encode of instructions of every kind after instructions of every modifier.
Immediates == {Hex(0), Hex(9), Hex(15), Dec(5), Neg(0), Neg(3), Neg(8)}
Encoded ==
  {Three(op, mod, 1, 2, s) : op \in {"add", "mod"}, mod \in 0 .. 2, s \in Immediates} \union
  {Three(op, 0, 3, 2, s) : op \in ThreeAddress, s \in {Reg(1), Reg(3), Neg(1)}} \union
  {Two(op, mod, 1, s) : op \in TwoAddress, mod \in 0 .. 2, s \in Immediates} \union
  {Two(op, 0, 3, Reg(1)) : op \in TwoAddress} \union
  {Access(op, 1, s, 2) : op \in {"ld", "st"}, s \in {Dec(3), Hex(12), Neg(8)}} \union
  {Branch(op, to) : op \in Branches, to \in {".main", ".end"}} \union
  {Plain("nop"), Plain("ret"), Plain("blank")}
Encodings ==
  { Program(<<Load(0, v), Directive(i)>>) \o <<L(".end")>>
      : v \in {<<0, Dec(1)>>, <<1, Dec(1)>>, <<2, Dec(1)>>}, i \in Encoded }

MCSources ==
  { Ask(Factorial, 6), Ask(Gcd, 3) } \union
  { Ask(text, NoAnswer)
    : text \in Faulty \union OnRegisters \union OnImmediates \union OneOperand \union Encodings }

-----------------------------------------------------------------------------
\* Types, and the control state: flags that no comparison sets, E and GT
\* together, a modifier of another instruction, a word outside int.  And the
\* containers keep their shapes.
Safety ==
  /\ reg \in [0 .. NRegs - 1 -> Word] /\ Mem \in [0 .. MemWords - 1 -> Word]
  /\ flags \in [{"E", "GT"} -> BOOLEAN] /\ ~(flags.E /\ flags.GT)
  /\ m \in 0 .. 2
  /\ status \in {"running", "done", "exit", "undefined"}
  /\ status = "running" => pc \in 0 .. Len(instructions)
  /\ ShapesHold

\* The word that .encode prints for an instruction the interpreter would
\* execute.
Legal(i) ==
  CASE i.op \in ThreeAddress -> getReg3Add(i, i.mod) /\ ModifierFits(i)
    [] i.op \in TwoAddress -> getReg2Add(i, i.mod) /\ ModifierFits(i)
    [] i.op \in {"ld", "st"} -> getLdSt(i)
    [] i.op \in Branches -> Named(labels, i.to) # {}
    [] OTHER -> i.op \in {"nop", "ret"}
Image(i, at) ==
  CASE i.op \in {"blank", ".print", ".encode"} -> -2
    [] OTHER -> IF Legal(i) THEN Encode(i, at, IF i.op \in {"ld", "st", "ret"} \union Branches
                                               THEN 0 ELSE IF i.mod = 1 THEN 1 ELSE 0)
                            ELSE -1

\* The interpreter, which executes text, and a processor, which executes the
\* words .encode gives for that text, do the same to registers, flags and
\* memory.
Machine == INSTANCE RISCMachine
  WITH code <- [k \in 1 .. Len(instructions) |-> Image(instructions[k], k - 1)],
       reg <- [r \in DOMAIN reg |-> Unsigned(reg[r])],
       mem <- [w \in DOMAIN Mem |-> Unsigned(Mem[w])],
       E <- flags.E, GT <- flags.GT,
       halted <- status # "running"
ImplementsMachine == Machine!Init /\ [][Machine!Next]_(Machine!vars)

\* The fields of word w are those of instruction i: opcode, registers, and
\* either the second register or the modifier and the immediate's low bits.
Denotes(w, i) ==
  LET second == IF i.src.form = "reg"
                  THEN ~Machine!HasImm(w) /\ Machine!Rs2(w) = i.src.val
                  ELSE /\ Machine!HasImm(w)
                       /\ Machine!Imm(w) = (IF i.src.form = "neg" THEN -i.src.val ELSE i.src.val)
                                           % 2 ^ ImmBits
                       /\ Machine!Modifier(w) = i.mod
      offset == PcForLabel(labels, i.to) - pc + 1
  IN /\ Machine!Op(w) = Opcode(i.op)
     /\ i.op \in ThreeAddress => Machine!Rd(w) = i.rd /\ Machine!Rs1(w) = i.rs1 /\ second
     /\ i.op = "cmp" => Machine!Rs1(w) = i.rd /\ second
     /\ i.op \in {"mov", "not"} => Machine!Rd(w) = i.rd /\ second
     /\ i.op \in Branches => Machine!Offset(w) = offset

\* .encode (interpreter.c:1117) prints a word whose fields are those of the
\* instruction, whatever instruction was executed before, as long as that one
\* had no h and, after a u, the immediate is not written -0.
MinusZero(i) == i.op \in ThreeAddress \union TwoAddress /\ i.src = Neg(0)
PrintedWordIsRight ==
  printed # None /\ Legal(printed.of) /\ printed.under # 2 /\
    (printed.under = 1 => ~MinusZero(printed.of))
      => Denotes(printed.word, printed.of)

\* interpreter.c:62, "encodedInst will contain the encoding of an instruction",
\* after whatever instruction.
EncodedInstIsTheEncoding ==
  printed # None /\ Legal(printed.of) /\ ~MinusZero(printed.of) => Denotes(printed.word, printed.of)

\* The recursive factorial and the loop for the greatest common divisor leave
\* main's loop with their result in r0: calls, returns, the stack, branches and
\* flags work together.  And the loop that balances the red-black tree ends.
ProgramsAnswer ==
  /\ <>(running # "interpreter" \/ source.answer = NoAnswer
        \/ (status = "done" /\ reg[0] = source.answer))
  /\ []<>(a = RB!sent)
=============================================================================

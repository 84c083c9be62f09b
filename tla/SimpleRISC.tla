----------------------------- MODULE SimpleRISC -----------------------------
(***************************************************************************)
(* assignment/Comp Arch/interpreter.c: an interpreter of the SimpleRISC    *)
(* instruction set.  main reads a source file without its comments,        *)
(* collects labels and instructions and then executes one instruction per  *)
(* turn of its loop; invalidInst ends the program.  The directive .encode  *)
(* prints the machine word of an instruction instead of executing it.      *)
(*                                                                         *)
(* A source is a sequence of tokens: a line, whose text is taken apart     *)
(* already, or a single character that matters to comments.  Widths are    *)
(* constants: 16, 4 and 1024 in the source.                                *)
(***************************************************************************)
EXTENDS Integers, Sequences, SequencesExt
LOCAL Bit == INSTANCE Bitwise

CONSTANTS ImmBits,      \* bits of an immediate; a word has twice as many
          RegBits,      \* bits of a register's number
          MemWords,     \* words of data memory
          Sources       \* the programs, each [text |-> tokens, answer |-> final r0]

VARIABLES source,       \* the program
          instructions, \* what executeInstruction is called on, in order
          labels,       \* [name, inst_no], in order
          pc, reg, flags, Mem,
          m,            \* the modifier last set: 0 none, 1 unsigned, 2 high
          status,       \* "running", "done", "exit" (invalidInst), "undefined"
          printed       \* what .encode last printed: [of, under, word]

vars == <<source, instructions, labels, pc, reg, flags, Mem, m, status, printed>>
program == <<source, instructions, labels>>

WordBits == 2 * ImmBits
NRegs == 2 ^ RegBits
sp == NRegs - 2
ra == NRegs - 1

Word == -(2 ^ (WordBits - 1)) .. 2 ^ (WordBits - 1) - 1
Unsigned(x) == x % 2 ^ WordBits
Wrap(x) == ((x + 2 ^ (WordBits - 1)) % 2 ^ WordBits) - 2 ^ (WordBits - 1)

None == [op |-> "none"]

-----------------------------------------------------------------------------
(* Reading the source.  A '/' is held back until the next character, or    *)
(* the end of the file, tells whether a comment begins; the character      *)
(* after a '*' inside a comment is compared with '/' only.                 *)

Char(t, c) == t.kind = "char" /\ t.c = c
Slash == [kind |-> "char", c |-> "/"]

AfterStar(t) == IF Char(t, "/") THEN "closed" ELSE "comment"

ReadToken(r, t) ==
  LET keep(c) == [mode |-> "text", out |-> r.out \o c]
      go(mode) == [r EXCEPT !.mode = mode]
  IN CASE r.mode = "text"    -> IF Char(t, "/") THEN go("slash") ELSE keep(<<t>>)
       [] r.mode = "slash"   -> IF Char(t, "*") THEN go("comment") ELSE keep(<<Slash, t>>)
       [] r.mode = "comment" -> IF Char(t, "*") THEN go("star") ELSE r
       [] r.mode = "star"    -> go(AfterStar(t))
       [] r.mode = "closed"  -> keep(<<t>>)

ReadSource(text) ==
  LET r == FoldLeft(ReadToken, [mode |-> "text", out |-> <<>>], text)
  IN  IF r.mode = "slash" THEN [r EXCEPT !.out = Append(@, Slash)] ELSE r
Unterminated(text) == ReadSource(text).mode \in {"comment", "star"}

(* One line: an instruction, a label, or both in either order.  A label    *)
(* that ends its line names the next instruction; an instruction in front  *)
(* of a label that is followed by another one is dropped.  A line with     *)
(* nothing but a comment after '@' counts as an instruction.               *)
ReadLine(a, t) ==
  LET n == Len(a.instructions)
      name(k) == Append(a.labels, [name |-> t.label, inst_no |-> k])
      add(i) == Append(a.instructions, i)
  IN CASE t.kind = "char" -> [a EXCEPT !.instructions = add([op |-> "bad"])]
       [] t.kind = "line" /\ t.label = "" -> [a EXCEPT !.instructions = add(t.before)]
       [] t.kind = "line" /\ t.label # "" /\ t.after # None ->
            [instructions |-> add(t.after), labels |-> name(n)]
       [] t.kind = "line" /\ t.label # "" /\ t.after = None /\ t.before # None ->
            [instructions |-> add(t.before), labels |-> name(n + 1)]
       [] t.kind = "line" /\ t.label # "" /\ t.after = None /\ t.before = None ->
            [a EXCEPT !.labels = name(n)]

Assemble(tokens) ==
  FoldLeft(ReadLine, [instructions |-> <<>>, labels |-> <<>>], tokens)

\* getPcForLabel, setPcForMain: the first label of that name.
Named(ls, name) == {k \in 1 .. Len(ls) : ls[k].name = name}
PcForLabel(ls, name) ==
  ls[CHOOSE k \in Named(ls, name) : \A j \in Named(ls, name) : k <= j].inst_no

-----------------------------------------------------------------------------
(* Operands.  src is [form, val]: a register, or an immediate written in   *)
(* hexadecimal, in decimal, or in decimal with a minus sign.               *)

IsReg(n) == n \in 0 .. NRegs - 1

LegalImm(s, mod) ==
  CASE s.form = "hex" -> s.val < 2 ^ ImmBits
    [] s.form = "dec" -> s.val < IF mod = 1 THEN 2 ^ ImmBits ELSE 2 ^ (ImmBits - 1)
    [] s.form = "neg" -> s.val <= 2 ^ (ImmBits - 1)

\* A hexadecimal immediate with its top bit set is negative unless unsigned.
ImmValue(s, mod) ==
  LET v == CASE s.form = "hex" -> IF mod # 1 /\ s.val >= 2 ^ (ImmBits - 1)
                                    THEN s.val - 2 ^ ImmBits ELSE s.val
             [] s.form = "dec" -> s.val
             [] s.form = "neg" -> IF mod = 1 THEN 2 ^ ImmBits - s.val ELSE -s.val
  IN IF mod = 2 THEN v * 2 ^ ImmBits ELSE v

LegalSource(s, mod) == IF s.form = "reg" THEN IsReg(s.val) ELSE LegalImm(s, mod)
SourceValue(s, mod) == IF s.form = "reg" THEN reg[s.val] ELSE ImmValue(s, mod)

getReg3Add(i, mod) == IsReg(i.rd) /\ IsReg(i.rs1) /\ LegalSource(i.src, mod)
getReg2Add(i, mod) == IsReg(i.rd) /\ LegalSource(i.src, mod)
getLdSt(i) == IsReg(i.rd) /\ IsReg(i.rs1) /\ i.src.form # "reg" /\ LegalImm(i.src, 0)

\* A modifier is refused with a register as second source.
ModifierFits(i) == i.src.form = "reg" => i.mod = 0

-----------------------------------------------------------------------------
(* What the instructions compute: C's int arithmetic, wrapping, division   *)
(* toward zero, shifts by the low bits of their count as on x86.           *)

Magnitude(x) == IF x < 0 THEN -x ELSE x
SameSign(a, b) == (a < 0) <=> (b < 0)
Sum(a, b) == Wrap(a + b)
Difference(a, b) == Wrap(a - b)
Product(a, b) == Wrap(a * b)
Quotient(a, b) ==
  LET q == Magnitude(a) \div Magnitude(b) IN IF SameSign(a, b) THEN q ELSE -q
Remainder(a, b) == a - b * Quotient(a, b)
Complement(b) == -b - 1
Conj(a, b) == Wrap(Bit!&(Unsigned(a), Unsigned(b)))
Disj(a, b) == Wrap(Bit!|(Unsigned(a), Unsigned(b)))
Places(b) == b % WordBits
ShiftLeft(a, b) == Wrap(a * 2 ^ Places(b))
ShiftRight(a, b) == Wrap(Unsigned(a) \div 2 ^ Places(b))
\* Mutated form: the sign is not extended.
ShiftRightArith_m(a, b) == ShiftRight(a, b)
ShiftRightArith(a, b) == a \div 2 ^ Places(b)

Compute(op, a, b) ==
  CASE op = "add" -> Sum(a, b)
    [] op = "sub" -> Difference(a, b)
    [] op = "mul" -> Product(a, b)
    [] op = "div" -> Quotient(a, b)
    [] op = "mod" -> Remainder(a, b)
    [] op = "and" -> Conj(a, b)
    [] op = "or"  -> Disj(a, b)
    [] op = "lsl" -> ShiftLeft(a, b)
    [] op = "lsr" -> ShiftRight(a, b)
    [] op = "asr" -> ShiftRightArith(a, b)

Divisions == {"div", "mod"}
Shifts == {"lsl", "lsr", "asr"}
ThreeAddress == {"add", "sub", "mul", "and", "or"} \union Divisions \union Shifts
TwoAddress == {"mov", "not", "cmp"}
Branches == {"b", "beq", "bgt", "call"}

Refused(op, b) == \/ op \in Divisions /\ b = 0
                  \/ op \in Shifts /\ b < 0
\* The quotient that is no int: the processor traps.
Trapped(op, a, b) == op \in Divisions /\ b = -1 /\ a = -(2 ^ (WordBits - 1))

Address(i) == Wrap(reg[i.rs1] + ImmValue(i.src, 0))
InMemory(a) == a \in 0 .. 4 * MemWords - 1

\* Whether a branch looks its label up.
Taken(i) == CASE i.op = "beq" -> flags.E
              [] i.op = "bgt" -> flags.GT
              [] OTHER -> TRUE

-----------------------------------------------------------------------------
(* .encode.  Fields from the left: opcode, immediate bit, rd, rs1,         *)
(* modifier, immediate; rs2 ends where rs1 begins.  The operands are read  *)
(* with whatever modifier the last instruction left in m.                  *)

OpShift == 3 + 2 * RegBits + ImmBits
ImmediateBit == 2 ^ (OpShift - 1)
RdShift == ImmBits + 2 + RegBits
Rs1Shift == ImmBits + 2
Rs2Shift == ImmBits + 2 - RegBits

Mnemonics == <<"add", "sub", "mul", "div", "mod", "cmp", "and", "or", "not", "mov", "lsl",
               "lsr", "asr", "nop", "ld", "st", "beq", "bgt", "b", "call", "ret">>
Opcode(op) == (CHOOSE k \in 1 .. Len(Mnemonics) : Mnemonics[k] = op) - 1

\* The immediate as it is added: only a negative one is brought into range.
ImmField(s, mod) ==
  LET v == ImmValue(s, mod) IN IF v < 0 THEN v + 2 ^ ImmBits ELSE v
SourceField(s, mod) ==
  IF s.form = "reg" THEN s.val * 2 ^ Rs2Shift ELSE ImmediateBit + ImmField(s, mod)
ModifierField(i) == i.mod * 2 ^ ImmBits

EncodeThree(i, mod) ==
  i.rd * 2 ^ RdShift + i.rs1 * 2 ^ Rs1Shift + ModifierField(i) + SourceField(i.src, mod)
\* Mutated form: cmp's register goes where rd is.
EncodeCompare_m(i, mod) == i.rd * 2 ^ RdShift + ModifierField(i) + SourceField(i.src, mod)
EncodeCompare(i, mod) == i.rd * 2 ^ Rs1Shift + ModifierField(i) + SourceField(i.src, mod)
EncodeTwo(i, mod) == i.rd * 2 ^ RdShift + ModifierField(i) + SourceField(i.src, mod)
EncodeLdSt(i, mod) ==
  i.rd * 2 ^ RdShift + i.rs1 * 2 ^ Rs1Shift + ImmediateBit + ImmField(i.src, 0)
EncodeBranch(i, at) ==
  LET offset == PcForLabel(labels, i.to) - at
  IN IF offset < 0 THEN offset + 2 ^ OpShift ELSE offset

\* The word of instruction i at instruction number at, its operands read
\* under modifier mod.
Encode(i, at, mod) ==
  Opcode(i.op) * 2 ^ OpShift +
  (CASE i.op \in ThreeAddress -> EncodeThree(i, mod)
     [] i.op = "cmp" -> EncodeCompare(i, mod)
     [] i.op \in {"not", "mov"} -> EncodeTwo(i, mod)
     [] i.op \in {"ld", "st"} -> EncodeLdSt(i, mod)
     [] i.op \in Branches -> EncodeBranch(i, at)
     [] OTHER -> 0)

Encodable(i, mod) ==
  CASE i.op \in ThreeAddress -> getReg3Add(i, mod)
    [] i.op \in TwoAddress -> getReg2Add(i, mod)
    [] i.op \in {"ld", "st"} -> getLdSt(i)
    [] i.op \in Branches -> Named(labels, i.to) # {}
    [] OTHER -> i.op \in {"nop", "ret"}

-----------------------------------------------------------------------------
Init ==
  /\ source \in Sources
  /\ LET text == source.text
         read == Assemble(ReadSource(text).out)
         starts == ~Unterminated(text) /\ Named(read.labels, ".main") # {}
     IN /\ instructions = read.instructions
        /\ labels = read.labels
        /\ status = IF starts THEN "running" ELSE "exit"
        /\ pc = IF starts THEN PcForLabel(read.labels, ".main") ELSE 0
  /\ reg = [r \in 0 .. NRegs - 1 |-> IF r = sp THEN 4 * MemWords - 4 ELSE 0]
  /\ flags = [E |-> FALSE, GT |-> FALSE]
  /\ Mem = [w \in 0 .. MemWords - 1 |-> 0]
  /\ m = 0
  /\ printed = None

inst == instructions[pc + 1]
Executing(ops) ==
  status = "running" /\ pc \in 0 .. Len(instructions) - 1 /\ inst.op \in ops

\* add, and, asr, sub, mod, mul, div, or, lsl, lsr.
Calculate ==
  /\ Executing(ThreeAddress)
  /\ getReg3Add(inst, inst.mod) /\ ModifierFits(inst)
  /\ LET a == reg[inst.rs1]
         b == SourceValue(inst.src, inst.mod)
     IN /\ ~Refused(inst.op, b) /\ ~Trapped(inst.op, a, b)
        /\ reg' = [reg EXCEPT ![inst.rd] = Compute(inst.op, a, b)]
  /\ m' = inst.mod
  /\ pc' = pc + 1
  /\ UNCHANGED <<program, flags, Mem, status, printed>>

Trap ==
  /\ Executing(Divisions)
  /\ getReg3Add(inst, inst.mod) /\ ModifierFits(inst)
  /\ Trapped(inst.op, reg[inst.rs1], SourceValue(inst.src, inst.mod))
  /\ status' = "undefined"
  /\ UNCHANGED <<program, pc, reg, flags, Mem, m, printed>>

Mov ==
  /\ Executing({"mov"})
  /\ getReg2Add(inst, inst.mod) /\ ModifierFits(inst)
  /\ reg' = [reg EXCEPT ![inst.rd] = SourceValue(inst.src, inst.mod)]
  /\ m' = inst.mod
  /\ pc' = pc + 1
  /\ UNCHANGED <<program, flags, Mem, status, printed>>

Not ==
  /\ Executing({"not"})
  /\ getReg2Add(inst, inst.mod) /\ ModifierFits(inst)
  /\ reg' = [reg EXCEPT ![inst.rd] = Complement(SourceValue(inst.src, inst.mod))]
  /\ m' = inst.mod
  /\ pc' = pc + 1
  /\ UNCHANGED <<program, flags, Mem, status, printed>>

\* Mutated form: the flag of the other outcome is left as it was.
Flags_m(a, b) == [E |-> a = b, GT |-> flags.GT \/ a > b]
Flags(a, b) == [E |-> a = b, GT |-> a > b]

Cmp ==
  /\ Executing({"cmp"})
  /\ getReg2Add(inst, inst.mod) /\ ModifierFits(inst)
  /\ flags' = Flags(reg[inst.rd], SourceValue(inst.src, inst.mod))
  /\ m' = inst.mod
  /\ pc' = pc + 1
  /\ UNCHANGED <<program, reg, Mem, status, printed>>

St ==
  /\ Executing({"st"})
  /\ getLdSt(inst) /\ Address(inst) % 4 = 0 /\ InMemory(Address(inst))
  /\ Mem' = [Mem EXCEPT ![Address(inst) \div 4] = reg[inst.rd]]
  /\ pc' = pc + 1
  /\ UNCHANGED <<program, reg, flags, m, status, printed>>

Ld ==
  /\ Executing({"ld"})
  /\ getLdSt(inst) /\ Address(inst) % 4 = 0 /\ InMemory(Address(inst))
  /\ reg' = [reg EXCEPT ![inst.rd] = Mem[Address(inst) \div 4]]
  /\ pc' = pc + 1
  /\ UNCHANGED <<program, flags, Mem, m, status, printed>>

\* An aligned address outside Mem is used as it is: nothing is said of what
\* follows.
Stray ==
  /\ Executing({"ld", "st"})
  /\ getLdSt(inst) /\ Address(inst) % 4 = 0 /\ ~InMemory(Address(inst))
  /\ status' = "undefined"
  /\ UNCHANGED <<program, pc, reg, flags, Mem, m, printed>>

\* Mutated form: the address of the call itself.
ReturnAddress_m == 4 * pc
ReturnAddress == 4 * pc + 4

Jump ==
  /\ Executing(Branches)
  /\ Taken(inst) => Named(labels, inst.to) # {}
  /\ pc' = IF Taken(inst) THEN PcForLabel(labels, inst.to) ELSE pc + 1
  /\ reg' = IF inst.op = "call" THEN [reg EXCEPT ![ra] = Wrap(ReturnAddress)] ELSE reg
  /\ UNCHANGED <<program, flags, Mem, m, status, printed>>

\* A negative number is no index of instructions.
Ret ==
  /\ Executing({"ret"})
  /\ LET back == Quotient(reg[ra], 4) IN
       IF back >= 0 THEN pc' = back /\ UNCHANGED status
                    ELSE status' = "undefined" /\ UNCHANGED pc
  /\ UNCHANGED <<program, reg, flags, Mem, m, printed>>

\* nop, .print, an empty line.
NoEffect ==
  /\ Executing({"nop", ".print", "blank"})
  /\ pc' = pc + 1
  /\ UNCHANGED <<program, reg, flags, Mem, m, status, printed>>

PrintEncoding ==
  /\ Executing({".encode"})
  /\ Encodable(inst.of, m)
  /\ printed' = [of |-> inst.of, under |-> m, word |-> Encode(inst.of, pc, m)]
  /\ pc' = pc + 1
  /\ UNCHANGED <<program, reg, flags, Mem, m, status>>

Executable(i) ==
  CASE i.op \in ThreeAddress ->
         getReg3Add(i, i.mod) /\ ModifierFits(i) /\ ~Refused(i.op, SourceValue(i.src, i.mod))
    [] i.op \in TwoAddress -> getReg2Add(i, i.mod) /\ ModifierFits(i)
    [] i.op \in {"ld", "st"} -> getLdSt(i) /\ Address(i) % 4 = 0
    [] i.op \in Branches -> Taken(i) => Named(labels, i.to) # {}
    [] i.op = ".encode" -> Encodable(i.of, m)
    [] OTHER -> i.op # "bad"

InvalidInst ==
  /\ status = "running" /\ pc \in 0 .. Len(instructions) - 1
  /\ ~Executable(inst)
  /\ status' = "exit"
  /\ UNCHANGED <<program, pc, reg, flags, Mem, m, printed>>

MainReturns ==
  /\ status = "running" /\ pc >= Len(instructions)
  /\ status' = "done"
  /\ UNCHANGED <<program, pc, reg, flags, Mem, m, printed>>

Next ==
  \/ Calculate \/ Trap \/ Mov \/ Not \/ Cmp \/ St \/ Ld \/ Stray \/ Jump \/ Ret \/ NoEffect
  \/ PrintEncoding \/ InvalidInst \/ MainReturns

Spec == Init /\ [][Next]_vars /\ WF_vars(Next)
=============================================================================

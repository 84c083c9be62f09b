---------------------------- MODULE RISCMachine ----------------------------
(***************************************************************************)
(* What a SimpleRISC processor does with the words .encode prints: it      *)
(* decodes the word at the program counter and executes it on registers    *)
(* and memory of unsigned words.  Everything is defined on bits, not with  *)
(* C's arithmetic.                                                         *)
(***************************************************************************)
EXTENDS Integers, Sequences, FiniteSetsExt

CONSTANTS ImmBits, RegBits, MemWords

VARIABLES code,                 \* the words; NoWord: no instruction; Directive
                                \* of the assembler: passed over, or refused
          pc, reg, E, GT, mem,
          halted

vars == <<code, pc, reg, E, GT, mem, halted>>

NoWord == -1
Directive == -2
WordBits == 2 * ImmBits
Modulus == 2 ^ WordBits
NRegs == 2 ^ RegBits
Bits(w) == {k \in 0 .. WordBits - 1 : (w \div 2 ^ k) % 2 = 1}
OfBits(s) == SumSet({2 ^ k : k \in s})
Negative(w) == w >= Modulus \div 2
Signed(w) == IF Negative(w) THEN w - Modulus ELSE w

\* The fields of a word, from the right.
Field(w, from, width) == (w \div 2 ^ from) % 2 ^ width
Imm(w) == Field(w, 0, ImmBits)
Modifier(w) == Field(w, ImmBits, 2)
Rs2(w) == Field(w, ImmBits + 2 - RegBits, RegBits)
Rs1(w) == Field(w, ImmBits + 2, RegBits)
Rd(w) == Field(w, ImmBits + 2 + RegBits, RegBits)
HasImm(w) == Field(w, ImmBits + 2 + 2 * RegBits, 1) = 1
OpShift == ImmBits + 3 + 2 * RegBits
Op(w) == w \div 2 ^ OpShift
Offset(w) ==
  LET o == Field(w, 0, OpShift) IN IF o >= 2 ^ (OpShift - 1) THEN o - 2 ^ OpShift ELSE o

\* The immediate, extended as its modifier says: sign, zeros, or moved up.
SignBits(w) == IF Imm(w) >= 2 ^ (ImmBits - 1) THEN ImmBits .. WordBits - 1 ELSE {}
Extended(w) == CASE Modifier(w) = 0 -> Imm(w) + OfBits(SignBits(w))
                 [] Modifier(w) = 1 -> Imm(w)
                 [] Modifier(w) = 2 -> Imm(w) * 2 ^ ImmBits
Second(w) == IF HasImm(w) THEN Extended(w) ELSE reg[Rs2(w)]

Negated(w) == (Modulus - w) % Modulus
Size(w) == IF Negative(w) THEN Negated(w) ELSE w
Quotient(a, b) ==
  LET q == Size(a) \div Size(b) IN IF Negative(a) = Negative(b) THEN q ELSE Negated(q)
Moved(s, by) == OfBits({k + by : k \in s} \intersect (0 .. WordBits - 1))
Copies(a, by) == IF Negative(a) THEN WordBits - by .. WordBits - 1 ELSE {}

Alu(op, a, b) ==
  LET by == b % WordBits IN
  CASE op = 0 -> (a + b) % Modulus
    [] op = 1 -> (a + Negated(b)) % Modulus
    [] op = 2 -> (a * b) % Modulus
    [] op = 3 -> Quotient(a, b)
    [] op = 4 -> (a + Negated((b * Quotient(a, b)) % Modulus)) % Modulus
    [] op = 6 -> OfBits(Bits(a) \intersect Bits(b))
    [] op = 7 -> OfBits(Bits(a) \union Bits(b))
    [] op = 8 -> OfBits((0 .. WordBits - 1) \ Bits(b))
    [] op = 9 -> b
    [] op = 10 -> Moved(Bits(a), by)
    [] op = 11 -> Moved(Bits(a), -by)
    [] op = 12 -> OfBits({k - by : k \in {j \in Bits(a) : j >= by}} \union Copies(a, by))

Fetched == code[pc + 1]
Running == ~halted /\ pc \in 0 .. Len(code) - 1 /\ Fetched # NoWord

DoAlu(w) ==
  LET a == reg[Rs1(w)]
      b == Second(w)
  IN /\ Op(w) \in (0 .. 12) \ {5}
     /\ Op(w) \in {3, 4} => b # 0 /\ ~(a = Modulus \div 2 /\ b = Modulus - 1)
     /\ Op(w) \in 10 .. 12 => ~Negative(b)
     /\ reg' = [reg EXCEPT ![Rd(w)] = Alu(Op(w), a, b)]
     /\ pc' = pc + 1
     /\ UNCHANGED <<code, E, GT, mem, halted>>

DoCmp(w) ==
  /\ Op(w) = 5
  /\ E' = (reg[Rs1(w)] = Second(w))
  /\ GT' = (Signed(reg[Rs1(w)]) > Signed(Second(w)))
  /\ pc' = pc + 1
  /\ UNCHANGED <<code, reg, mem, halted>>

DoMemory(w) ==
  LET a == (reg[Rs1(w)] + Extended(w)) % Modulus IN
  /\ Op(w) \in {14, 15}
  /\ a % 4 = 0 /\ a \div 4 < MemWords
  /\ \/ Op(w) = 14 /\ reg' = [reg EXCEPT ![Rd(w)] = mem[a \div 4]] /\ UNCHANGED mem
     \/ Op(w) = 15 /\ mem' = [mem EXCEPT ![a \div 4] = reg[Rd(w)]] /\ UNCHANGED reg
  /\ pc' = pc + 1
  /\ UNCHANGED <<code, E, GT, halted>>

DoBranch(w) ==
  LET taken == \/ Op(w) = 16 /\ E
               \/ Op(w) = 17 /\ GT
               \/ Op(w) \in {18, 19}
  IN /\ Op(w) \in 16 .. 19
     /\ pc' = IF taken THEN pc + Offset(w) ELSE pc + 1
     /\ reg' = IF Op(w) = 19 THEN [reg EXCEPT ![NRegs - 1] = (4 * pc + 4) % Modulus] ELSE reg
     /\ UNCHANGED <<code, E, GT, mem, halted>>

\* The return address is a signed byte address; a part of a word is dropped.
Return == LET r == reg[NRegs - 1] IN
            IF Negative(r) THEN -(Size(r) \div 4) ELSE r \div 4
DoRet(w) ==
  /\ Op(w) = 20
  /\ Return >= 0
  /\ pc' = Return
  /\ UNCHANGED <<code, reg, E, GT, mem, halted>>

DoNop(w) == (w = Directive \/ Op(w) = 13) /\ pc' = pc + 1 /\ UNCHANGED <<code, reg, E, GT, mem, halted>>

Instruction ==
  /\ Running
  /\ \/ DoAlu(Fetched) \/ DoCmp(Fetched) \/ DoMemory(Fetched)
     \/ DoBranch(Fetched) \/ DoRet(Fetched) \/ DoNop(Fetched)

\* The processor stops after the last instruction, and where it cannot go on.
CannotGoOn(w) ==
  LET b == Second(w)
      a == (reg[Rs1(w)] + Extended(w)) % Modulus
  IN \/ Op(w) \in {3, 4} /\ (b = 0 \/ (reg[Rs1(w)] = Modulus \div 2 /\ b = Modulus - 1))
     \/ Op(w) \in 10 .. 12 /\ Negative(b)
     \/ Op(w) = 20 /\ Return < 0
     \/ Op(w) \in {14, 15} /\ (a % 4 # 0 \/ a \div 4 >= MemWords)

Halt ==
  /\ ~halted
  /\ \/ pc \notin 0 .. Len(code) - 1
     \/ pc \in 0 .. Len(code) - 1 /\ (Fetched < 0 \/ CannotGoOn(Fetched))
  /\ halted' = TRUE
  /\ UNCHANGED <<code, pc, reg, E, GT, mem>>

Init ==
  /\ code \in Seq(Int)
  /\ pc \in Nat
  /\ reg = [r \in 0 .. NRegs - 1 |-> IF r = NRegs - 2 THEN 4 * MemWords - 4 ELSE 0]
  /\ E = FALSE /\ GT = FALSE
  /\ mem = [w \in 0 .. MemWords - 1 |-> 0]
  /\ halted \in BOOLEAN

Next == Instruction \/ Halt
Spec == Init /\ [][Next]_vars
=============================================================================

-------------------------------- MODULE BTree --------------------------------
(***************************************************************************)
(* The B-tree of "assignment/Data Struct/btree/bt.c".  A node is its keys  *)
(* and its children, <<>> in a leaf; what the arrays hold past n is left   *)
(* out.  One action is one choice at the menu.                             *)
(***************************************************************************)
EXTENDS Integers, Sequences, SequencesExt

CONSTANTS N,                    \* children of a node at most
          Values, MaxSize       \* bounds: keys, and how many at a time

VARIABLES root, answer

btvars == <<root, answer>>

minChild == N \div 2
Node(key, ptr) == [key |-> key, ptr |-> ptr]
n(q) == Len(q.key)
IsLeaf(q) == q.ptr = <<>>
Part(s, from, to) == IF s = <<>> THEN <<>> ELSE SubSeq(s, from, to)

BTInit == root = Node(<<>>, <<>>) /\ answer = 0

-----------------------------------------------------------------------------
\* The first key that is not below val, or the place after the last.
Index(q, val) ==
  CHOOSE i \in 1 .. n(q) + 1 :
    /\ i = n(q) + 1 \/ val <= q.key[i]
    /\ \A j \in 1 .. i - 1 : val > q.key[j]
Holds(q, i, val) == i <= n(q) /\ q.key[i] = val

RECURSIVE find(_, _)
find(q, val) ==
  LET i == Index(q, val)
  IN  Holds(q, i, val) \/ (~ IsLeaf(q) /\ find(q.ptr[i], val))

\* The i-th child, which is full, gives its last keys to a new right sibling.
splitIChild(q, i) ==
  LET c == q.ptr[i]
      l == Node(SubSeq(c.key, 1, minChild - 1), Part(c.ptr, 1, minChild))
      t == Node(SubSeq(c.key, minChild + 1, N - 1), Part(c.ptr, minChild + 1, N))
  IN  Node(InsertAt(q.key, i, c.key[minChild]), InsertAt(ReplaceAt(q.ptr, i, l), i + 1, t))

Full(q) == n(q) = N - 1

\* val goes behind the last key that is not above it.
Place(x, val) ==
  CHOOSE i \in 1 .. n(x) + 1 :
    /\ i = 1 \/ val >= x.key[i - 1]
    /\ \A j \in i .. n(x) : val < x.key[j]

RECURSIVE ins_nFull(_, _)
ins_nFull(x, val) ==
  LET i == Place(x, val)
      y == IF Full(x.ptr[i]) THEN splitIChild(x, i) ELSE x
      k == IF Full(x.ptr[i]) /\ val > y.key[i] THEN i + 1 ELSE i
  IN  IF IsLeaf(x) THEN Node(InsertAt(x.key, i, val), <<>>)
                   ELSE [y EXCEPT !.ptr[k] = ins_nFull(@, val)]

Inserted(r, val) ==
  IF Full(r) THEN ins_nFull(splitIChild(Node(<<>>, <<r>>), 1), val) ELSE ins_nFull(r, val)

-----------------------------------------------------------------------------
RECURSIVE g_pred(_), g_succ(_)
g_pred(q) == IF IsLeaf(q) THEN q.key[n(q)] ELSE g_pred(q.ptr[n(q) + 1])
g_succ(q) == IF IsLeaf(q) THEN q.key[1] ELSE g_succ(q.ptr[1])

\* A child that can lose a key.  Mutated form: one that would fall short.
Spare_m(q) == n(q) >= minChild - 1
Spare(q) == n(q) >= minChild

\* Children i and i + 1 and the key between them become child i.
Merged(q, i) ==
  LET l == q.ptr[i]
      r == q.ptr[i + 1]
  IN  Node(RemoveAt(q.key, i),
           ReplaceAt(RemoveAt(q.ptr, i + 1), i,
                     Node(l.key \o <<q.key[i]>> \o r.key, l.ptr \o r.ptr)))

FromLeft(q, i) ==
  LET from == q.ptr[i - 1]
      to == q.ptr[i]
  IN  [q EXCEPT
        !.key[i - 1] = from.key[n(from)],
        !.ptr[i] = Node(<<q.key[i - 1]>> \o to.key, Part(from.ptr, n(from) + 1, n(from) + 1) \o to.ptr),
        !.ptr[i - 1] = Node(SubSeq(from.key, 1, n(from) - 1), Part(from.ptr, 1, n(from)))]

FromRight(q, i) ==
  LET from == q.ptr[i + 1]
      to == q.ptr[i]
  IN  [q EXCEPT
        !.key[i] = from.key[1],
        !.ptr[i] = Node(Append(to.key, q.key[i]), to.ptr \o Part(from.ptr, 1, 1)),
        !.ptr[i + 1] = Node(Tail(from.key), Part(from.ptr, 2, n(from) + 1))]

ensureKeys(q, i) ==
  CASE i # 1 /\ Spare(q.ptr[i - 1]) -> FromLeft(q, i)
    [] ~ (i # 1 /\ Spare(q.ptr[i - 1])) /\ i # n(q) + 1 /\ Spare(q.ptr[i + 1]) -> FromRight(q, i)
    [] OTHER -> Merged(q, IF i # n(q) + 1 THEN i ELSE i - 1)

\* Where val is after that: the last child may be gone.  Mutated form: it is
\* still looked for.
Under_m(q, i) == i
Under(q, i) == IF i > n(q) + 1 THEN i - 1 ELSE i

\* delete, delNLeaf: what becomes of q.  A root that has lost its last key
\* gives way to its only child.
RECURSIVE deleted(_, _, _)
Below(q, i, val, isRoot) ==
  IF isRoot /\ n(q) = 0 THEN deleted(q.ptr[1], val, TRUE)
                        ELSE [q EXCEPT !.ptr[i] = deleted(@, val, FALSE)]

delNLeaf(q, i, isRoot) ==
  LET l == q.ptr[i]
      r == q.ptr[i + 1]
  IN  CASE Spare(l) -> [q EXCEPT !.key[i] = g_pred(l), !.ptr[i] = deleted(l, g_pred(l), FALSE)]
        [] ~ Spare(l) /\ Spare(r) ->
             [q EXCEPT !.key[i] = g_succ(r), !.ptr[i + 1] = deleted(r, g_succ(r), FALSE)]
        [] OTHER -> Below(Merged(q, i), i, q.key[i], isRoot)

deleted(q, val, isRoot) ==
  LET i == Index(q, val)
      s == IF Spare(q.ptr[i]) THEN q ELSE ensureKeys(q, i)
  IN  CASE ~ find(q, val) -> q
        [] find(q, val) /\ Holds(q, i, val) ->
             IF IsLeaf(q) THEN Node(RemoveAt(q.key, i), <<>>) ELSE delNLeaf(q, i, isRoot)
        [] OTHER -> Below(s, Under(s, i), val, isRoot)

-----------------------------------------------------------------------------
\* The keys in order, from the i-th child on.
RECURSIVE KeysFrom(_, _)
KeysFrom(q, i) ==
  CASE IsLeaf(q) -> q.key
    [] ~ IsLeaf(q) /\ i <= n(q) -> KeysFrom(q.ptr[i], 1) \o <<q.key[i]>> \o KeysFrom(q, i + 1)
    [] OTHER -> KeysFrom(q.ptr[i], 1)
Keys == KeysFrom(root, 1)

insert(val) == Len(Keys) < MaxSize /\ root' = Inserted(root, val) /\ answer' = 0

delete(val) ==
  root' = deleted(root, val, TRUE) /\ answer' = IF find(root, val) THEN 0 ELSE -1

Menu == \E val \in Values : insert(val) \/ delete(val)

-----------------------------------------------------------------------------
RECURSIVE Depths(_)
Depths(q) ==
  IF IsLeaf(q) THEN {0} ELSE {d + 1 : d \in UNION {Depths(q.ptr[i]) : i \in 1 .. Len(q.ptr)}}

RECURSIVE WellFilled(_)
WellFilled(q) ==
  \A i \in 1 .. Len(q.ptr) :
    n(q.ptr[i]) \in minChild - 1 .. N - 1 /\ Len(q.ptr) = n(q) + 1 /\ WellFilled(q.ptr[i])

\* All leaves are at one depth and, the root apart, every node has between
\* minChild - 1 and N - 1 keys, whatever was inserted and deleted.
IsBTree == Cardinality(Depths(root)) = 1 /\ n(root) < N /\ WellFilled(root)

Counts == LET keys == Keys IN [v \in Values |-> Cardinality({i \in DOMAIN keys : keys[i] = v})]

\* The keys are in order, equal ones included, and find answers what it should.
IsSearchable ==
  /\ LET keys == Keys IN \A i \in 1 .. Len(keys) - 1 : keys[i] <= keys[i + 1]
  /\ \A v \in Values : find(root, v) <=> Counts[v] > 0

Spec == BTInit /\ [][Menu]_btvars
=============================================================================

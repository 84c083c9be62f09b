---------------------------- MODULE RedBlackTree ----------------------------
(***************************************************************************)
(* The red-black tree of "assignment/Data Struct/rb/rb.c", which inserts   *)
(* only.  A node is known by its value and the number of equal ones before *)
(* it.  The iterations of balance are actions.                             *)
(***************************************************************************)
EXTENDS Integers, Sequences, FiniteSets

CONSTANTS Values, MaxSize       \* bounds: values, and how many nodes

VARIABLES tree,                 \* [root, val, col, l, r, p]: the last five by node
          a                     \* the node balance is at; sent: the menu is shown

rbvars == <<tree, a>>

sent == <<0, 0>>
Nodes == {sent} \cup (Values \X (1 .. MaxSize))
BLACK == 0
RED == 1

Blank(x) == [v \in Nodes |-> x]
RBInit ==
  /\ tree = [root |-> sent, val |-> Blank(0), col |-> Blank(BLACK),
             l |-> Blank(sent), r |-> Blank(sent), p |-> Blank(sent)]
  /\ a = sent

Other(side) == IF side = "l" THEN "r" ELSE "l"

\* left_rot is Rotated(t, x, "l"), right_rot is Rotated(t, x, "r"): the child q
\* on the other side takes the place of x.
Rotated(t, x, side) ==
  LET q == t[Other(side)][x]
      c == t[side][q]
      up == t.p[x]
      under == IF up = sent THEN [t EXCEPT !.root = q]
               ELSE IF x = t.l[up] THEN [t EXCEPT !.l[up] = q] ELSE [t EXCEPT !.r[up] = q]
  IN  [under EXCEPT ![Other(side)][x] = c, ![side][q] = x,
                    !.p = [v \in Nodes |-> CASE v = x -> q [] v = q -> up
                                             [] v = c /\ c # sent -> x [] OTHER -> @[v]]]

-----------------------------------------------------------------------------
RECURSIVE Leaf(_, _)
Leaf(x, v) ==           \* the node under which v is put, x the root or below
  LET next == IF v < tree.val[x] THEN tree.l[x] ELSE tree.r[x]
  IN  IF x = sent \/ next = sent THEN x ELSE Leaf(next, v)

Size == Cardinality({x \in Nodes \ {sent} : tree.val[x] # 0})
Fresh(v) == <<v, 1 + Cardinality({x \in Nodes : tree.val[x] = v})>>

insert(v) ==
  LET new == Fresh(v)
      y == Leaf(tree.root, v)
      t == [tree EXCEPT !.val[new] = v, !.col[new] = RED, !.p[new] = y]
  IN  /\ a = sent /\ Size < MaxSize
      /\ tree' = CASE y = sent -> [t EXCEPT !.root = new]
                   [] y # sent /\ v < tree.val[y] -> [t EXCEPT !.l[y] = new]
                   [] OTHER -> [t EXCEPT !.r[y] = new]
      /\ a' = new

\* The node, its parent and its grandparent; side is where the parent is, e the
\* uncle.
up == tree.p[a]
top == tree.p[up]
side == IF up = tree.l[top] THEN "l" ELSE "r"
e == tree[Other(side)][top]

RecolourUncle ==
  /\ a # sent /\ tree.col[up] = RED /\ tree.col[e] = RED
  /\ tree' = [tree EXCEPT !.col[up] = BLACK, !.col[e] = BLACK, !.col[top] = RED]
  /\ a' = top

\* An inner grandchild becomes an outer one first.  Mutated form: it does not.
IsInner_m(t, x) == FALSE
IsInner(t, x) == x = t[Other(side)][up]

RotateTop ==
  LET inner == IsInner(tree, a)
      x == IF inner THEN up ELSE a
      t == IF inner THEN Rotated(tree, up, side) ELSE tree
      top2 == t.p[t.p[x]]
  IN  /\ a # sent /\ tree.col[up] = RED /\ tree.col[e] # RED
      /\ tree' = Rotated([t EXCEPT !.col[t.p[x]] = BLACK, !.col[top2] = RED], top2, Other(side))
      /\ a' = x

Balanced ==
  /\ a # sent /\ tree.col[up] # RED
  /\ tree' = [tree EXCEPT !.col[tree.root] = BLACK]
  /\ a' = sent

Balance == RecolourUncle \/ RotateTop \/ Balanced
Step == Balance \/ \E v \in Values : insert(v)

-----------------------------------------------------------------------------
RECURSIVE InOrder(_), BlackHeights(_)
InOrder(x) == IF x = sent THEN <<>> ELSE InOrder(tree.l[x]) \o <<x>> \o InOrder(tree.r[x])
Counts ==
  LET nodes == InOrder(tree.root)
  IN  [v \in Values |-> Cardinality({i \in DOMAIN nodes : tree.val[nodes[i]] = v})]

BlackHeights(x) ==
  IF x = sent THEN {0}
  ELSE {h + (1 - tree.col[x]) : h \in BlackHeights(tree.l[x]) \cup BlackHeights(tree.r[x])}

\* No rotation loses a node, mixes up the order or forgets a parent.
IsSearchTree ==
  LET nodes == InOrder(tree.root) IN
  /\ Len(nodes) = Size /\ tree.p[tree.root] = sent
  /\ \A i \in 1 .. Len(nodes) - 1 : tree.val[nodes[i]] <= tree.val[nodes[i + 1]]
  /\ \A i \in DOMAIN nodes :
       \A x \in {tree.l[nodes[i]], tree.r[nodes[i]]} \ {sent} : tree.p[x] = nodes[i]

\* At the menu no red node has a red child and all paths down have the same
\* number of black nodes; on the way there only a is red under red.
IsRedBlack ==
  /\ a = sent => tree.col[tree.root] = BLACK
  /\ \A x \in Nodes \ {sent} :
       tree.col[x] = RED /\ tree.col[tree.p[x]] = RED => x = a
  /\ Cardinality(BlackHeights(tree.root)) = 1

Spec == RBInit /\ [][Step]_rbvars
=============================================================================

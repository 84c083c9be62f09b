---------------------------- MODULE BinomialHeap ----------------------------
(***************************************************************************)
(* The binomial heap of "assignment/Data Struct/bheap/bh.c": the list of   *)
(* its trees.  A tree is the value at its root and its children, in the    *)
(* order of their rSib; deg is their number.  One action is one choice at  *)
(* the menu.                                                               *)
(***************************************************************************)
EXTENDS Integers, Sequences, SequencesExt

CONSTANTS Values, MaxSize       \* bounds: values, and how many at a time

VARIABLES heap, answer

bhvars == <<heap, answer>>

Tree(val, kids) == [val |-> val, kids |-> kids]
deg(t) == Len(t.kids)

BHInit == heap = <<>> /\ answer = 0

\* c becomes the first child of p.
bTreeLink(c, p) == Tree(p.val, <<c>> \o p.kids)

\* Two lists in one, by degree.
RECURSIVE bHeapMerge(_, _)
bHeapMerge(s1, s2) ==
  CASE s1 = <<>> \/ s2 = <<>> -> s1 \o s2
    [] s1 # <<>> /\ s2 # <<>> /\ deg(s1[1]) <= deg(s2[1]) -> <<s1[1]>> \o bHeapMerge(Tail(s1), s2)
    [] OTHER -> <<s2[1]>> \o bHeapMerge(s1, Tail(s2))

\* Of three trees of one degree the last two are linked.  Mutated form: the
\* first two are.
MoveOn_m(s) == deg(s[1]) # deg(s[2])
MoveOn(s) == deg(s[1]) # deg(s[2]) \/ (Len(s) > 2 /\ deg(s[3]) = deg(s[1]))

RECURSIVE Linked(_)
Linked(s) ==
  LET rest == SubSeq(s, 3, Len(s)) IN
  CASE Len(s) < 2 -> s
    [] Len(s) >= 2 /\ MoveOn(s) -> <<s[1]>> \o Linked(Tail(s))
    [] OTHER -> IF s[1].val <= s[2].val THEN Linked(<<bTreeLink(s[2], s[1])>> \o rest)
                                        ELSE Linked(<<bTreeLink(s[1], s[2])>> \o rest)

bHeapUnion(s1, s2) == Linked(bHeapMerge(s1, s2))

\* The first tree with the least root.
MinAt(s) ==
  CHOOSE k \in DOMAIN s :
    /\ \A j \in DOMAIN s : s[k].val <= s[j].val
    /\ \A j \in 1 .. k - 1 : s[k].val < s[j].val

\* A root without children is taken to be the first one: what stands before it
\* would be dropped.
Extracted(s) ==
  LET k == MinAt(s) IN
  IF s[k].kids = <<>> THEN SubSeq(s, k + 1, Len(s))
                      ELSE bHeapUnion(RemoveAt(s, k), Reverse(s[k].kids))

-----------------------------------------------------------------------------
RECURSIVE CountIn(_, _)
CountIn(s, v) ==
  IF s = <<>> THEN 0
  ELSE (IF s[1].val = v THEN 1 ELSE 0) + CountIn(s[1].kids, v) + CountIn(Tail(s), v)
Counts == [v \in Values |-> CountIn(heap, v)]

RECURSIVE Size(_)
Size(s) == IF s = <<>> THEN 0 ELSE 1 + Size(s[1].kids) + Size(Tail(s))

bHeapInsert(v) ==
  /\ Size(heap) < MaxSize
  /\ heap' = bHeapUnion(heap, <<Tree(v, <<>>)>>) /\ answer' = 0

extractMin ==
  /\ heap # <<>>
  /\ heap' = Extracted(heap) /\ answer' = heap[MinAt(heap)].val

Menu == (\E v \in Values : bHeapInsert(v)) \/ extractMin

-----------------------------------------------------------------------------
RECURSIVE IsBinomial(_)
IsBinomial(t) ==
  \A i \in DOMAIN t.kids :
    deg(t.kids[i]) = deg(t) - i /\ t.val <= t.kids[i].val /\ IsBinomial(t.kids[i])

\* The heap is a list of binomial trees of different degrees, the smallest
\* first, no value above its children's: only so is the least value a root, and
\* a least root without children the first.
IsBinomialHeap ==
  /\ \A k \in DOMAIN heap : IsBinomial(heap[k])
  /\ \A k \in 1 .. Len(heap) - 1 : deg(heap[k]) < deg(heap[k + 1])

Spec == BHInit /\ [][Menu]_bhvars
=============================================================================

------------------------- MODULE SequentialPrograms -------------------------
(***************************************************************************)
(* The programs with one thread: the interpreter of "assignment/Comp Arch" *)
(* and the containers of "assignment/Data Struct" with their menus.  Each  *)
(* is run on its own: running names it, the others stay as they would      *)
(* start.                                                                  *)
(***************************************************************************)
EXTENDS SimpleRISC

CONSTANTS N, Numbers, MaxSize   \* of BTree, RedBlackTree and BinomialHeap

ASSUME NAssumption == N % 2 = 0 /\ N > 2
ASSUME NumbersAssumption == Numbers \subseteq Nat \ {0} /\ MaxSize \in Nat

VARIABLES running, tree, a, b_root, heap, reply

RB == INSTANCE RedBlackTree WITH Values <- Numbers
BT == INSTANCE BTree WITH Values <- Numbers, root <- b_root, answer <- reply
BH == INSTANCE BinomialHeap WITH Values <- Numbers, answer <- reply

SomeSource == CHOOSE s \in Sources : TRUE
SeqInit ==
  /\ Init /\ RB!RBInit /\ BT!BTInit /\ BH!BHInit
  /\ running \in {"interpreter", "rb", "bt", "bh"}
  /\ running # "interpreter" => source = SomeSource

Interpret == running = "interpreter" /\ Next /\ UNCHANGED <<running, tree, a, b_root, heap, reply>>
RBStep(A) == running = "rb" /\ A /\ UNCHANGED <<running, vars, b_root, heap, reply>>
RBBalance == RBStep(RB!Balance)
BTStep == running = "bt" /\ BT!Menu /\ UNCHANGED <<running, vars, tree, a, heap>>
BHStep == running = "bh" /\ BH!Menu /\ UNCHANGED <<running, vars, tree, a, b_root>>

SeqNext == Interpret \/ RBBalance \/ (\E v \in Numbers : RBStep(RB!insert(v))) \/ BTStep \/ BHStep

SeqSpec ==
  /\ SeqInit /\ [][SeqNext]_<<vars, running, tree, a, b_root, heap, reply>>
  /\ WF_vars(Interpret) /\ WF_<<tree, a>>(RBBalance)

-----------------------------------------------------------------------------
\* The shapes the containers rely on survive every sequence of calls, and the
\* trees are sorted and searched rightly.
ShapesHold ==
  CASE running = "rb" -> RB!IsSearchTree /\ RB!IsRedBlack
    [] running = "bt" -> BT!IsBTree /\ BT!IsSearchable
    [] running = "bh" -> BH!IsBinomialHeap
    [] OTHER -> TRUE

Counts ==
  CASE running = "rb" -> RB!Counts
    [] running = "bt" -> BT!Counts
    [] running = "bh" -> BH!Counts
    [] OTHER -> [v \in Numbers |-> 0]
Bag == INSTANCE Multiset WITH Values <- Numbers, bag <- Counts, answer <- reply

\* The containers change and answer as a multiset does: no element is lost or
\* doubled by rotations, splitting, merging, borrowing or linking, delete tells
\* whether there was something to delete and extractMin gives back the least.
ImplementsMultiset == Bag!Spec
=============================================================================

-------------------------- MODULE LockFreeSkipList --------------------------
(***************************************************************************)
(* The lock-free skip list of assignment/pcp/proj/LockFree.h.  A next      *)
(* field holds a reference and the mark of its node on that level; both    *)
(* change together, by compare_exchange_strong.  One action per load or    *)
(* exchange of a next field; a new node is private until it is linked.     *)
(***************************************************************************)
EXTENDS Integers, FiniteSets

CONSTANTS Threads,      \* 1 .. n
          Ops,          \* bound: operations of thread 1, the others make one
          Keys,         \* bound: the keys used, positive integers
          MaxLevel      \* MAX_LEVEL

ASSUME ThreadsAssumption == Threads = 1 .. Cardinality(Threads)
ASSUME KeysAssumption == Keys \subseteq Nat \ {0} /\ IsFiniteSet(Keys)
ASSUME BoundAssumption == Ops \in Nat \ {0} /\ MaxLevel \in Nat \ {0}

Levels == 0 .. MaxLevel
Heights == 1 .. MaxLevel

\* Nodes are numbered: the sentinels, one node per key that main may have
\* added before the threads start, one per operation of a thread.
head == -1
tail == 0
NULL == -2
NewNode(t, left) == Cardinality(Threads) * left + t + Cardinality(Keys)
InitialNode(k) == Cardinality({l \in Keys : l <= k})
Nodes == -1 .. NewNode(Cardinality(Threads), Ops - 1)
Infinity == 1 + CHOOSE k \in Keys : \A l \in Keys : l <= k

VARIABLES mem,      \* the nodes
          loc,      \* the locals of the operation each thread executes
          left      \* operations a thread still may start

vars == <<mem, loc, left>>

\* MarkableReference: a pointer and a bit.
Ref(r, m) == [ref |-> r, mark |-> m]
Idle == [pc |-> "idle", op |-> "none", x |-> 0, topLevel |-> -1, then |-> "none",
         goal |-> 0, level |-> 0, pred |-> head, curr |-> head, succ |-> head, marked |-> FALSE,
         preds |-> [l \in Levels |-> NULL], succs |-> [l \in Levels |-> NULL],
         seen |-> {}, ret |-> FALSE]

\* The set the list stands for: the bottom level, without the marked nodes.
RECURSIVE Bottom(_, _)
Bottom(m, n) == IF n = tail THEN {} ELSE {n} \cup Bottom(m, m[n].next[0].ref)
Member(m, x) == \E n \in Bottom(m, head) : m[n].key = x /\ ~ m[n].next[0].mark

-----------------------------------------------------------------------------
\* main has added the keys of some set P, at some heights.
Prefilled(P, height) ==
  LET After(k, l) == {q \in P : q > k /\ height[q] >= l}
      NextOf(k, l) == IF After(k, l) = {} THEN tail
                      ELSE InitialNode(CHOOSE q \in After(k, l) : \A r \in After(k, l) : q <= r)
      Links(k, top) == [l \in Levels |-> Ref(IF l <= top THEN NextOf(k, l) ELSE NULL, FALSE)]
      Node(k, top) == [key |-> k, topLevel |-> top, next |-> Links(k, top)]
  IN [n \in Nodes |->
        IF n = head THEN Node(0, MaxLevel)
        ELSE IF n = tail
        THEN [Node(Infinity, MaxLevel) EXCEPT !.next = [l \in Levels |-> Ref(NULL, FALSE)]]
        ELSE IF \E k \in P : n = InitialNode(k)
        THEN LET k == CHOOSE k \in P : n = InitialNode(k) IN Node(k, height[k])
        ELSE Node(0, -1)]

Init ==
  /\ \E P \in SUBSET Keys : \E height \in [P -> Heights] : mem = Prefilled(P, height)
  /\ loc = [t \in Threads |-> Idle]
  /\ left = [t \in Threads |-> IF t = 1 THEN Ops ELSE 1]

Local(t, l) == loc' = [loc EXCEPT ![t] = l]
Returned(l, b) == [Idle EXCEPT !.op = l.op, !.x = l.x, !.ret = b, !.seen = l.seen]

\* pred->next[level], of the locals of t, and curr->next[level].
PredNext(t) == mem[loc[t].pred].next[loc[t].level]
CurrNext(t) == mem[loc[t].curr].next[loc[t].level]

\* next[l] of node n becomes new if it is old.
Exchanged(n, l, old, new) == mem[n].next[l] = old /\ mem' = [mem EXCEPT ![n].next[l] = new]
NotExchanged(n, l, old) == mem[n].next[l] # old /\ UNCHANGED mem

\* find starts, or starts again, from the head; "then" follows it, on level
\* "goal".
BeginFind(l, then) == [l EXCEPT !.pc = "curr", !.level = MaxLevel, !.pred = head, !.then = then]

Call(t) ==
  /\ loc[t].pc = "idle" /\ left[t] > 0
  /\ left' = [left EXCEPT ![t] = @ - 1]
  /\ \E o \in {"add", "remove", "contains"}, x \in Keys :
       \E h \in IF o = "add" THEN Heights ELSE {-1} :
         LET l == BeginFind([Idle EXCEPT !.op = o, !.x = x, !.topLevel = h,
                                         !.seen = {Member(mem, x)}], "decide") IN
           Local(t, IF o = "contains" THEN [l EXCEPT !.pc = "ccurr"] ELSE l)
  /\ UNCHANGED mem

-----------------------------------------------------------------------------
\* find: the first node of a level.
LoadCurr(t) ==
  /\ loc[t].pc = "curr"
  /\ Local(t, [loc[t] EXCEPT !.curr = PredNext(t).ref, !.pc = "next"])
  /\ UNCHANGED <<mem, left>>

\* With curr not marked: on to its successor, or note it and go down.
Advance(l) ==
  IF mem[l.curr].key < l.x
  THEN [l EXCEPT !.pred = l.curr, !.curr = l.succ, !.pc = "next"]
  ELSE [l EXCEPT !.preds[l.level] = l.pred, !.succs[l.level] = l.curr,
                 !.level = IF @ = 0 THEN l.goal ELSE @ - 1,
                 !.pc = IF l.level = 0 THEN l.then ELSE "curr"]

\* One load of curr->next[level]: reference and mark.
LoadNext(t) ==
  /\ loc[t].pc = "next"
  /\ LET l == [loc[t] EXCEPT !.succ = CurrNext(t).ref] IN
       Local(t, IF CurrNext(t).mark THEN [l EXCEPT !.pc = "snip"] ELSE Advance(l))
  /\ UNCHANGED <<mem, left>>

\* Take a marked node out.  Mutated form: whatever pred's mark is.
Unmarked_m(t) == Ref(loc[t].curr, PredNext(t).mark)
Unmarked(t) == Ref(loc[t].curr, FALSE)

Snip(t) ==
  /\ loc[t].pc = "snip"
  /\ Exchanged(loc[t].pred, loc[t].level, Unmarked(t), Ref(loc[t].succ, FALSE))
  /\ Local(t, [loc[t] EXCEPT !.pc = "recurr"])
  /\ UNCHANGED left

\* goto retry
SnipFails(t) ==
  /\ loc[t].pc = "snip"
  /\ NotExchanged(loc[t].pred, loc[t].level, Unmarked(t))
  /\ Local(t, BeginFind(loc[t], loc[t].then))
  /\ UNCHANGED left

\* After a snip: curr, its successor and its mark, by three loads.
ReloadCurr(t) ==
  /\ loc[t].pc = "recurr"
  /\ Local(t, [loc[t] EXCEPT !.curr = PredNext(t).ref, !.pc = "resucc"])
  /\ UNCHANGED <<mem, left>>

ReloadSucc(t) ==
  /\ loc[t].pc = "resucc"
  /\ Local(t, [loc[t] EXCEPT !.succ = CurrNext(t).ref, !.pc = "remark"])
  /\ UNCHANGED <<mem, left>>

ReloadMark(t) ==
  /\ loc[t].pc = "remark"
  /\ Local(t, IF CurrNext(t).mark THEN [loc[t] EXCEPT !.pc = "snip"] ELSE Advance(loc[t]))
  /\ UNCHANGED <<mem, left>>

\* find returns curr->key == key; curr is succs[0].
Found(t) == mem[loc[t].succs[0]].key = loc[t].x

\* Everybody busy with key x observes what the set holds now.
Observed(x) ==
  [u \in Threads |-> IF loc[u].pc # "idle" /\ loc[u].x = x
                     THEN [loc[u] EXCEPT !.seen = @ \cup {Member(mem', x)}]
                     ELSE loc[u]]

-----------------------------------------------------------------------------
\* An add that finds the key, a remove that does not.
NothingToDo(t) ==
  /\ loc[t].pc = "decide" /\ loc[t].op = IF Found(t) THEN "add" ELSE "remove"
  /\ Local(t, Returned(loc[t], FALSE))
  /\ UNCHANGED <<mem, left>>

Me(t) == NewNode(t, left[t])

\* add: make the node and link it on the bottom level.
AddBottom(t) ==
  /\ loc[t].pc = "decide" /\ loc[t].op = "add" /\ ~ Found(t)
  /\ LET l == loc[t]
         node == [key |-> l.x, topLevel |-> l.topLevel,
                  next |-> [v \in Levels |-> Ref(IF v <= l.topLevel THEN l.succs[v] ELSE NULL, FALSE)]]
     IN /\ mem[l.preds[0]].next[0] = Ref(l.succs[0], FALSE)
        /\ mem' = [mem EXCEPT ![Me(t)] = node, ![l.preds[0]].next[0] = Ref(Me(t), FALSE)]
        /\ loc' = [Observed(l.x) EXCEPT ![t].level = 1, ![t].pc = "upper", ![t].then = "upper"]
  /\ UNCHANGED left

\* The exchange fails: search again.
AddBottomFails(t) ==
  /\ loc[t].pc = "decide" /\ loc[t].op = "add" /\ ~ Found(t)
  /\ NotExchanged(loc[t].preds[0], 0, Ref(loc[t].succs[0], FALSE))
  /\ Local(t, BeginFind(loc[t], "decide"))
  /\ UNCHANGED left

\* ... then on the levels above, each until it succeeds; a find in between
\* renews preds and succs, but not the links of the node.
AddUpper(t) ==
  /\ loc[t].pc = "upper"
  /\ LET v == loc[t].level IN
       /\ Exchanged(loc[t].preds[v], v, Ref(loc[t].succs[v], FALSE), Ref(Me(t), FALSE))
       /\ Local(t, IF v = loc[t].topLevel THEN Returned(loc[t], TRUE) ELSE [loc[t] EXCEPT !.level = @ + 1])
  /\ UNCHANGED left

\* Mutated form: tried again with the same preds and succs.
Renew_m(l) == l
Renew(l) == BeginFind([l EXCEPT !.goal = l.level], "upper")

AddUpperFails(t) ==
  /\ loc[t].pc = "upper"
  /\ NotExchanged(loc[t].preds[loc[t].level], loc[t].level, Ref(loc[t].succs[loc[t].level], FALSE))
  /\ Local(t, Renew(loc[t]))
  /\ UNCHANGED left

-----------------------------------------------------------------------------
\* remove: mark the victim from its top level down.
Victim(t) == loc[t].succs[0]
VictimNext(t) == mem[Victim(t)].next[loc[t].level]

BeginRemove(t) ==
  /\ loc[t].pc = "decide" /\ loc[t].op = "remove" /\ Found(t)
  /\ Local(t, [loc[t] EXCEPT !.level = mem[Victim(t)].topLevel, !.pc = "vmark"])
  /\ UNCHANGED <<mem, left>>

\* marked = the mark.  On the bottom level another remove was first.
LoadMark(t) ==
  /\ loc[t].pc = "vmark"
  /\ Local(t, IF loc[t].level = 0 /\ VictimNext(t).mark
              THEN Returned(loc[t], FALSE)
              ELSE [loc[t] EXCEPT !.marked = VictimNext(t).mark, !.pc = "vsucc"])
  /\ UNCHANGED <<mem, left>>

\* succ = the reference; a marked level is done.  The bottom level begins
\* here: the mark loaded before is not used.
LoadSucc(t) ==
  /\ loc[t].pc = "vsucc"
  /\ Local(t, IF loc[t].marked
              THEN [loc[t] EXCEPT !.level = @ - 1, !.marked = FALSE,
                                  !.pc = IF loc[t].level = 1 THEN "vsucc" ELSE "vmark"]
              ELSE [loc[t] EXCEPT !.succ = VictimNext(t).ref, !.pc = "vcas"])
  /\ UNCHANGED <<mem, left>>

MarkUpper(t) ==
  /\ loc[t].pc = "vcas" /\ loc[t].level > 0
  /\ \/ Exchanged(Victim(t), loc[t].level, Ref(loc[t].succ, FALSE), Ref(loc[t].succ, TRUE))
     \/ NotExchanged(Victim(t), loc[t].level, Ref(loc[t].succ, FALSE))
  /\ Local(t, [loc[t] EXCEPT !.pc = "vmark"])
  /\ UNCHANGED left

\* iMarkedIt: the key is out of the set; a last find takes the node out.
\* Mutated form: a node marked by another remove counts as well.
LastFind(l) == BeginFind(l, "removed")

IsMine_m(t) == VictimNext(t).ref = loc[t].succ
IsMine(t) == VictimNext(t) = Ref(loc[t].succ, FALSE)

MarkBottom(t) ==
  /\ loc[t].pc = "vcas" /\ loc[t].level = 0 /\ IsMine(t)
  /\ mem' = [mem EXCEPT ![Victim(t)].next[0] = Ref(loc[t].succ, TRUE)]
  /\ loc' = [Observed(loc[t].x) EXCEPT ![t] = LastFind(@)]
  /\ UNCHANGED left

MarkBottomFails(t) ==
  /\ loc[t].pc = "vcas" /\ loc[t].level = 0 /\ ~ IsMine(t)
  /\ Local(t, [loc[t] EXCEPT !.pc = "vmark"])
  /\ UNCHANGED <<mem, left>>

Removed(t) ==
  /\ loc[t].pc = "removed"
  /\ Local(t, Returned(loc[t], TRUE))
  /\ UNCHANGED <<mem, left>>

-----------------------------------------------------------------------------
\* contains: curr, its mark and its successor, by three loads; a marked curr
\* is loaded again from pred.
ContainsCurr(t) ==
  /\ loc[t].pc = "ccurr"
  /\ Local(t, [loc[t] EXCEPT !.curr = PredNext(t).ref, !.pc = "cmark"])
  /\ UNCHANGED <<mem, left>>

Gone(t) == CurrNext(t).mark

ContainsMark(t) ==
  /\ loc[t].pc = "cmark"
  /\ Local(t, [loc[t] EXCEPT !.marked = Gone(t), !.pc = "csucc"])
  /\ UNCHANGED <<mem, left>>

ContainsSucc(t) ==
  /\ loc[t].pc = "csucc"
  /\ LET l == [loc[t] EXCEPT !.succ = CurrNext(t).ref] IN
       Local(t, IF l.marked THEN [l EXCEPT !.pc = "ccurr"]
                ELSE IF mem[l.curr].key < l.x
                THEN [l EXCEPT !.pred = l.curr, !.curr = l.succ, !.pc = "cmark"]
                ELSE IF l.level > 0 THEN [l EXCEPT !.level = @ - 1, !.pc = "ccurr"]
                ELSE Returned(l, mem[l.curr].key = l.x))
  /\ UNCHANGED <<mem, left>>

Thread(t) ==
  \/ Call(t)
  \/ LoadCurr(t) \/ LoadNext(t) \/ Snip(t) \/ SnipFails(t)
  \/ ReloadCurr(t) \/ ReloadSucc(t) \/ ReloadMark(t)
  \/ NothingToDo(t) \/ AddBottom(t) \/ AddBottomFails(t)
  \/ AddUpper(t) \/ AddUpperFails(t)
  \/ BeginRemove(t) \/ LoadMark(t) \/ LoadSucc(t) \/ MarkUpper(t)
  \/ MarkBottom(t) \/ MarkBottomFails(t) \/ Removed(t)
  \/ ContainsCurr(t) \/ ContainsMark(t) \/ ContainsSucc(t)

Joined == \A t \in Threads : loc[t].pc = "idle" /\ left[t] = 0
Over == Joined /\ UNCHANGED vars

Next == (\E t \in Threads : Thread(t)) \/ Over

Spec == Init /\ [][Next]_vars

\* The operating system runs every thread.
FairSpec == Spec /\ \A t \in Threads : WF_vars(Thread(t))

-----------------------------------------------------------------------------
\* References are nodes; nothing follows the tail.
TypeOK ==
  /\ \A n \in Nodes :
       /\ mem[n].key \in Keys \cup {0, Infinity} /\ mem[n].topLevel \in Levels \cup {-1}
       /\ mem[n].next \in [Levels -> [ref : Nodes \cup {NULL}, mark : BOOLEAN]]
  /\ \A l \in Levels : mem[tail].next[l] = Ref(NULL, FALSE)
  /\ \A t \in Threads : loc[t].curr \in Nodes /\ loc[t].pred \in Nodes \ {tail}
  /\ left \in [Threads -> 0 .. Ops]

\* The set the list stands for, and the operations under way on it.  An add
\* has had its effect once the node is linked at the bottom, a remove once it
\* has marked its victim there.
Members == {x \in Keys : Member(mem, x)}
Busy ==
  [t \in Threads |->
     LET l == loc[t] IN
       [kind |-> l.op, x |-> l.x, seen |-> l.seen, ret |-> l.ret, returned |-> l.pc = "idle",
        done |-> l.then \in {"upper", "removed"}]]

ConcurrentSet == INSTANCE LinearizableSet WITH members <- Members, busy <- Busy

\* Linearizability: the list implements a set whose operations take effect at
\* one moment each, whatever other operations find half done.
ImplementsSet == ConcurrentSet!Spec

\* The bottom level is strictly sorted, nodes being removed included: no key
\* is there twice.  Above, a node may still lead to an older node of its own
\* key, which was being removed when it was made, but never back.
LinksAreSorted ==
  \A n \in Nodes : \A l \in Levels :
    LET m == mem[n].next[l].ref IN
      m # NULL => mem[n].key < mem[m].key \/ (l > 0 /\ mem[n].key = mem[m].key /\ mem[m].next[0].mark)

\* Once a node is out of the set and its remove has returned, the bottom level
\* no longer leads to it.
RemovedIsUnlinked ==
  \A n \in Bottom(mem, head) \ {head} :
    mem[n].next[0].mark => \E t \in Threads : loc[t].then = "removed" /\ loc[t].x = mem[n].key

\* The links hold whenever they are followed, half-done operations and all.
Safety == TypeOK /\ LinksAreSorted /\ RemovedIsUnlinked

\* Every add and every remove returns: a retry means that another thread has
\* got further.
UpdatesReturn ==
  \A t \in Threads : loc[t].pc # "idle" /\ loc[t].op # "contains" ~> loc[t].pc = "idle"

\* Every operation returns, contains among them.
AllReturn == <> Joined
=============================================================================

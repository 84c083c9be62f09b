---------------------------- MODULE LazySkipList ----------------------------
(***************************************************************************)
(* The lock-based skip list of assignment/pcp/proj/LazySkipList.h.  add,   *)
(* remove and contains run concurrently; find reads the list without any   *)
(* lock.  One action per access to a shared field; taking a node's         *)
(* recursive lock and the checks made under it are one, and so are the     *)
(* unlocks at the end.                                                     *)
(***************************************************************************)
EXTENDS Integers, FiniteSets

CONSTANTS Threads,          \* 1 .. n
          Ops,              \* bound: operations per thread
          Keys,             \* bound: the keys used, positive integers
          MaxLevel          \* MAX_LEVEL

ASSUME ThreadsAssumption == Threads = 1 .. Cardinality(Threads)
ASSUME KeysAssumption == Keys \subseteq Nat \ {0} /\ IsFiniteSet(Keys)
ASSUME BoundAssumption == Ops \in Nat \ {0} /\ MaxLevel \in Nat \ {0}

Levels == 0 .. MaxLevel
Heights == 1 .. MaxLevel        \* what randomLevel returns

\* Nodes are numbered: the sentinels, one node per key that main may have
\* added before the threads start, one per operation of a thread.
head == -1
tail == 0
NewNode(t, left) == Cardinality(Threads) * left + t + Cardinality(Keys)
InitialNode(k) == Cardinality({l \in Keys : l <= k})
Nodes == -1 .. NewNode(Cardinality(Threads), Ops - 1)
Infinity == 1 + CHOOSE k \in Keys : \A l \in Keys : l <= k

VARIABLES mem,      \* the nodes
          loc,      \* the locals of the operation each thread executes
          left      \* operations a thread still may start

vars == <<mem, loc, left>>

None == -2
Blank(k, top, nxt) == [key |-> k, topLevel |-> top, next |-> nxt, marked |-> FALSE,
                       fullyLinked |-> FALSE, owner |-> 0, depth |-> 0]
Idle == [pc |-> "idle", op |-> "none", x |-> 0, topLevel |-> -1, level |-> 0, pred |-> head,
         lFound |-> -1, preds |-> [l \in Levels |-> None], succs |-> [l \in Levels |-> None],
         victim |-> None, isMarked |-> FALSE, highest |-> -1, ret |-> FALSE, seen |-> {}]

\* The set the list stands for.
Member(m, x) == \E n \in Nodes : m[n].key = x /\ m[n].fullyLinked /\ ~ m[n].marked

-----------------------------------------------------------------------------
\* main has added the keys of some set P, at some heights.
Prefilled(P, height) ==
  LET After(k, l) == {q \in P : q > k /\ height[q] >= l}
      NextOf(k, l) == IF After(k, l) = {} THEN tail
                      ELSE InitialNode(CHOOSE q \in After(k, l) : \A r \in After(k, l) : q <= r)
  IN [n \in Nodes |->
        IF n = head THEN Blank(0, MaxLevel, [l \in Levels |-> NextOf(0, l)])
        ELSE IF n = tail THEN Blank(Infinity, MaxLevel, [l \in Levels |-> None])
        ELSE IF \E k \in P : n = InitialNode(k)
        THEN LET k == CHOOSE k \in P : n = InitialNode(k)
             IN [Blank(k, height[k], [l \in Levels |-> IF l <= height[k] THEN NextOf(k, l) ELSE None])
                   EXCEPT !.fullyLinked = TRUE]
        ELSE Blank(0, -1, [l \in Levels |-> None])]

Init ==
  /\ \E P \in SUBSET Keys : \E height \in [P -> Heights] : mem = Prefilled(P, height)
  /\ loc = [t \in Threads |-> Idle]
  /\ left = [t \in Threads |-> Ops]

\* The locals of t become l; Returned keeps what the caller gets.
Local(t, l) == loc' = [loc EXCEPT ![t] = l]
Returned(t, b) == [Idle EXCEPT !.op = loc[t].op, !.x = loc[t].x, !.ret = b, !.seen = loc[t].seen]

\* Start the search from the head, on top.
BeginFind(l) == [l EXCEPT !.pc = "find", !.level = MaxLevel, !.pred = head, !.lFound = -1]

Call(t) ==
  /\ loc[t].pc = "idle" /\ left[t] > 0
  /\ left' = [left EXCEPT ![t] = @ - 1]
  /\ \E o \in {"add", "remove", "contains"}, x \in Keys :
       \E h \in IF o = "add" THEN Heights ELSE {-1} :
         Local(t, BeginFind([Idle EXCEPT !.op = o, !.x = x, !.topLevel = h,
                                         !.seen = {Member(mem, x)}]))
  /\ UNCHANGED mem

\* find: one load of pred->next[level].
Find(t) ==
  /\ loc[t].pc = "find"
  /\ LET l == loc[t]  curr == mem[l.pred].next[l.level] IN
       Local(t, IF l.x > mem[curr].key
                THEN [l EXCEPT !.pred = curr]
                ELSE [l EXCEPT
                        !.lFound = IF @ = -1 /\ mem[curr].key = l.x THEN l.level ELSE @,
                        !.preds[l.level] = l.pred, !.succs[l.level] = curr,
                        !.level = @ - 1,
                        !.pc = IF l.level = 0 THEN "found" ELSE @])
  /\ UNCHANGED <<mem, left>>

Found(t) == loc[t].succs[loc[t].lFound]

-----------------------------------------------------------------------------
\* add: a key found in a node that is not marked is there once the node is
\* fully linked; marked, it is searched again.
AddFound(t) ==
  /\ loc[t].pc = "found" /\ loc[t].op = "add" /\ loc[t].lFound # -1
  /\ Local(t, IF mem[Found(t)].marked THEN BeginFind(loc[t]) ELSE [loc[t] EXCEPT !.pc = "await"])
  /\ UNCHANGED <<mem, left>>

Linked(n) == mem[n].fullyLinked

AwaitLinked(t) ==
  /\ loc[t].pc = "await" /\ Linked(Found(t))
  /\ Local(t, Returned(t, FALSE))
  /\ UNCHANGED <<mem, left>>

AddNotFound(t) ==
  /\ loc[t].pc = "found" /\ loc[t].op = "add" /\ loc[t].lFound = -1
  /\ Local(t, [loc[t] EXCEPT !.pc = "lock", !.level = 0, !.highest = -1])
  /\ UNCHANGED <<mem, left>>

\* A recursive mutex.
Free(t, n) == mem[n].owner \in {0, t}
Locked(t, n) == [mem EXCEPT ![n].owner = t, ![n].depth = @ + 1]

\* lock() of preds[level] and the validation of that level.
Valid(t) ==
  LET l == loc[t]  pred == l.preds[l.level]  succ == l.succs[l.level]
  IN /\ ~ mem[pred].marked
     /\ l.op = "add" => ~ mem[succ].marked
     /\ mem[pred].next[l.level] = IF l.op = "add" THEN succ ELSE l.victim

LockPred(t) ==
  /\ loc[t].pc = "lock" /\ Free(t, loc[t].preds[loc[t].level])
  /\ mem' = Locked(t, loc[t].preds[loc[t].level])
  /\ Local(t, [loc[t] EXCEPT
                 !.highest = loc[t].level,
                 !.level = @ + 1,
                 !.pc = IF ~ Valid(t) THEN "retry"
                        ELSE IF loc[t].level < loc[t].topLevel THEN "lock"
                        ELSE IF loc[t].op = "add" THEN "create" ELSE "unlink"])
  /\ UNCHANGED left

\* How often t unlocks node n at the end: as preds[0 .. highestLocked], and as
\* the victim of a remove.
Times(t, n, alsoVictim) ==
  Cardinality({l \in 0 .. loc[t].highest : loc[t].preds[l] = n})
    + IF alsoVictim /\ n = loc[t].victim THEN 1 ELSE 0

Unlocked(t, alsoVictim) ==
  [n \in Nodes |->
     LET k == Times(t, n, alsoVictim) IN
       IF k = 0 THEN mem[n]
       ELSE [mem[n] EXCEPT !.depth = @ - k, !.owner = IF mem[n].depth = k THEN 0 ELSE @]]

\* Not valid: unlock the predecessors and search again.  Mutated form: they stay
\* locked, as in the older versions of the file.
Released_m(t) == mem
Released(t) == Unlocked(t, FALSE)

Retry(t) ==
  /\ loc[t].pc = "retry"
  /\ mem' = Released(t)
  /\ Local(t, BeginFind(loc[t]))
  /\ UNCHANGED left

Me(t) == NewNode(t, left[t])

Create(t) ==
  /\ loc[t].pc = "create"
  /\ mem' = [mem EXCEPT ![Me(t)] =
               Blank(loc[t].x, loc[t].topLevel,
                     [l \in Levels |-> IF l <= loc[t].topLevel THEN loc[t].succs[l] ELSE None])]
  /\ Local(t, [loc[t] EXCEPT !.pc = "link", !.level = 0])
  /\ UNCHANGED left

Link(t) ==
  /\ loc[t].pc = "link"
  /\ mem' = [mem EXCEPT ![loc[t].preds[loc[t].level]].next[loc[t].level] = Me(t)]
  /\ Local(t, [loc[t] EXCEPT !.level = @ + 1,
                             !.pc = IF loc[t].level = loc[t].topLevel THEN "publish" ELSE @])
  /\ UNCHANGED left

\* Everybody busy with key x observes what the set holds now.
Observed(x) ==
  [u \in Threads |-> IF loc[u].pc # "idle" /\ loc[u].x = x
                     THEN [loc[u] EXCEPT !.seen = @ \cup {Member(mem', x)}]
                     ELSE loc[u]]

\* fullyLinked = true: the key is in the set.
Publish(t) ==
  /\ loc[t].pc = "publish"
  /\ mem' = [mem EXCEPT ![Me(t)].fullyLinked = TRUE]
  /\ loc' = [Observed(loc[t].x) EXCEPT ![t].pc = "unlock"]
  /\ UNCHANGED left

Unlock(t) ==
  /\ loc[t].pc = "unlock"
  /\ mem' = Unlocked(t, loc[t].op = "remove")
  /\ Local(t, Returned(t, TRUE))
  /\ UNCHANGED left

-----------------------------------------------------------------------------
\* remove: the victim must be fully linked, found on its top level and not
\* marked, unless it is this thread that marked it.
Removable(t) ==
  LET v == mem[Found(t)] IN v.fullyLinked /\ v.topLevel = loc[t].lFound /\ ~ v.marked

RemoveFound(t) ==
  /\ loc[t].pc = "found" /\ loc[t].op = "remove"
  /\ LET l == IF loc[t].lFound = -1 THEN loc[t] ELSE [loc[t] EXCEPT !.victim = Found(t)] IN
       Local(t, IF loc[t].isMarked
                THEN [l EXCEPT !.pc = "lock", !.level = 0, !.highest = -1]
                ELSE IF loc[t].lFound # -1 /\ Removable(t)
                THEN [l EXCEPT !.pc = "mark", !.topLevel = mem[Found(t)].topLevel]
                ELSE Returned(t, FALSE))
  /\ UNCHANGED <<mem, left>>

\* Lock the victim; somebody else may have marked it meanwhile.
Taken(n) == mem[n].marked

VictimGone(t) ==
  /\ loc[t].pc = "mark" /\ Free(t, loc[t].victim) /\ Taken(loc[t].victim)
  /\ Local(t, Returned(t, FALSE))
  /\ UNCHANGED <<mem, left>>

\* marked = true: the key is out of the set.
Mark(t) ==
  /\ loc[t].pc = "mark" /\ Free(t, loc[t].victim) /\ ~ Taken(loc[t].victim)
  /\ mem' = [Locked(t, loc[t].victim) EXCEPT ![loc[t].victim].marked = TRUE]
  /\ loc' = [Observed(loc[t].x) EXCEPT ![t].pc = "lock", ![t].isMarked = TRUE,
                                       ![t].level = 0, ![t].highest = -1]
  /\ UNCHANGED left

\* From the top level down to level 0.  Mutated form: the loop ends at 1.
Last_m(l) == l = 1
Last(l) == l = 0

Unlink(t) ==
  /\ loc[t].pc = "unlink"
  /\ LET l == 2 * loc[t].topLevel + 1 - loc[t].level IN
       /\ mem' = [mem EXCEPT ![loc[t].preds[l]].next[l] = mem[loc[t].victim].next[l]]
       /\ Local(t, [loc[t] EXCEPT !.level = @ + 1, !.pc = IF Last(l) THEN "unlock" ELSE @])
  /\ UNCHANGED left

-----------------------------------------------------------------------------
\* contains: found, fully linked and not marked.  Mutated form: the mark is
\* not looked at.
IsThere_m(n) == mem[n].fullyLinked
IsThere(n) == mem[n].fullyLinked /\ ~ mem[n].marked

Contains(t) ==
  /\ loc[t].pc = "found" /\ loc[t].op = "contains"
  /\ Local(t, Returned(t, loc[t].lFound # -1 /\ IsThere(Found(t))))
  /\ UNCHANGED <<mem, left>>

Thread(t) ==
  \/ Call(t) \/ Find(t)
  \/ AddFound(t) \/ AwaitLinked(t) \/ AddNotFound(t) \/ LockPred(t) \/ Retry(t)
  \/ Create(t) \/ Link(t) \/ Publish(t) \/ Unlock(t)
  \/ RemoveFound(t) \/ VictimGone(t) \/ Mark(t) \/ Unlink(t)
  \/ Contains(t)

Joined == \A t \in Threads : loc[t].pc = "idle" /\ left[t] = 0
Over == Joined /\ UNCHANGED vars

Next == (\E t \in Threads : Thread(t)) \/ Over

Spec == Init /\ [][Next]_vars

\* The operating system runs every thread, and a mutex that is free again and
\* again is given to a thread that waits for it.
FairSpec ==
  Spec /\ \A t \in Threads :
            WF_vars(Thread(t)) /\ SF_vars(LockPred(t)) /\ SF_vars(VictimGone(t) \/ Mark(t))

-----------------------------------------------------------------------------
\* Nodes are locked by threads or by nobody; a lock that is held has a depth.
TypeOK ==
  /\ \A n \in Nodes :
       /\ mem[n].key \in Keys \cup {0, Infinity}
       /\ mem[n].topLevel \in Levels \cup {-1}
       /\ mem[n].next \in [Levels -> Nodes \cup {None}]
       /\ mem[n].owner \in Threads \cup {0} /\ mem[n].depth \in Nat
       /\ (mem[n].owner = 0) = (mem[n].depth = 0)
  /\ left \in [Threads -> 0 .. Ops]

\* The set the list stands for, and the operations under way on it.  An add
\* has had its effect once the node is fully linked, a remove once it has
\* marked its victim.
Members == {x \in Keys : Member(mem, x)}
Busy ==
  [t \in Threads |->
     LET l == loc[t] IN
       [kind |-> l.op, x |-> l.x, seen |-> l.seen, ret |-> l.ret, returned |-> l.pc = "idle",
        done |-> l.isMarked \/ (l.op = "add" /\ l.pc = "unlock")]]

ConcurrentSet == INSTANCE LinearizableSet WITH members <- Members, busy <- Busy

\* Linearizability: the list implements a set whose operations take effect at
\* one moment each, whatever other operations find half done.
ImplementsSet == ConcurrentSet!Spec

\* The set is a set: no key is in it twice, so that two adds of a key succeed
\* only with a remove between them.
NoDuplicates ==
  \A m, n \in Nodes :
    mem[m].fullyLinked /\ mem[n].fullyLinked /\ ~ mem[m].marked /\ ~ mem[n].marked
      /\ mem[m].key = mem[n].key => m = n

\* Every level is sorted, and following it one reaches every member of the
\* set that is tall enough -- however far other operations have got.
RECURSIVE Reachable(_, _)
Reachable(n, l) ==
  IF n = tail THEN {} ELSE {n} \cup Reachable(mem[n].next[l], l)

LevelsAreWhole ==
  \A l \in Levels :
    LET R == Reachable(head, l) IN
      /\ \A n \in R : mem[n].key < mem[mem[n].next[l]].key
      /\ \A n \in Nodes :
           mem[n].fullyLinked /\ ~ mem[n].marked /\ mem[n].topLevel >= l => n \in R

\* A thread between operations holds no lock.
NoLockIsKept ==
  \A n \in Nodes : mem[n].owner # 0 => loc[mem[n].owner].pc # "idle"

\* The structure holds whenever it is looked at, half-done operations and all:
\* keys are unique, members are reachable, and locks belong to operations.
Safety == TypeOK /\ NoDuplicates /\ LevelsAreWhole /\ NoLockIsKept

\* Every operation returns.
AllReturn == <> Joined
=============================================================================

---------------------------- MODULE SlabAllocator ----------------------------
(***************************************************************************)
(* mymalloc and myfree of "assignment/OS 2/slab-allocator", called by the  *)
(* threads of memutil.cpp.  mymalloc holds the mutex of one bucket, myfree *)
(* takes all of them in order; what a call does under its mutexes is one   *)
(* step with their release.  A pointer is a slab and the offset in it of   *)
(* the word in front of the object.                                        *)
(***************************************************************************)
EXTENDS Integers, FiniteSets, Sequences, SequencesExt

CONSTANTS Users, Loops,    \* the threads, and how often each allocates
          Sizes,                \* bound: the sizes they ask for
          MaxObjects,           \* bound: objects in a slab, where hashTable has more
          Areas                 \* bound: the areas of 64 KB mmap may return

VARIABLES locks,                \* the holder of each bucket's mutex, or 0
          chain,                \* firstSlab and nextSlab: a bucket's slabs in order
          slab,                 \* the mapped slabs: thisBucket, freeObj, bitmap
          user, ptr, todo       \* a thread's control point, pointer, iterations

slabVars == <<locks, chain, slab, user, ptr, todo>>

\* Bytes, with pointers of eight: what mmap is asked for, sizeof(slab_t) and
\* its bitmap, in bits.
SlabBytes   == 65536
HeaderBytes == 1048
BitmapBits  == 8192
WordBytes   == 8

\* objSize and totObj of each bucket.
hashTable ==
  << <<4, 5363>>, <<8, 4022>>, <<16, 2681>>, <<32, 1609>>, <<64, 893>>, <<128, 473>>,
     <<256, 243>>, <<512, 123>>, <<1024, 62>>, <<2048, 31>>, <<4096, 15>>, <<8192, 7>> >>

objSize(b) == hashTable[b][1]
totObj(b)  == IF MaxObjects < hashTable[b][2] THEN MaxObjects ELSE hashTable[b][2]

\* The bucket of a size, counted from one; none is needed above the last.
bestFit(size) ==
  CHOOSE b \in DOMAIN hashTable :
    /\ size <= objSize(b)
    /\ \A c \in DOMAIN hashTable : size <= objSize(c) => b <= c

Buckets == {bestFit(size) : size \in Sizes}

\* Where the word of object i lies, and the object that a word belongs to.
Word(b, i)    == HeaderBytes + i * (objSize(b) + WordBytes)
offset(b, at) == (at - HeaderBytes) \div (objSize(b) + WordBytes)

-----------------------------------------------------------------------------
SlabInit ==
  /\ locks = [b \in Buckets |-> 0]
  /\ chain = [b \in Buckets |-> <<>>]
  /\ slab = <<>>
  /\ user = [u \in Users |-> [pc |-> "idle", b |-> 0]]
  /\ ptr = [u \in Users |-> <<>>]
  /\ todo = [u \in Users |-> Loops]

Mapped == DOMAIN slab
Goto(u, to, b) == user' = [user EXCEPT ![u] = [pc |-> to, b |-> b]]

\* mymalloc: the mutex of the bucket the size goes to.
LockBucket(u) ==
  /\ user[u].pc = "idle" /\ todo[u] > 0
  /\ \E size \in Sizes :
       LET b == bestFit(size) IN
       /\ locks[b] = 0
       /\ locks' = [locks EXCEPT ![b] = u]
       /\ Goto(u, "malloc", b)
  /\ UNCHANGED <<chain, slab, ptr, todo>>

\* What u gets: object i of slab s, and the mutex is released.
Give(u, s, i) ==
  /\ ptr' = [ptr EXCEPT ![u] = <<s, Word(user[u].b, i)>>]
  /\ locks' = [locks EXCEPT ![user[u].b] = 0]
  /\ Goto(u, "use", user[u].b)
  /\ UNCHANGED todo

\* The first slab of the list with a free object.  Mutated form: the counter
\* of free objects is not looked at.
HasRoom_m(s) == TRUE
HasRoom(s) == slab[s].freeObj > 0

\* Its first free object.
Allocate(u) ==
  LET b == user[u].b
      k == SelectInSeq(chain[b], HasRoom)
      s == chain[b][k]
      i == CHOOSE n \in 0 .. BitmapBits :
             n \notin slab[s].bitmap /\ \A m \in 0 .. n - 1 : m \in slab[s].bitmap
  IN  /\ user[u].pc = "malloc" /\ k # 0
      /\ slab' = [slab EXCEPT ![s].freeObj = @ - 1, ![s].bitmap = @ \cup {i}]
      /\ Give(u, s, i)
      /\ UNCHANGED chain

\* No slab, or all are full: a new one behind them, and its object 0.
MapSlab(u) ==
  LET b == user[u].b IN
  /\ user[u].pc = "malloc" /\ SelectInSeq(chain[b], HasRoom) = 0
  /\ \E s \in Areas \ Mapped :
       /\ slab' = [t \in Mapped \cup {s} |->
                     IF t # s THEN slab[t]
                     ELSE [thisBucket |-> b, freeObj |-> totObj(b) - 1, bitmap |-> {0}]]
       /\ chain' = [chain EXCEPT ![b] = Append(@, s)]
       /\ Give(u, s, 0)

\* myfree: the mutexes of all buckets, in order.
Later(b) == {c \in Buckets : c > b}
Least(S) == CHOOSE b \in S : \A c \in S : b <= c

CallFree(u) ==
  /\ user[u].pc = "use"
  /\ Goto(u, "lock", Least(Buckets))
  /\ UNCHANGED <<locks, chain, slab, ptr, todo>>

LockNext(u) ==
  LET b == user[u].b IN
  /\ user[u].pc = "lock" /\ locks[b] = 0
  /\ locks' = [locks EXCEPT ![b] = u]
  /\ IF Later(b) = {} THEN Goto(u, "free", b) ELSE Goto(u, "lock", Least(Later(b)))
  /\ UNCHANGED <<chain, slab, ptr, todo>>

\* The object's bit is cleared, or, if it is the last one, its slab is taken
\* out of the list and unmapped.  Mutated form: the slab is kept.
IsLast_m(s) == FALSE
IsLast(s) == \A i, j \in slab[s].bitmap : i = j

\* The list c without s: its predecessor, or the bucket, is linked to the next.
Unlink(c, s) ==
  [k \in 1 .. Len(c) - 1 |-> IF \E j \in 1 .. k : c[j] = s THEN c[k + 1] ELSE c[k]]

Free(u) ==
  LET s == ptr[u][1]
      b == slab[s].thisBucket
  IN  /\ user[u].pc = "free"
      /\ IF IsLast(s)
         THEN /\ slab' = [t \in Mapped \ {s} |-> slab[t]]
              /\ chain' = [chain EXCEPT ![b] = Unlink(@, s)]
         ELSE /\ slab' = [slab EXCEPT ![s].freeObj = @ + 1,
                                      ![s].bitmap = @ \ {offset(b, ptr[u][2])}]
              /\ UNCHANGED chain
      /\ locks' = [c \in Buckets |-> 0]
      /\ Goto(u, "idle", 0)
      /\ ptr' = [ptr EXCEPT ![u] = <<>>] /\ todo' = [todo EXCEPT ![u] = @ - 1]

User(u) ==
  \/ LockBucket(u) \/ Allocate(u) \/ MapSlab(u) \/ CallFree(u) \/ LockNext(u) \/ Free(u)

Joined == \A u \in Users : user[u].pc = "idle" /\ todo[u] = 0

-----------------------------------------------------------------------------
\* The objects u may use: those of the threads that have one.
Owners(s) == {u \in Users : ptr[u] # <<>> /\ ptr[u][1] = s}

\* Two threads never have the same object, and all objects lie in mapped
\* memory; the bitmap and the counter of a slab say which of its objects are
\* in use, no slab is kept without one or lost from its list.
ObjectsAreOwned ==
  /\ \A u, v \in Users : u # v /\ ptr[u] # <<>> => ptr[u] # ptr[v]
  /\ \A u \in Users : ptr[u] # <<>> => ptr[u][1] \in Mapped
  /\ \A s \in Mapped :
       LET b == slab[s].thisBucket IN
       /\ Owners(s) # {}
       /\ slab[s].bitmap \subseteq 0 .. totObj(b) - 1
       /\ slab[s].bitmap = {offset(b, ptr[u][2]) : u \in Owners(s)}
       /\ slab[s].freeObj = totObj(b) - Cardinality(slab[s].bitmap)
       /\ \E k \in DOMAIN chain[b] : chain[b][k] = s
  /\ \A b \in Buckets : \A k \in DOMAIN chain[b] : chain[b][k] \in Mapped

\* The objects of every bucket, with the words in front of them, fit into the
\* slab behind its header, and its bitmap has a bit for each.
ObjectsFit ==
  \A b \in DOMAIN hashTable :
    Word(b, hashTable[b][2]) <= SlabBytes /\ hashTable[b][2] <= BitmapBits
=============================================================================

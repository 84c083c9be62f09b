# C-codes: a verification project

The repository is one student's collection of programs. Most of them run once and
print; the ones with a core worth specifying are the concurrent and distributed ones
under `src/assignment/` (locks, registers and snapshots, concurrent sets, semaphore
programs, an allocator, schedulers, HTTP proxies, a datagram protocol) and a few long
sequential ones (an instruction-set interpreter, balanced trees and a heap). This
directory models those in TLA+, checks small instances with TLC and proves some of the
results for all instances with TLAPS. `PROJECT.json` maps each definition to the source
lines it models.

## 1. Inventory

Paths are relative to `src/assignment/`. "M" is modelled, "P" partly, "-" not.

| Part | State | Operations and interaction | What is hard | What makes it correct |
|---|---|---|---|---|
| Bakery lock, `pcp/a2/b.cpp` (M) | `flag[]`, `label[]`, `wait_time` | `Lock`, `Unlock` by n threads, k times each | decisions taken from loads made at different times; label overflow | exclusion, first come first served, every request granted |
| Filter lock, `pcp/a2/b.cpp` (M) | `level[]`, `victim[]` | same threads, run after the bakery half | the wait looks at one thread after the other and never goes back | each level holds one thread back, every request granted |
| Spin locks, `pcp/a5/b.cpp`, two programs in `OS 2/A2` (M) | one atomic flag, back-off limit, `wait_time`, `worst_time` | TAS, TTAS, back-off, CAS; main measures one after the other | stale loads before the exchange; statistics kept in plain variables | exclusion, exact statistics, main ends |
| Bounded-waiting TAS, `OS 2/A2` (M) | `waiting[]`, `lock` | a leaving thread searches for a successor and hands over | search is stale at the hand-over; double entry by hand-over and TAS | exclusion, each other thread in at most once while one waits |
| Readers and writers, `OS 2/A3`, two programs (M) | `rw_mutex`, `mtx`, `fair`, `read_count`, `wait_time` | readers, writers, semaphores | three semaphores taken in different orders; unprotected accumulator | writers alone; no overtaking and no starvation in the fair program |
| Reusable barrier, `OS 2/A4` (M) | `barr1`, `barr2`, `mtx`, `count` | n threads meet k times | a fast thread comes back while slow ones leave | nobody returns before all have called |
| Hungry tribe, `OS 2/cs16btech11038.cpp` (M) | pot, note `gg`, four semaphores, `nDone` | tribesmen eat, main cooks | note and wait are two steps; main blocks others while it joins | notes answered once, servings add up, the end is reached |
| Slab allocator, `OS 2/slab-allocator` (M) | `hashTable` of buckets, chains of slabs with bitmaps, a mutex per bucket | `mymalloc`, `myfree`, threads of `memutil.cpp` | `myfree` takes all mutexes one by one; a slab that empties while others are used | an object has one owner and lies in a mapped slab |
| EDF and RM schedulers, `OS 2/A1`, three simulations (M) | queues of processes, the clock | join, preempt, stop late ones, dispatch | ends and deadlines at one edge; the clock stepped back | deadlines are missed only if the policy must; every process counted once |
| Stop-and-wait, `networks2/tut4` (M) | sequence numbers, turn flags, socket buffers | sender and receiver over UDP | loss, damage, repeats, delay, timeouts, `sendto` errors | the file arrives in order, once; it arrives |
| SRSW, MRSW and MRMW registers, `pcp/a3/x.cpp` (P: the second measurement, with `std::atomic`, is left out) | cells with stamps, a table of cells per register, a register per thread | `read`, `write` | reads and writes overlap; two threads write the diagonal | a read is no older than what precedes it |
| Snapshots, `pcp/a4/mrmw.cpp`, `x.cpp` (M) | `a_table`, `helpsnap` | updaters, a scanner | collects race with updates; scans are borrowed | scans are atomic and end |
| Lazy skip list, `pcp/proj/LazySkipList.h` (M) | nodes with keys, marks, recursive locks | `add`, `remove`, `contains`, `find` | searches without locks; validation; partial linking | a linearizable set; no lock kept; every call returns |
| Lock-free skip list, `pcp/proj/LockFree.h` (M) | next fields with a mark | same calls with `compare_exchange_strong` | every load may be stale; upper levels lag | a linearizable set; calls return |
| Prime searches, `pcp/*.cpp`, `OS 1/A2` (M) | a shared counter with a mutex, or ranges | threads or processes, then one file | the edges of slices, numbers skipped and put in by hand | the file holds each prime once |
| HTTP downloaders, `networks2/6`, four programs (M) | a socket, the list of objects, a pool of threads on one stream | look-up, request, header, chunks, files | buf, the looked-up address and files of equal names are shared; the length comes from a header cut anywhere; `good()` is read outside the mutex | a file is the body of its object; every line fetched once |
| HTTP proxies, `networks2/7` (M) | one buf and one static address for all connection threads | accept, one request, look-up, relay | threads receive into one buffer and look hosts up into one address; clients leave or exit; a request may be cut short | the client gets what the server of its object sent, in order |
| Caching proxy, `networks2/8/cache.cpp` (M) | map of responses, visit counts, two mutexes | connection threads, SIGINT handler | an entry is reserved empty and filled later | one filler per URL, a hit is the whole response and final, visits counted |
| Trees and heap, `Data Struct/btree`, `rb`, `bheap` (M) | pointer structures | insert, delete, extract the least, find | long sequences of legal calls | order, balance, no element lost |
| Interpreter, `Comp Arch/interpreter.c` (M) | registers, memory, flags, `pc`, labels, text of the program | one instruction after the other, `.encode` | encodings, modifiers, wrap-around; state left over from the last instruction | it does what a processor does with the words it prints |
| Driver of the lists, `pcp/proj/test.cpp` (P) | | prefills, creates and joins threads | | |
| Older skip lists, `pcp/proj/lock.cpp`, `LazySkipListJemalloc.h`, `lock-free.cpp` (-) | as above | as above | as above | as above |
| Chat and RPC servers, `networks2/tut2`, `tut3`, `CNS` (-) | table of sockets | a thread per client | the table changes while it is read | everybody else gets each message |
| Parallel Karatsuba, `popl2` (-) | channels | goroutines | none beyond the recursion | the product |
| Graphs, lists, `bst.c`, array heaps, `Data Struct` (-) | pointer structures | sequential calls | | |
| Everything else (-) | exercises, contest programs, notebooks, SSL and tun samples | | | `PROJECT.json` says why each is left out |

`PROJECT.json` "hazards" lists where each of the modelled parts can go wrong in ways
a test would hardly reach, and which property would notice.

## 2. Modules

Abstract specifications, each with the few actions a caller can observe:

- `Mutex`: threads ask, enter, add to a shared total in one step, leave.
- `Barrier`: how often each thread has called and returned.
- `FileTransfer`: the written file is a growing prefix, closed only when complete.
- `LinearizableSet`: an add or remove that returns true has changed the set at one
  moment of the call; any other answer was right at some moment of the call.
- `Multiset`: what a container holds and what its last call answered.
- `RISCMachine`: a processor that decodes the word at its program counter and executes
  it, all on bits.

Detailed specifications. In the concurrent ones `pc[t]` is the point thread t has
reached, one action is one access to a shared location, one semaphore or mutex call or
one system call, and local computation between two accesses belongs to one of them.
Variables keep the names of the source; variables marked *history* in the declarations
record the past for a property and are read by no guard.

| Module | Models | State and actions |
|---|---|---|
| `BakeryLock` | `Lock`, `Unlock`, `testCS1` | `maxLabel` search load by load (`scan`), the wait as three loads (`wflag`, `wless`, `wequal`), `exit(1)` when the label is `LabelMax` (`exited`) |
| `FilterLock` | the filter half, `testCS2` | stores of `level` and `victim`, then the inner loop as loads of `level[j]` and `victim[i]` |
| `SpinLock` | TAS, TTAS, back-off, CAS programs | `kind` is the lock main measures; `TAS`, `TTAS`, `Backoff` follow one another, the two OS 2 programs run alone |
| `TestAndSetLocks` | the fair test-and-set; with `SpinLock`, see below | test, exchange, clear, search `j`, hand-over |
| `ReadersWriters` | both programs | `program` tells them apart, `endless` replaces loops of k rounds by loops without end |
| `NewBarrier` | `barrierPoint`, `bthread` | the two turnstiles step by step |
| `HungryTribe` | tribesmen and the cook in main | note, wait, answer; `nDone`; joining |
| `SlabAllocator` | `mymalloc`, `myfree`, `memutil.cpp` | `chain` of slabs by bucket, bitmaps of `slab`, the mutexes `locks`; a call takes its mutexes one by one and does the rest in the step that releases them |
| `RealTimeScheduler` | the three simulations | `policy` tells them apart; joining, running, stopping and idling are the branches of the loop |
| `PrimeSearch` | SAM1 and DAM, SAM2, sieve, trial division | `search` tells them apart; only DAM shares anything, and its mutex and counter are stepped through |
| `StopAndWait` | sender, receiver | `senderFun` and `recvFun` of each side with their flags; the two directions are sets of datagrams |
| `MRSWRegister`, `MRMWRegister` | `SRSW_Atomic`, `MRSW_Atomic`; `MRMW_Atomic` | reads of own cell and column, write-back of the row, three-step cell write; one such register per thread, the write that first reads them all |
| `Snapshot` | `update`, `snap` of both files | collects part by part, `moved`, borrowing, `helpsnap` |
| `LazySkipList`, `LockFreeSkipList` | the two lists | `mem` are the nodes, `loc[t]` the locals of the call under way |
| `HTTPTransfer` | what all HTTP programs do | look-up into the static address `addr`, connect to what is there, first chunk, length from the header, loop of chunks; `buf` and `addr` are shared as in the source, `task[f]` are the locals of thread f; a `recv` ends where buf is full at the latest; a server asked for what another one has answers with an object of its own (`Served`) |
| `HTTPProxies` | `7/1.cpp` with `getReq.cpp` and `headReq.cpp`, `7/2.cpp` | accept, one recv for the request, which may be cut before its Host line (then the search for it never ends) or continue with what a former thread left on the stack (`Stale`), relay to the client; `Left` is a client that has closed its socket or exited, `HungUp` a proxy that has; the sequential proxy with its client, the threads of the other |
| `CachingProxy` | `8/cache.cpp` | extends it by the cache, the visit counts and the handler |
| `Downloaders` | `6/a.cpp` to `d.cpp` | `prog` tells them apart; the list, the stream's position and its end; `files` by name (`NameOf`: the last part of the URL), emptied by `Open` and written from each stream's own position when the stream passes its bytes on (`Put`) |
| `BTree`, `RedBlackTree`, `BinomialHeap` | `bt.c`, `rb.c`, `bh.c` | a call at the menu is an action; of `rb.c` also an iteration of `balance` |
| `SimpleRISC` | `interpreter.c` | the texts of programs are read and assembled in `Init`; one action per kind of instruction, `.encode` with the operands it reads |

Programs that are run on their own but ask similar questions share a run. A module that
puts them together has a variable that names the program a behaviour is a run of, and
freezes the variables of the others where they would start:

| Module | Programs |
|---|---|
| `LockComparison` | `main` of `b.cpp`: filter threads, join, bakery threads; here both run, one after the other |
| `TestAndSetLocks` | the bounded-waiting lock, which is its own, and `SpinLock` |
| `OSPrograms` | `ReadersWriters`, `NewBarrier`, `HungryTribe`, `SlabAllocator`, `RealTimeScheduler`, `PrimeSearch` |
| `AtomicObjects` | `MRSWRegister`, `MRMWRegister`, `Snapshot` |
| `HTTPPrograms` | the three proxies, whose modules it extends, and the four downloaders (`DL!`); `Client[f]` is the thread at the other end of f |
| `SequentialPrograms` | `SimpleRISC`, `BTree`, `RedBlackTree`, `BinomialHeap` |

`MC*` modules give values to constants TLC cannot take from a configuration (the locks
and lists need none); that of
`SequentialPrograms` also has the interpreted programs and what the interpreter is
compared with. A definition `X_m` next to `X` is `X` with a plausible bug (a dropped
test, an off-by-one): with `X_m` in place of `X` TLC finds the property named for it in
`PROJECT.json` violated, which shows that the property can fail. Forms `X_m` that
`PROJECT.json` does not list were kept for the same use with other parts of a property.

## 3. Runs

`Safety` is the conjunction of the type invariants and the named state predicates of the
programs of a run; the properties beside it deserve a name of their own.

| Run | Bounds | States | What it shows |
|---|---|---|---|
| `lock_comparison` | 3 threads, 2 rounds, labels to 3 | 237k | both halves of b.cpp: exclusion, levels that narrow, first come first served, labels counted, refinement of `Mutex`, every request granted |
| `test_and_set` | 3 threads; 2 rounds on the bounded-waiting lock, 1 on each of five spin locks, limits 4..12, two clock readings | 204k | exclusion, bounded waiting, refinement of `Mutex`, every request granted; bounded back-off, exact totals and worst times, main ends |
| `os_programs` | 2 readers, 2 writers, 1 round or endless; barrier of 3, 3 rounds; 2 tribesmen, 3 meals, pot of 2; 3 allocator threads, sizes 4096 and 4097, 2 objects a slab, 3 areas; all pairs of tasks with t <= 3, p <= 5 and some triples; primes below 10 and 100 by 1 to 3 threads, below 1000 by 2, DAM below 10 | 58k | writers alone and counted, no overtaking, no starvation; refinement of `Barrier`; the tribe is fed and servings add up; objects owned and mapped; deadlines met when they can be; complete files of primes |
| `atomic_objects` | MRSW: 3 threads, 1 write, 1+1+1 or 2+1 reads; MRMW: 2 threads that write, then read; snapshot: 2 parts, 2+1 updates, 1 scan | 1.7M | cells off the diagonal are atomic, own writes seen, stamps grow, reads fresh; scans are tables that existed, in mrmw.cpp at one moment of the call, and end |
| `stop_and_wait` | 3 blocks, 1 failing `sendto` | 83k | refinement of `FileTransfer`; after a clean start the two ends agree and the file arrives |
| `lazy_list` | 2 threads, 2 calls each, 2 keys, 2 levels | 338k | refinement of `LinearizableSet`, structure, no lock kept, every call returns |
| `lockfree` | 2 threads, 2+1 calls, 2 keys, 2 levels | 355k | refinement of `LinearizableSet`, sorted links, removed nodes unlinked, add and remove return |
| `lockfree_spin` | as before, 1 key | violation | `contains` may wait for ever, see 6 |
| `sequential_programs` | words of 8 bits, 4 registers, a program for every kind of instruction and fault; containers: order N = 4, 4 values, 8 elements | 40k | interpreter = `RISCMachine`, printed words right, results of recursion and loop; containers refine `Multiset` and keep their shape, `balance` ends |
| `interpreter_encode` | as before | violation | `.encode` under a modifier left over, see 6 |
| `http_programs` | headers of 10, 5 and 4 bytes, the last without a length, bodies of 1, 0 and 0, buf of 10, chunks that end at 5, the end or where buf is full; 2 hosts, 2 file names; 2 connections or pool threads, of which the first's client may leave; 2 lines | 853k | what arrives is what the object's server sent; loops wait for bytes that come; files are bodies; cache entries whole, filled once and final; visits counted |
| `http_pool` | pool of 2, 2 lines | violation | a line is dropped at the end of the list, see 6 |

Why the bounds are enough for the cases that matter. Three threads give a lock a
holder, a waiter and a newcomer, and the bakery a tie that is broken against a third;
two rounds let a thread come back while others are still in; labels up to 3 reach the
overflow exit. Three threads and three rounds let the fastest thread of the barrier meet
the slowest of the round before. Three meals each and a pot of two make both tribesmen
find it empty. Sizes 4096 and 4097 are on the two sides of a bucket's edge, two objects
a slab make a slab fill up, empty and leave the middle of a chain, and the third area is
one that is mapped again. Two keys and two levels give the lists predecessors that are
removed, an upper level that lags behind the bottom, and two calls on one key; the lists
start from every set of keys main may have added before it creates the threads. Three
blocks let an old acknowledgement and a repeated block meet a new one, and two of the
blocks are equal so that writing one twice is not hidden by its content. Two updates by
one part are what a borrowed scan needs. The header of ten bytes can be cut before its
length line or fills buf, so that its response is longer than buf; the one of five can
only be whole and has no body; behind the one of four, which has no length, buf still
holds the length line of the first when that was received before (`Misled`). The object
without a length is on a host of its own, so that two connections of a proxy meet in the
static address, and shares its file name with the first. Two connections are what a
shared buffer needs; that only the first one's client leaves (`Leavers`) is a bound of the
run, and the proofs do not have it. `bt.c` has N = 6; with N = 4 eight keys make a tree of three levels, in
which merging, borrowing on both sides and a root that gives way all happen; eight
values make red-black trees of black height 3 and a heap of a tree of degree 3. Words of
8 bits are enough for every carry and sign and for modifiers that move a half. SLICE is
32 where the code has 2^17, so that a range has several slices; the sieve's rule for
multiples of 11 would need 14641 numbers and is not reached.

### Fairness

- Threads run: weak fairness for each thread's next step. Created threads are scheduled
  by the operating system, and a spin loop is a step that may repeat. For sequential
  programs it says no more than that they go on: the interpreter, and the loop in
  `balance`.
- A semaphore or mutex that becomes free again and again is finally given to a thread
  that waits for it: strong fairness for the waiting steps of `ReadersWriters`,
  `HungryTribe` and `LazySkipList`. Linux wakes waiters without promising an order, so
  this is an assumption about the library; without it the plain loops of the programs
  guarantee nothing.
- Spin locks get weak fairness only. Their `MainReturns` holds because the others' loops
  end, not because the lock is fair.
- The network finally calms down (`CalmDown`), after which what is sent again and again
  is received; that is what a transfer by repetition needs.

### Abstractions shared by several modules

- Loads and stores of single words interleave. The programs either use `seq_cst`
  atomics or put `seq_cst` fences between a store and the loads after it; where a plain
  variable is raced for (`wait_time` of the readers, next pointers of the lazy list) the
  model has separate load and store steps, as an aligned word access has on the machines
  the programs were written for. Compiler reordering of racing accesses is not modelled.
- `wait_time += x` is a load and a store; a measurement counts as 1 (or as one of
  `Measures` where the worst case matters).
- `pthread_create`, `sem_init` and allocation succeed. Printing, log files, random
  sleeps and clock arithmetic are left out.
- The one-byte checksum over a block's bytes (`checkSum`) is taken to notice all damage
  to them; headers arrive as they were sent, and the `int` sequence numbers do not wrap.
- Removed list nodes are not reused (the code never frees them).
- `atomwrapper::operator=` in `LockFree.h` returns no value; the model begins after the
  constructor that calls it. `parseReqGET` of the proxies ends without a return value
  that nobody uses.
- HTTP responses are bytes named by their place; of a header only its end and its length
  line matter. The servers are external: each has its objects, and something else in the
  place of the others'. What has been sent to a client that left is lost, or the `send`
  fails and is logged, or SIGPIPE ends the program.
- The programs have no defence against some events, and the properties of responses
  excuse the exchanges they happened to, by the history variables `whole` and `gone`:
  bytes were lost; the first chunk was shorter than the header; another thread wrote `buf`,
  or looked up another host, in between; the client left or exited; a response without
  Content-Length found a length behind its first chunk, since `buf` is not cleared before
  that `recv` (`Misled`); an answer of the cache is as good as the exchange that filled
  the entry. What a proxy delivers is compared with the object its thread has read from
  the request, stale or not. Files of the pool are excused if the name of their object ends
  several lines of the list (`Alone`).
- That a server is the right one is promised (`RightServer`, `RightProxyServer`) where
  only one thread looks hosts up, and for `c.cpp` and `d.cpp`, which keep their
  connection, with the lists of one host they are written for (their fourth lines).
- `buf` has one byte more than the programs count (`BUF_SIZE`), and all of it may be
  received (`sizeof buf`); `std::string(buf)` of a full `buf` is taken to end with it.
- The mutexes of the slab allocator are released in the step that does the call's work:
  no other thread can see the difference, because it needs the mutex to look
  (`SlabCallsExclude`, section 4).
- Processes of equal urgency: the schedulers' heaps break ties in no promised way, so the
  model chooses; equal processes may preempt one another at every tick.
- A node of the red-black tree is named by its value and a copy number; of B-tree nodes
  only the first n keys are kept.

## 4. Proofs

Six modules of theorems, one for each of the models they extend. The theorems are about
the specifications the runs check, for every value of the constants that the named
assumptions of the models admit: any number of threads, readers, tribesmen, iterations or
rounds, any actions of the registers' and snapshots' threads, any file, any inputs of the
simulations, any list, requests and lengths. The assumptions are those of the programs'
arguments (numbers of threads and iterations, `MinDelay <= MaxDelay`, a pot of
at least one serving, request sizes of 1 to 8192 bytes, at least one object a slab,
processes with a positive time and period, a finite number of readers), that readers and
writers are told apart, and of the HTTP programs that a header fits into `buf` and has its
length line before the blank line, that bodies are finite, that the host of an object
answers with that object, and that `""` is neither object nor host. The
number of connections and pool threads at once is two there, a bound of the model.

| Module | Theorem | Property of a run |
|---|---|---|
| `LockComparisonProofs` | `BakerySafety`, `BakeryFCFS`, `BakeryLabels`, `BakeryImplementsMutex` | `Safety`, `FirstComeFirstServed`, `LabelsCountAcquisitions`, `ImplementsMutex` |
| | `FilterLockSafety`, `FilterLockImplementsMutex` | `FilterSafety`, `FilterImplementsMutex` |
| | `MainRunsBakery` | a run of `main` is a run of the bakery specification |
| `TestAndSetLocksProofs` | `BoundedTASSafety`, `BoundedTASBound`, `BoundedTASImplementsMutex` | `Safety`, `BoundedWaiting`, `ImplementsMutex` |
| | `SpinLocksSafety` | `SpinSafety` |
| | `ProgramsRunBoundedTAS` | a run of the programs is a run of the bounded-waiting lock |
| `StopAndWaitProofs` | `StopAndWaitSafety`, `StopAndWaitImplementsTransfer` | `Safety`, `ImplementsTransfer` |
| `OSProgramsProofs` | `OSProgramsSafety` | `Safety`: of readers and writers, barrier, tribe, allocator and simulations |
| | `NewBarrierImplementsBarrier`, `ReadersWritersNoOvertaking` | `ImplementsBarrier`, `NoOvertaking` |
| | `SlabCallsExclude` | what justifies one step for the work of an allocator's call |
| `AtomicObjectsProofs` | `AtomicObjectsSafety` | `Safety`: of both registers and both snapshot objects |
| | `ReadsAreFreshHolds`, `ScansAreAtomicHolds` | `ReadsAreFresh`, `ScansAreAtomic` |
| `HTTPProgramsProofs` | `HTTPSafety` | `Safety`: of proxies, downloaders and the cache |
| | `CacheIsFinalHolds` | `CacheIsFinal` |

Each rests on a theorem `...Invariant`: an inductive invariant holds initially and is kept
by every action, one step of the proof for each, and implies the property. The sections
below say what the invariants add to the properties, and why.

*Bakery.* Exclusion alone is not inductive, for a thread decides from old loads. The
invariant `IInv` adds what each of them still means: a raised flag is a thread outside
its remainder (`FlagInv`); a scanning thread's maximum covers its own old label
(`ScanInv`); after the middle load of the wait, `label[idx] >= label[t]` (`EqualInv`).
The central part is `OrderInv`: if t has passed j in its wait loop then j is `Later`,
which is one of: j has not started, j is scanning and its label will exceed t's, or j
waits with a larger (label, id) pair and has not got past t. Two threads inside would
each be later than the other (lemma `Exclusion`), and the threads in `ahead` are those
that t must find later than itself, hence first come first served (`AheadInv`). The
refinement follows from exclusion and `TmpInv`: between load and store the accumulator
does not move. For `BakeryLabels` acquisitions are pairs of a thread and a count; a
label is one more than a maximum that is itself bounded by the number of pairs
(`LabelInv`), and the step that writes it adds a pair.

*Filter.* The waiting loop asks the threads one after the other and never goes back, so
the invariant speaks of the threads `Asked` so far. `VictimInv`: whoever is done at level
l with a thread u that is `Settled` there is not the victim of l, because u came later
and wrote itself, or another did. `HeldInv`: a level that holds anybody holds its victim.
If nobody stayed at level l, the last to leave it would have asked all the others, so
would not be the victim, and neither would anybody else: lemma `HoldsOneBack`. Hence at
most N - l threads past level l (`Narrows`), counted with the finite-set theorems, and
one past level N - 1.

*Spin locks.* Exclusion follows from the flag (`SpinLocal`). For the total the sections
still owed to it are counted, as pairs of a thread and an iteration: `SpinSumInv` says
that `wait_time` and the pairs together are N * SpinK, so at the end the total is exact.
`SpinWorstInv` is the same for the worst waiting time of a5: while nobody's measurement
is pending `worst_time` is the longest so far, and while somebody's is, it is missing
exactly that one.

*Bounded waiting.* A thread is a `Holder` if it is inside or has been granted the lock
but not noticed yet; there is at most one, and only while `lock` is set (`LockInv`,
`HolderInv`). The search leaves an index of a thread that still waits (`SearchInv`).
For the bound, `DistInv` says where the threads that have passed a waiting thread t are:
the lock only moves towards t in the cyclic order and its search never goes past t, so
that whoever has been in since t asked lies behind the holder and is not met again before
t (`Passed`). Hence each of them gets in at most once; a free lock means that nobody who
asks has been passed (`FreeInv`).

*Stop-and-wait.* What is under way was read from the file and has been sent before
(`DataInv`); the sender's block, number and awaited acknowledgement agree (`SenderInv`);
the receiver has a prefix of the file and acknowledges its last block, or block 0 before
it has one (`ReceiverInv`, `AcksInv`). That early acknowledgement is why the agreement of
the two ends needs a clean start: `CleanInv` says what has not happened before the first
block arrives. The prefix gives the refinement without that condition: whatever the
network does, a step either appends the next block, closes a complete file or changes
nothing the abstract transfer sees.

*Barrier.* The threads are in one of two phases, or one thread is swapping the turnstiles
and all others are blocked at the one it is about to open (`BPhaseInv`). While threads
are coming, all have departed equally often, where a thread that has left the count of
the old round is ahead of its `round`; while they leave, their rounds are equal
(`BRoundInv`). `count` is the number of threads inside (`BCountInv`).

*Readers and writers.* Who holds each semaphore is a matter of control points;
`rw_mutex` belongs to a writer or to all readers that are counted, except the first while
it still waits (`RRWInv`, `RCountInv`). In the fair program everybody on the way in holds
`fair`, whence no overtaking. The writers' sections not yet in `wait_time` are counted as
pairs; readers can only add to it (`RSumInv`).

*Tribe.* `TPotInv`: a note is the note of a tribesman who is blocked or about to be, over
an empty pot, and the answer to it finds the pot full; a tribesman who takes a serving
finds one. `TSumInv` counts meals still to be served and meals whose time is still to be
stored, as pairs.

*Simulations.* A process is a task and a start time and is in one place: not yet started,
waiting, on the CPU or over (`MApart`); the four places together hold as many as the
input has (`MCountInv`). What a process has run is bounded by its processing time and by
the time since its start (`MTimeInv`), and from that the counters printed at the end
follow for each kind of end (`MFinInv`).

*Slab allocator.* Who holds which mutexes (`SLockInv`); each thread that has an object
has a set bit of a mapped slab, and no other thread has that bit (`SPtrInv`); each set
bit has a thread, and the free counter and the chain agree with the bitmap (`SSlabInv`,
`SChainInv`). The chain has no slab twice, without which taking one out would not remove
it. `ObjectsFit` is arithmetic over the twelve sizes of `hashTable`.

*Snapshots.* A scan lies between two tables of those that existed during the call: what
it has of the old collect is no newer than one of them, what it has of the new one no
older (`NBetween`), so two equal collects are that table. For the scan that is borrowed
`NMoves` counts the updates since the scan began: a part seen to move twice began its
second update, and the scan inside it, after the call. The number of collects is bounded
because each one after the second puts another part into `moved` (`NCollects`).

*The register one thread writes.* A cell is a cell with one writer as long as nobody
else is between the load of its stamp and its store (`RCell`); that holds off the
diagonal always, and on the diagonal of a reader none of whose reads met a write. What a
thread has told others along its row it will itself read again, or more, because either
its own cell or a row another told it shows it (`ROwn`, `RRows`); that is what makes a
value that was read once, or written, known to every later read (`RFresh`), the readers
apart whose own diagonal cell a write and they both wrote.

*The register everybody writes.* Here a read counts with what it finds on its own
diagonal cell. For a reader t of register r that never met a write of r there is one
writer to that cell at any time (lemma `MOneWriter`), so its stamps grow (`MCell`) and it
shows the last write of r whenever nobody writes r, and already during a write that has
passed it (`MFresh`). Every thread is such a reader of its own register, for it never
reads that one while it writes it: hence it always finds its last write, and its stamps
grow (`MOrderInv`). The versions on the diagonal are never those of the null pointer the
constructor leaves, and what a read returns is on the diagonal or newer (`MBoundInv`).
For freshness `MOrderInv` compares the greatest stamp read so far with the write that had
ended when the action began, from the moment the action is past its register.

*HTTP programs.* The properties speak of what has been passed on at the end; the
invariant says where every byte of a response is in between. `HeaderIsIn`: after the
first chunk the first n places of `buf` are its bytes, the rest is on its way, and
nothing behind the chunk reads as a length (`NotMisled`), so that the size measured is
the size of the response (lemma `HReadHeader`: the blank line is found where the
header ends, the length line before it). From there three forms of one claim,
one for each kind of program: what has been written, what is in `buf` and what is under
way are consecutive and together the body (`LBody`, downloaders) or the response
(`PWhole`, proxies with threads). In 7/1.cpp what counts for the client is not what the
server sent but what the proxy has passed on (`QProxy`, `QClient`), a prefix of the
response even if the proxy lost the rest. All of it is claimed of threads whose history
is `whole` only: a step of another thread that writes `buf` ends the claim, and it is
this case, for every action, that each lemma about a step has beside its own. In
7/1.cpp the claim about the client also needs that neither end exited (`Rightly`,
`Finished`). That the bytes are the object's own rests on `ServerInv` and `QServer`: a
thread that is past `connect` is on the host of its object if the address was looked up
by nobody else since, or if all lines name one host. `InFile` says how much of
what was written has reached the file, whatever the stream still holds back, and `LFile`
what that becomes when it is closed; for the pool it needs `PoolUrls`, that two
threads write one file only if two lines end in its name.
The lines: whoever is between `getline` and the end of the critical section has the
mutex, and a line in hand is nobody else's and not yet fetched (`PoolLines`).
The cache: between lookup and reservation its mutex is held (`CacheLocked`); an entry has
either one thread that fills it, which the entry is empty for, or one that has, whose
`kept` it is (`CacheFilled`). That gives `OneFiller` and `CacheIsFinal`, and it is what a
hit relies on. The visits counted are those of the threads past `count`, and a thread about to
store has read the current number (`VisitInv`).

Not proved, only model-checked:

- liveness, which is out of the prover's reach;
- `DeadlinesAreMet`, which compares the simulation with a schedule found by enumeration,
  and `FilesAreComplete` of the prime searches, which needs facts of arithmetic (a
  number without a small divisor is prime) that are inductions over data;
- the two skip lists and the containers, which have `RECURSIVE` operators, and
  `SimpleRISC`, which uses `Bitwise`: the prover takes neither.

## 5. Plan

Done: `pcp`, `OS 2`, the transfer protocol, the HTTP programs of `networks2`, the
interpreter, the balanced containers; proofs about all locks, the semaphore programs, the
allocator, the simulations, the transfer, the registers, the snapshots and the HTTP
programs with the cache.

Next:

1. Proofs: the structure of the lazy list, with `Reachable` as a function.
2. The older skip lists beside the newer ones, of which they are variants.
3. `bst.c`, the array heaps and union-find with Kruskal and Prim, beside the containers.
4. The table of sockets of the chat servers; Karatsuba against multiplication.

### Not modelled

- Older skip lists, chat and RPC servers, Karatsuba, `bst.c` and the array heaps, graphs:
  planned above. Inserting an equal key into the tree of `bst.c` does not return; the
  vector of `tut3/sv_mt.cpp` keeps size 0, so that the mutex a leaving client would lock
  twice is never reached.
- `OS 2/A4`'s POSIX barrier, SSL samples, echo programs, `vpn.c`: calls of a library, no
  state of their own.
- The Collatz programs of `OS 1`: one child writes, the parent reads after it.
- Lists, sorting exercises, first programs, Cool exercises, contest programs: single
  functions with no state that outlives a call. Notebooks: numerical, no program logic.
- Of modelled programs: measurements of time and averages; `mymalloc` of more than 8192
  bytes and `myfree` of a pointer that is null or freed already, which `memutil.cpp`
  never asks for; the second half of `a3/x.cpp`; menus' printing.

## 6. What came up

- `lockfree_spin`: `contains` in `LockFree.h` spins on a marked node (line 300) until
  somebody unlinks it. `add` links the upper levels without asking whether its node has
  been marked meanwhile (lines 217-228); if the remover has finished its last `find` by
  then, nobody unlinks the node on that level, and a `contains` that meets it there
  waits for ever.
- `interpreter_encode`: line 62 of `interpreter.c` says that `encodedInst` will contain
  the encoding of an instruction. `.encode` never sets `m`, so that the operand is read
  under the modifier of the instruction executed last: after one with modifier h the
  immediate is scaled by 2^16 and added to the word (1124-1383).
- `http_pool`: a thread of `d.cpp` reads a line under the mutex and tests `good()` after
  releasing it (line 236). If another thread has hit the end of the file by then, the
  line is dropped, although every line of the list (line 52) is an object to fetch.

Met while modelling, and reflected in how the properties are stated rather than listed
as findings, because no text of the repository promises otherwise:

- In both readers/writers programs readers add to `wait_time` outside any mutex (line
  108 of the fair program) and may lose each other's additions; `WritersAreCounted` says
  what remains true.
- In the transfer, a receiver that times out before the first block sends an
  acknowledgement (recv.cpp:87) that the sender cannot tell from that of the first block
  (sender.cpp:170). The sender is then one block ahead for the rest of the transfer; the
  file written is still a prefix in order. Properties about delivery assume a clean
  start (`cleanStart`).
- A slow reader of `MRSW_Atomic` writes what it read back to its whole row, its own
  diagonal cell included (x.cpp:159), which the writer also writes. `ReadsAreFresh`
  therefore excuses a thread whose earlier read overlapped a write, and so does what is
  said of `MRMW_Atomic`, which is built on it.
- In `pcp/a4/x.cpp` the array `moved` is not initialised (line 82) and the scan borrowed
  is the old copy's (line 89): its scans may be older than the call, so that
  `ScansAreAtomic` is stated for mrmw.cpp and `ScansAreTables` for both.
- Earlier versions of the lazy list (`lock.cpp`) return to the search without unlocking
  the predecessors; `Released_m` of `LazySkipList` is that behaviour.
- The threads of `7/2.cpp`, `8/cache.cpp` and `6/d.cpp` all receive into one `buf`: of
  two connections at once each may pass on bytes of the other.
- The proof of what is delivered failed for a response without Content-Length whose first
  `recv` is shorter than what an earlier exchange left in `buf`: the proxies clear `buf`
  once and at each turn of the loop (7/2.cpp:257), not before the first `recv` (line 223), so
  that a length of the earlier response may be read as its own.
- `gethostbyname` returns one static `hostent`. Two threads of a proxy that look up
  different hosts at once may both connect to the same one (cache.cpp:285-293); the cache
  then keeps that host's answer under the other's URL for good.
- `d.cpp` names a file by the last part of a URL, or `dl_file` (lines 158-160): objects
  of one name overwrite each other, and with two threads their bytes mix.
- A proxy that gets a request without its Host line and without the blank line never
  leaves the loop that looks for them (7/1.cpp:162-177, 7/2.cpp:154-169), and one that gets
  less than a request reads on in what the stack held.
- A request that finds an empty cache entry ends the caching proxy (cache.cpp:258-261).
- The simulation in `backup edf.cpp` does not stop a process that is late; the others do.
  It prints the number of tasks as that of the processes (lines 75 and 184), the others
  count the processes; no property is about the printed total.
  The waiting time of a process stopped at its deadline counts one tick too many.
- SAM1 with one thread never finds 3: its first number is 2, the next 3, which goes to
  the test for numbers above 3 (Src-cs16btech11038.cpp:65, comment on line 32). Line 183
  of that file names `merged`, which is out of scope there: as committed it does not
  compile, and the model takes a new vector.
- Without the rotation for an inner grandchild (rb.c:60-63, `IsInner_m`) `balance` would
  not return.

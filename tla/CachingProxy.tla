---------------------------- MODULE CachingProxy ----------------------------
(***************************************************************************)
(* assignment/networks2/8/cache.cpp: the proxy of 7/2.cpp with a cache of  *)
(* responses, visit counts per host, and a SIGINT handler that reports     *)
(* them.  The first thread to ask for a URL reserves its entry; the entry  *)
(* stays empty until that thread has the whole response, and a thread that *)
(* finds it empty ends the program.                                        *)
(***************************************************************************)
EXTENDS HTTPProxies

VARIABLES cache,        \* NoEntry, or the bytes kept for a URL
          cacheMtx, visMtx,
          statsVis, seen,       \* visits per host; the count a thread has read
          report,               \* what the handler printed
          filler                \* history: the threads that stored an entry

cvars == <<cache, cacheMtx, visMtx, statsVis, seen, report, filler>>

NoEntry == <<<<"none", 0>>>>
Free    == 0               \* no thread holds the mutex

CacheInit ==
  /\ cache = [u \in Urls |-> NoEntry]
  /\ cacheMtx = Free /\ visMtx = Free
  /\ statsVis = [h \in Hosts |-> 0]
  /\ seen = [f \in Fetchers |-> 0]
  /\ report = <<>>
  /\ filler = [u \in Urls |-> {}]

parseHeader(b) == IF HasLength(b) THEN Length(b) ELSE 0

Step(f, p, q) == At(f, p) /\ Goes(f, [task[f] EXCEPT !.pc = q])
Url(f)  == task[f].url
Host(f) == HostOf[Url(f)]

\* visMtx.lock(); the count is looked up and stored; visMtx.unlock().
\* Mutated form: the mutex is left out.
LockVisits_m(f) == UNCHANGED visMtx
LockVisits(f)   == visMtx = Free /\ visMtx' = f

CountVisit(f) ==
  \/ /\ Step(f, "visit", "find") /\ LockVisits(f)
     /\ UNCHANGED <<cache, cacheMtx, statsVis, seen, report, filler>>
  \/ /\ Step(f, "find", "count") /\ seen' = [seen EXCEPT ![f] = statsVis[Host(f)]]
     /\ UNCHANGED <<cache, cacheMtx, visMtx, statsVis, report, filler>>
  \/ /\ Step(f, "count", "visited")
     /\ statsVis' = [statsVis EXCEPT ![Host(f)] = seen[f] + 1]
     /\ UNCHANGED <<cache, cacheMtx, visMtx, seen, report, filler>>
  \/ /\ Step(f, "visited", "lookup") /\ visMtx' = Free
     /\ UNCHANGED <<cache, cacheMtx, statsVis, seen, report, filler>>

\* cache.find(cacheKey) and, if it is absent, the empty entry, under cacheMtx.
\* Mutated form: the mutex is left out.
LockCache_m(f) == UNCHANGED cacheMtx
LockCache(f)   == cacheMtx = Free /\ cacheMtx' = f

Lookup(f) ==
  \/ /\ At(f, "lookup") /\ LockCache(f)
     /\ Step(f, "lookup", IF cache[Url(f)] = NoEntry THEN "reserve" ELSE "hit")
     /\ UNCHANGED <<cache, visMtx, statsVis, seen, report, filler>>
  \/ /\ Step(f, "reserve", "miss") /\ cache' = [cache EXCEPT ![Url(f)] = <<>>]
     /\ UNCHANGED <<cacheMtx, visMtx, statsVis, seen, report, filler>>
  \/ /\ Step(f, "miss", "resolve") /\ cacheMtx' = Free
     /\ UNCHANGED <<cache, visMtx, statsVis, seen, report, filler>>

\* The entry is copied and the mutex released; an empty copy ends the program,
\* another one is the answer.
Hit(f) ==
  \/ /\ At(f, "hit") /\ cacheMtx' = Free
     /\ Goes(f, [task[f] EXCEPT !.pc = "answer", !.kept = cache[Url(f)]])
     /\ UNCHANGED <<cache, visMtx, statsVis, seen, report, filler>>
  \/ /\ At(f, "answer")
     /\ IF task[f].kept = <<>> THEN Exit(f)
        ELSE \/ Goes(f, [task[f] EXCEPT !.pc = "done",
                                        !.out = IF Left(f) THEN @ ELSE task[f].kept])
             \/ Left(f) /\ Exit(f)
     /\ UNCHANGED cvars

\* std::copy(buf, buf+recvMsgSize, back_inserter(toBeCached)) after the send.
Keep(f) ==
  /\ At(f, "keep")
  /\ Goes(f, [task[f] EXCEPT !.pc = "loop", !.kept = @ \o Sent(f)])
  /\ UNCHANGED cvars

\* cache[cacheKey] = toBeCached under cacheMtx.
\* Mutated form: only the last chunk is kept.
ToBeCached_m(f) == Sent(f)
ToBeCached(f)   == task[f].kept

Store(f) ==
  \/ /\ Step(f, "store", "stored") /\ LockCache(f)
     /\ UNCHANGED <<cache, visMtx, statsVis, seen, report, filler>>
  \/ /\ Step(f, "stored", "unlock")
     /\ cache' = [cache EXCEPT ![Url(f)] = ToBeCached(f)]
     /\ filler' = [filler EXCEPT ![Url(f)] = @ \cup {f}]
     /\ UNCHANGED <<cacheMtx, visMtx, statsVis, seen, report>>
  \/ /\ Step(f, "unlock", "done") /\ cacheMtx' = Free
     /\ UNCHANGED <<cache, visMtx, statsVis, seen, report, filler>>

parseReqGET(f) ==
  /\ task[f].method = "GET"
  /\ \/ CountVisit(f) \/ Lookup(f) \/ Hit(f)
     \/ /\ Relay(f, parseHeader(Buf(f)) + getHeaderLen(Buf(f)), "keep") \/ Loop(f, "store")
        /\ UNCHANGED cvars
     \/ Keep(f) \/ Store(f)

parseReqHEAD(f) ==
  /\ task[f].method = "HEAD"
  /\ Relay(f, getHeaderLen(Buf(f)), "loop") \/ Loop(f, "done")
  /\ UNCHANGED cvars

main(f) == Accept(f) /\ UNCHANGED cvars

threadMain(f) ==
  ReadRequest(f, IF task[f].method = "GET" THEN "visit" ELSE "resolve") /\ UNCHANGED cvars

\* SIGINT: the counts are printed without visMtx, and the program exits.  In
\* the middle of an insertion the map may be unreadable.
sigIntHandler(f) ==
  /\ Home[f] \in up /\ Exit(f)
  /\ report' = statsVis \/ (visMtx # Free /\ UNCHANGED report)
  /\ UNCHANGED <<cache, cacheMtx, visMtx, statsVis, seen, filler>>

Connection(f) ==
  \/ main(f) \/ threadMain(f) \/ parseReqGET(f) \/ parseReqHEAD(f)
  \/ Leave(f) /\ UNCHANGED cvars

-----------------------------------------------------------------------------
\* The threads that have counted a visit to h.
Counted(h) == {f \in Fetchers : /\ Url(f) # "" /\ Host(f) = h /\ task[f].method = "GET"
                                /\ task[f].pc \notin {"idle", "request", "hang", "visit", "find", "count"}}

\* No visit is lost although threads count at once, and what the handler
\* prints is what had been counted when it ran.
VisitsAreCounted ==
  \A h \in Hosts :
    /\ statsVis[h] = Cardinality(Counted(h))
    /\ report # <<>> => report[h] = statsVis[h]

\* The threads that fetch a response for the entry of u.
Filling(u) == {f \in Fetchers : /\ Url(f) = u /\ task[f].method = "GET"
                                /\ task[f].pc \in {"miss", "resolve", "connect", "first", "size", "pass", "keep",
                                                   "loop", "clear", "more", "store", "stored"}}

\* A URL is fetched for the cache by one thread at most.
OneFiller == \A u \in Urls : Cardinality(Filling(u) \cup filler[u]) <= 1

\* An entry is empty only while it is being fetched, or because the exchange
\* that filled it failed; it holds the whole response if nothing went wrong.
EntriesAreResponses ==
  \A u \in Urls :
    /\ cache[u] = <<>> => \/ Filling(u) # {}
                          \/ \E f \in filler[u] : ~ task[f].whole \/ task[f].gone
    /\ cache[u] \notin {NoEntry, <<>>} =>
         \A f \in filler[u] : task[f].whole /\ ~ task[f].gone /\ u \notin NoLength
                                => cache[u] = Response("GET", u)

\* What the cache answers never changes: an entry is absent, then empty, then
\* the same for ever.
EntriesAreFinal ==
  [][\A u \in Urls : \/ cache'[u] = cache[u]
                     \/ cache[u] = NoEntry /\ cache'[u] = <<>>
                     \/ cache[u] = <<>> /\ cache'[u] # NoEntry]_cache
=============================================================================

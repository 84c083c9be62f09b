---------------------------- MODULE HTTPPrograms ----------------------------
(***************************************************************************)
(* The HTTP programs of assignment/networks2, one behaviour being a run of *)
(* one of them with its threads and, for 7/1.cpp, its client: prog says    *)
(* which.  Threads 1 and 2 are those of 7/2.cpp, 8/cache.cpp and 6/d.cpp;  *)
(* 1 is also the one of 6/a.cpp to 6/c.cpp; 4 is 7/1.cpp and 3 is getReq   *)
(* or headReq.  The proxies are the modules this one extends.              *)
(***************************************************************************)
EXTENDS CachingProxy

CONSTANTS List, Newline, NameOf         \* of Downloaders

Pool  == {1, 2}
Lists == {"a", "b", "c", "d"}

ASSUME RolesAssumption ==
  /\ Fetchers = 1 .. 4 /\ Client = [f \in Fetchers |-> IF f = 4 THEN 3 ELSE f]
  /\ Home[1] = Home[2] /\ Home[3] # Home[4]
ASSUME InputsAssumption ==
  List \in Seq(Urls) /\ \A r \in Requests : r.url \in Urls

VARIABLES prog, line, eof, mtx, files, fetched

DL == INSTANCE Downloaders

listVars == <<prog, line, eof, mtx, files, fetched>>
vars == <<tvars, listVars, cvars>>

Init ==
  /\ prog \in Lists \cup {"1", "2", "cache"}
  /\ TransferInit /\ DL!ListInit /\ CacheInit

\* The steps of thread f of the program that runs; of two connections or pool
\* threads, 1 is the one that is started first.
Started(f) == f = 2 => task[1].pc # "idle"

Thread(f) ==
  \/ /\ prog \in Lists /\ f \in (IF prog = "d" THEN Pool ELSE {1}) /\ Started(f)
     /\ DL!Download(f) /\ UNCHANGED cvars
  \/ /\ prog = "1" /\ f = 4
     /\ main1(f) \/ parseReq1(f)
     /\ UNCHANGED <<listVars, cvars>>
  \/ /\ prog = "1" /\ f = 3
     /\ Ask(f) \/ getReq(f) \/ headReq(f)
     /\ UNCHANGED <<listVars, cvars>>
  \/ /\ prog = "2" /\ f \in Pool /\ Started(f)
     /\ Connection2(f) /\ UNCHANGED <<listVars, cvars>>
  \/ prog = "cache" /\ f \in Pool /\ Started(f) /\ Connection(f) /\ UNCHANGED listVars

Interrupt == prog = "cache" /\ sigIntHandler(1) /\ UNCHANGED listVars

Runs(f) == CASE prog = "1" -> f \in {3, 4}
             [] prog \in {"2", "cache", "d"} -> f \in Pool
             [] OTHER -> f = 1
\* A thread has ended, or waits for ever: in a loop without end, for a client
\* that exited before it connected, or for a proxy that hangs.
Ended(f) ==
  \/ task[f].pc \in {"done", "hang"} \/ Home[f] \notin up
  \/ f = 4 /\ task[4].pc = "idle" /\ Home[3] \notin up
  \/ f = 3 /\ ~ Arrived(3) /\ task[4].pc = "hang"
Over == (\A f \in Fetchers : Runs(f) => Ended(f)) /\ UNCHANGED vars

Next == (\E f \in Fetchers : Thread(f)) \/ Interrupt \/ Over

Spec == Init /\ [][Next]_vars

-----------------------------------------------------------------------------
\* What a proxy sends its client, and what a client program writes, is what
\* the server sent, in order and complete when the exchange is over, unless
\* bytes were lost, the header was cut, the client left before the end, or
\* another thread wrote into buf or looked up another host meanwhile; an answer
\* from the cache is as good as the exchange that filled the entry.
Prefix(s, t) == Len(s) <= Len(t) /\ s = SubSeq(t, 1, Len(s))

Faultless(f) ==
  /\ task[f].whole /\ ~ task[f].gone /\ task[Client[f]].whole
  /\ f = Client[f] \/ Home[Client[f]] \in up
  /\ prog = "cache" => \A g \in filler[task[f].url] : task[g].whole /\ ~ task[g].gone

ResponsesArrive ==
  \A f \in Fetchers : prog \notin Lists /\ task[f].out # <<>> /\ Faultless(f) =>
    LET wanted == IF f # 3 THEN Response(task[f].method, task[f].url)
                  ELSE IF task[f].method = "GET" THEN Body(task[f].url)
                  ELSE Header(task[f].url)
    IN  /\ Prefix(task[f].out, wanted)
        /\ task[f].pc = "done" /\ task[f].url \notin NoLength => task[f].out = wanted

\* A thread that still waits for bytes waits for bytes that are on their way,
\* so its loop ends: the size it learnt is never more than the response, unless
\* bytes were lost, the header was cut, the proxy exited or buf was overwritten.
OnTheWay(f) ==
  Len(task[f].inp) + (IF f = 3 THEN Len(Response(task[3].method, task[3].url)) - Len(task[4].out) ELSE 0)

BytesAreComing ==
  \A f \in Fetchers :
    task[f].pc \in {"loop", "clear", "more"} /\ task[f].whole
      /\ (f = 3 => task[4].whole /\ (Home[4] \in up \/ task[4].pc = "done"))
      => task[f].sz - task[f].got <= OnTheWay(f)

\* The sequential proxy asks the server of the object.
RightProxyServer ==
  prog = "1" /\ task[4].pc \notin {"idle", "request", "hang", "resolve", "connect"}
    => task[4].srv = HostOf[task[4].url] \/ task[4].method \notin Methods

\* The invariants of the single programs, and those above.
Safety ==
  /\ ResponsesArrive /\ BytesAreComing
  /\ DL!LinesOnce /\ DL!InStep /\ DL!RightServer /\ DL!FilesAreBodies
  /\ RightProxyServer
  /\ prog = "cache" => VisitsAreCounted /\ OneFiller /\ EntriesAreResponses

\* What the cache answers for a URL never changes once it is there.
CacheIsFinal == EntriesAreFinal

EveryLineIsFetched == DL!EveryLineIsFetched
=============================================================================

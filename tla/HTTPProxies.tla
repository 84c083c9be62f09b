---------------------------- MODULE HTTPProxies ----------------------------
(***************************************************************************)
(* The proxies of assignment/networks2/7.  1.cpp serves one connection and *)
(* exits; its clients are getReq.cpp and headReq.cpp, which ask the proxy  *)
(* on the same machine for one object and write the body (getReq) or the   *)
(* header (headReq) to a file.  2.cpp has a detached thread per            *)
(* connection, all of them receiving into the one global buf.  What both   *)
(* have in common with 8/cache.cpp comes first: a connection is accepted,  *)
(* its request is read with one recv, and the response of the server is    *)
(* passed on to the client chunk by chunk.  An operator whose name ends in *)
(* 1 or 2 is that of 1.cpp or of 2.cpp.                                    *)
(***************************************************************************)
EXTENDS HTTPTransfer

CONSTANTS Requests,     \* what the clients may ask: [method, url]
          Client,       \* the thread that is the client of a proxy's thread,
                        \* or the thread itself when the client is external
          Leavers       \* the threads whose client may leave early: a bound

\* reqFromCl is not cleared: behind a request that is cut short there may be
\* that of a thread whose stack this one has got.
Stale(f) ==
  {task[g].url : g \in {h \in Fetchers \ {f} : Home[h] = Home[f] /\ task[h].pc = "done"}}

\* accept: a client's connection, or -1, which makes the first recv fail; url
\* is what the thread will read.
Accept(f) ==
  /\ At(f, "idle")
  /\ \/ \E r \in Requests : \E u \in {r.url} \cup Stale(f) :
          Goes(f, [task[f] EXCEPT !.pc = "request", !.method = r.method, !.url = u])
     \/ Exit(f)

\* The recv of threadMain.  It fails, the client closed without a request and
\* string::at throws, or the request is there; parseReq looks at its first
\* letter and does nothing for the other methods.  The search for the Host
\* line has no end if the request was cut before it.
ReadRequest(f, first) ==
  /\ At(f, "request")
  /\ \/ Goes(f, [task[f] EXCEPT !.pc = IF task[f].method \in Methods THEN first ELSE "done"])
     \/ task[f].method \in Methods /\ Goes(f, [task[f] EXCEPT !.pc = "hang"])
     \/ Exit(f)

\* An external client closes its connection.
Leave(f) ==
  /\ f \in Leavers /\ Home[f] \in up /\ task[f].pc \notin {"idle", "done"}
  /\ Client[f] = f /\ ~ task[f].gone
  /\ Goes(f, [task[f] EXCEPT !.gone = TRUE])

\* The client has closed its socket, or has exited.
Left(f) ==
  \/ task[f].gone
  \/ Client[f] # f /\ (task[Client[f]].pc = "done" \/ Home[Client[f]] \notin up)

Sent(f) == SubSeq(Buf(f), 1, task[f].n)

\* send(clSock, buf, recvMsgSize, 0).  To a client that has left, the bytes
\* are lost, or the call fails and is only logged, or SIGPIPE ends the program.
SendOn(f, next) ==
  /\ At(f, "pass")
  /\ \/ /\ ~ Left(f)
        /\ task' = [g \in Fetchers |->
                      CASE g = f -> [task[f] EXCEPT !.pc = next, !.out = @ \o Sent(f)]
                        [] g # f /\ g = Client[f] -> [task[g] EXCEPT !.inp = @ \o Sent(f)]
                        [] OTHER -> task[g]]
        /\ UNCHANGED <<buf, addr, up>>
     \/ Left(f) /\ Goes(f, [task[f] EXCEPT !.pc = next])
     \/ Left(f) /\ Goes(f, [task[f] EXCEPT !.pc = "loop"])
     \/ Left(f) /\ Exit(f)

\* The exchange with the server; size is the program's idea of the length of
\* the response, and next what follows a successful send.
Relay(f, size, next) ==
  Resolve(f) \/ Connect(f, "first") \/ FirstChunk(f) \/ Measure(f, size, "pass") \/ SendOn(f, next)

-----------------------------------------------------------------------------
(* 1.cpp: one connection.                                                   *)

\* A response without Content-Length ends the program.
parseHeader1(b) == Length(b)
NoContentLength(f) ==
  At(f, "size") /\ task[f].method = "GET" /\ ~ HasLength(Buf(f)) /\ Exit(f)

parseReqGET1(f) ==
  /\ task[f].method = "GET"
  /\ \/ NoContentLength(f)
     \/ /\ At(f, "size") => HasLength(Buf(f))
        /\ Relay(f, parseHeader1(Buf(f)) + getHeaderLen(Buf(f)), "loop")
     \/ Loop(f, "close")

parseReqHEAD1(f) ==
  /\ task[f].method = "HEAD"
  /\ Relay(f, getHeaderLen(Buf(f)), "loop") \/ Loop(f, "close")

parseReq1(f) == parseReqGET1(f) \/ parseReqHEAD1(f)

\* The client of the connection is one of the programs below: its request
\* arrives once it has connected and sent it.
main1(f) ==
  \/ /\ At(f, "idle") /\ task[Client[f]].pc = "first"
     /\ \/ Goes(f, [task[f] EXCEPT !.pc = "request", !.method = task[Client[f]].method,
                                   !.url = task[Client[f]].url])
        \/ Exit(f)
  \/ ReadRequest(f, "resolve")
  \/ At(f, "close") /\ task' = [task EXCEPT ![f].pc = "done"]
                    /\ up' = up \ {Home[f]} /\ UNCHANGED <<buf, addr>>

-----------------------------------------------------------------------------
(* getReq and headReq: c is the program.                                   *)

\* The request is sent to the proxy instead of to the server; the host is
\* looked up all the same, and a call that fails ends the program.
Ask(c) ==
  /\ At(c, "idle")
  /\ \/ \E r \in Requests :
          /\ r.method \in Methods
          /\ Goes(c, [task[c] EXCEPT !.pc = "first", !.method = r.method, !.url = r.url])
     \/ Exit(c)

\* The proxy's end of the connection is closed: it served it, or is gone.
Proxy(c) == CHOOSE f \in Fetchers : Client[f] = c /\ f # c
HungUp(c) == task[Proxy(c)].pc = "done" \/ Home[Proxy(c)] \notin up

\* recv blocks until the proxy has sent something or hung up.
Arrived(c) == task[c].pc \in {"first", "more"} => task[c].inp # <<>> \/ HungUp(c)

\* sz, gotSize and the bytes of the first chunk that go to the file.
\* Mutated form: the length of the header is taken off the first chunk only.
Rest_m(t) == t.sz
Rest(t)   == t.sz - t.hdr

GetFirst(c) ==
  LET h == getHeaderLen(Buf(c)) IN
  /\ At(c, "size") /\ task[c].method = "GET"
  /\ IF ~ HasLength(Buf(c)) \/ task[c].n < h    \* exit(1); memcpy of a negative size
     THEN Exit(c)
     ELSE LET t == [task[c] EXCEPT !.sz = Length(Buf(c)) + h, !.hdr = h]
          IN  Goes(c, [t EXCEPT !.pc = "loop", !.sz = Rest(t), !.got = t.n - h,
                                !.out = SubSeq(Buf(c), h + 1, t.n)])

\* headReq keeps headerlen bytes of buf, clears the rest, and writes as many
\* bytes as it received.
HeadFirst(c) ==
  LET h == getHeaderLen(Buf(c)) IN
  /\ At(c, "size") /\ task[c].method = "HEAD"
  /\ Goes(c, [task[c] EXCEPT !.pc = "loop", !.sz = h, !.got = task[c].n,
                !.out = [i \in 1 .. task[c].n |-> IF i <= h THEN Buf(c)[i] ELSE Zero]])

\* oFile.write(buf, recvMsgSize)
Write(c) ==
  At(c, "pass") /\ Goes(c, [task[c] EXCEPT !.pc = "loop", !.out = @ \o Sent(c)])

Receive(c) == Arrived(c) /\ (FirstChunk(c) \/ NextChunk(c))
Repeat(c)  == Again(c) \/ Clear(c) \/ Enough(c, "done")

getReq(c)  == task[c].method = "GET"  /\ (Receive(c) \/ GetFirst(c) \/ Write(c) \/ Repeat(c))
headReq(c) == task[c].method = "HEAD" /\ (Receive(c) \/ HeadFirst(c) \/ Write(c) \/ Repeat(c))

-----------------------------------------------------------------------------
(* 2.cpp: a thread per connection.                                          *)

\* A response without Content-Length counts as having no body.
parseHeader2(b) == IF HasLength(b) THEN Length(b) ELSE 0

parseReqGET2(f) ==
  /\ task[f].method = "GET"
  /\ \/ Relay(f, parseHeader2(Buf(f)) + getHeaderLen(Buf(f)), "loop")
     \/ Loop(f, "done")

\* Only the header is waited for.
parseReqHEAD2(f) ==
  /\ task[f].method = "HEAD"
  /\ Relay(f, getHeaderLen(Buf(f)), "loop") \/ Loop(f, "done")

threadMain2(f) == ReadRequest(f, "resolve")
parseReq2(f)   == parseReqGET2(f) \/ parseReqHEAD2(f)
main2(f)       == Accept(f)

Connection2(f) == main2(f) \/ threadMain2(f) \/ parseReq2(f) \/ Leave(f)
=============================================================================

---------------------------- MODULE HTTPTransfer ----------------------------
(***************************************************************************)
(* One HTTP exchange as the programs of assignment/networks2/6, 7 and 8    *)
(* carry it out: look up the host, connect, send the request, receive the  *)
(* first chunk of the response into buf, learn the size of the response    *)
(* from the header in buf, and receive and pass on chunks until that many  *)
(* bytes have come.  A program's threads share buf, a global array, and    *)
(* the address gethostbyname returns, which is static.                     *)
(*                                                                         *)
(* A response is a sequence of bytes <<url, i>>: HeaderLen[url] of them    *)
(* are the header, LengthAt[url] ends its Content-Length line, the rest is *)
(* the body.  The servers and the network are external: a server asked for *)
(* what another one has answers with an object of its own; a response      *)
(* comes whole, or its rest is lost; and a recv returns any chunk that     *)
(* ends at one of the positions Cuts (a bound), at the end of what has     *)
(* arrived, or where buf is full.                                          *)
(***************************************************************************)
EXTENDS Integers, Sequences, FiniteSetsExt

CONSTANTS Fetchers,             \* the threads that may carry out an exchange
          Home,                 \* the program each of them belongs to
          Urls, BodyLen,        \* the objects and the lengths of their bodies
          NoLength,             \* those sent without a Content-Length
          HeaderLen, LengthAt,  \* of each object
          HostOf, Served,       \* its host, and what each host has in its place
          Cuts, BufSize

Hosts == {HostOf[u] : u \in Urls}

\* "" stands for no object and no host; a header fits into buf.
ASSUME UrlsAssumption == "" \notin Urls /\ "" \notin Hosts
ASSUME LengthsAssumption ==
  /\ BufSize \in Nat /\ BodyLen \in [Urls -> Nat] /\ HeaderLen \in [Urls -> 4 .. BufSize]
  /\ \A u \in Urls \ NoLength : LengthAt[u] \in 1 .. HeaderLen[u] - 4
ASSUME ServedAssumption ==
  Served \in [Hosts -> [Urls -> Urls]] /\ \A u \in Urls : Served[HostOf[u]][u] = u

VARIABLES buf,                  \* the receive buffer of each program
          addr,                 \* the host gethostbyname looked up last in it
          task,                 \* what each thread is doing, and its locals
          up                    \* the programs that have not exited

tvars == <<buf, addr, task, up>>

Programs == {Home[f] : f \in Fetchers}
Methods  == {"GET", "HEAD"}
Zero     == <<"", 0>>

\* What a server answers.
Response(m, u) ==
  [i \in 1 .. HeaderLen[u] + (IF m = "HEAD" THEN 0 ELSE BodyLen[u]) |-> <<u, i>>]
Header(u) == Response("HEAD", u)
Body(u)   == [i \in 1 .. BodyLen[u] |-> <<u, HeaderLen[u] + i>>]

-----------------------------------------------------------------------------
\* std::string(buf): the bytes before the first zero.
Text(b) ==
  LET zeros == {i \in 1 .. BufSize : b[i] = Zero}
  IN  SubSeq(b, 1, IF zeros = {} THEN BufSize ELSE Min(zeros) - 1)

\* r.find("Content-Length") and the number that follows it.
LengthLines(b) == {i \in 1 .. Len(Text(b)) : b[i][1] \notin NoLength /\ b[i][2] = LengthAt[b[i][1]]}
HasLength(b)   == LengthLines(b) # {}
Length(b)      == BodyLen[b[Min(LengthLines(b))][1]]

\* r.find("\r\n\r\n") + 4, which is 3 when there is no such text.
\* Mutated form: the last byte of the blank line is not counted.
HeaderEnds(b) ==
  {i \in 4 .. Len(Text(b)) : \A k \in 0 .. 3 : b[i - k] = <<b[i][1], HeaderLen[b[i][1]] - k>>}
getHeaderLen_m(b) == IF HeaderEnds(b) = {} THEN 3 ELSE Min(HeaderEnds(b)) - 1
getHeaderLen(b)   == IF HeaderEnds(b) = {} THEN 3 ELSE Min(HeaderEnds(b))

-----------------------------------------------------------------------------
Idle == [pc |-> "idle", url |-> "", method |-> "GET",
         inp |-> <<>>,          \* sent to this thread and not yet received
         n |-> 0, sz |-> 0, hdr |-> 0, got |-> 0, bufD |-> <<>>,
         out |-> <<>>,          \* passed on: to the client, or to oFile
         put |-> 0,             \* how much of it has left oFile's own buffer
         kept |-> <<>>,         \* toBeCached
         gone |-> FALSE,        \* the client at the other end has left
         con |-> FALSE,         \* conFlag: mySocket is connected
         srv |-> "",            \* the host it is connected to
         whole |-> TRUE]        \* history: the right host was asked, one chunk
                                \* brought the header, no bytes were lost,
                                \* nobody else's were read

TransferInit ==
  /\ buf = [h \in Programs |-> [i \in 1 .. BufSize |-> Zero]]
  /\ addr = [h \in Programs |-> ""]
  /\ task = [f \in Fetchers |-> Idle]
  /\ up = Programs

At(f, p) == Home[f] \in up /\ task[f].pc = p
Buf(f)   == buf[Home[f]]

\* A thread relies on buf from its first recv to the end of its loop.
Relies(f) == task[f].pc \in {"size", "hdr", "copy", "clear1", "back", "write1",
                             "pass", "keep", "loop", "clear", "more"}
Others(f) == {g \in Fetchers \ {f} : Home[g] = Home[f] /\ Relies(g)}

\* Thread f goes on as t; nobody's buffer changes.
Goes(f, t) == task' = [task EXCEPT ![f] = t] /\ UNCHANGED <<buf, addr, up>>

\* Thread f goes on as t and the buffer of its program becomes b.
Writes(f, t, b) ==
  /\ task' = [g \in Fetchers |-> CASE g = f -> t
                                   [] g \in Others(f) -> [task[g] EXCEPT !.whole = FALSE]
                                   [] OTHER -> task[g]]
  /\ buf' = [buf EXCEPT ![Home[f]] = b]
  /\ UNCHANGED <<addr, up>>

\* exit(1), an uncaught exception or a fatal signal: every thread is gone.
Exit(f) == up' = up \ {Home[f]} /\ UNCHANGED <<buf, addr, task>>

\* he = gethostbyname(...): the address in the static hostent is that of the
\* object's host, or the program exits.
Resolve(f) ==
  /\ At(f, "resolve")
  /\ \/ /\ addr' = [addr EXCEPT ![Home[f]] = HostOf[task[f].url]]
        /\ task' = [task EXCEPT ![f].pc = "connect"]
        /\ UNCHANGED <<buf, up>>
     \/ Exit(f)

\* The address is read from there; socket, connect and send all work, or the
\* program exits.  The server's response is on its way.
Connect(f, next) ==
  LET host == IF task[f].con THEN task[f].srv ELSE addr[Home[f]]
  IN  /\ At(f, "connect")
      /\ \/ /\ host \in Hosts
            /\ Goes(f, [task[f] EXCEPT
                          !.pc = next, !.srv = host, !.whole = @ /\ host = HostOf[task[f].url],
                          !.inp = @ \o Response(task[f].method, Served[host][task[f].url])])
         \/ Exit(f)

\* The connection breaks: what has not been received will not come.
Lose(f) ==
  /\ Home[f] \in up /\ task[f].pc \in {"first", "more"} /\ task[f].inp # <<>>
  /\ Goes(f, [task[f] EXCEPT !.inp = <<>>, !.whole = FALSE])

\* recv(mySocket, buf, ...) of a chunk, of the end of the stream, or failing.
Chunks(f) ==
  {k \in 1 .. Len(task[f].inp) :
     k <= BufSize /\ (k \in {Len(task[f].inp), BufSize} \/ task[f].inp[k][2] \in Cuts)}

Received(f, k) ==
  [i \in 1 .. BufSize |-> IF i <= k THEN task[f].inp[i] ELSE Buf(f)[i]]

\* buf is not cleared before the first recv: behind a chunk of k bytes there
\* may be a Content-Length line, and this response has none.
Misled(f, k) ==
  task[f].url \in NoLength /\ \E i \in LengthLines(Received(f, k)) : i > k

FirstChunk(f) ==
  /\ At(f, "first")
  /\ \/ \E k \in Chunks(f) :
          Writes(f, [task[f] EXCEPT !.pc = "size", !.n = k, !.inp = SubSeq(@, k + 1, Len(@)),
                                    !.whole = @ /\ k >= HeaderLen[task[f].url] /\ ~ Misled(f, k)],
                 Received(f, k))
     \/ /\ task[f].inp = <<>>
        /\ Goes(f, [task[f] EXCEPT !.pc = "size", !.n = 0, !.whole = FALSE])
     \/ Exit(f)

\* Mutated form: the bytes of a chunk are not added up.
Count_m(t, k) == k
Count(t, k)   == t.got + k

NextChunk(f) ==
  /\ At(f, "more")
  /\ \/ \E k \in Chunks(f) :
          Writes(f, [task[f] EXCEPT !.pc = "pass", !.n = k, !.inp = SubSeq(@, k + 1, Len(@)),
                                    !.got = Count(task[f], k)], Received(f, k))
     \/ task[f].inp = <<>> /\ Goes(f, [task[f] EXCEPT !.pc = "pass", !.n = 0])
     \/ Exit(f)

\* int sz = ...; s is the size the program computes from buf.
Measure(f, s, next) ==
  At(f, "size") /\ Goes(f, [task[f] EXCEPT !.pc = next, !.sz = s, !.got = task[f].n])

\* while(gotSize < sz), and bzero(buf, BUF_SIZE+1) at the top of its body.
Again(f) ==
  /\ At(f, "loop") /\ task[f].got < task[f].sz
  /\ Goes(f, [task[f] EXCEPT !.pc = "clear"])

Clear(f) ==
  /\ At(f, "clear")
  /\ Writes(f, [task[f] EXCEPT !.pc = "more"], [i \in 1 .. BufSize |-> Zero])

Enough(f, next) ==
  /\ At(f, "loop") /\ task[f].got >= task[f].sz
  /\ Goes(f, [task[f] EXCEPT !.pc = next])

Loop(f, next) == Again(f) \/ Clear(f) \/ NextChunk(f) \/ Lose(f) \/ Enough(f, next)
=============================================================================

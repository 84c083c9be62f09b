------------------------- MODULE HTTPProgramsProofs -------------------------
(***************************************************************************)
(* The HTTP programs of assignment/networks2, for every set of objects and *)
(* headers, every list and every request: what is delivered, written or    *)
(* cached is what the server sent, unless the history of a thread says     *)
(* that something went wrong.                                              *)
(***************************************************************************)
EXTENDS HTTPPrograms, FiniteSetTheorems, WellFoundedInduction, TLAPS

-----------------------------------------------------------------------------
(* The bytes of an object from position c + 1 on, in a sequence, and in    *)
(* the first n places of a buffer; and how many bytes the answer to t has. *)

Byte == (Urls \X (Nat \ {0})) \cup {Zero}

Span(s, u, c)     == \A i \in 1 .. Len(s) : s[i] = <<u, c + i>>
Holds(b, u, c, n) == \A i \in 1 .. n : b[i] = <<u, c + i>>
Size(t) == HeaderLen[t.url] + (IF t.method = "HEAD" THEN 0 ELSE BodyLen[t.url])

-----------------------------------------------------------------------------
(* Types, and which threads run.                                           *)

Points == {"idle", "next", "line", "lock", "getline", "advance", "unlock", "good", "done", "hang",
           "request", "visit", "find", "count", "visited", "lookup", "reserve", "miss", "hit",
           "answer", "resolve", "connect", "open", "first", "size", "hdr", "copy", "clear1", "back", "write1",
           "pass", "keep", "loop", "clear", "more", "close", "store", "stored"}
AnyMethod == Methods \cup {r.method : r \in Requests}

Tasks == [pc : Points, url : Urls \cup {""}, method : AnyMethod, inp : Seq(Byte),
          n : Nat, sz : Int, hdr : Nat, got : Int, bufD : Seq(Byte), out : Seq(Byte),
          put : Nat, kept : Seq(Byte), gone : BOOLEAN, con : BOOLEAN,
          srv : Hosts \cup {""}, whole : BOOLEAN]

\* Where a thread may not have an object yet.
Between == {"idle", "next", "line", "lock", "getline", "advance", "unlock", "good"}

Placed(t) ==
  /\ t.pc \notin Between \cup {"done"} => t.url \in Urls
  /\ t.pc \in {"size", "hdr", "copy", "write1", "pass", "keep"} => t.n <= BufSize
  /\ t.pc \in {"clear1", "back"} => Len(t.bufD) <= BufSize

HTaskOK ==
  /\ buf \in [Programs -> [1 .. BufSize -> Byte]] /\ addr \in [Programs -> Hosts \cup {""}]
  /\ task \in [Fetchers -> Tasks] /\ \A f \in Fetchers : Placed(task[f])

HTypeOK ==
  /\ prog \in Lists \cup {"1", "2", "cache"} /\ HTaskOK
  /\ line \in Nat \ {0} /\ eof \in BOOLEAN /\ fetched \in Seq(Nat)
  /\ files \in [DL!Names -> Seq(Byte)]
  /\ cache \in [Urls -> Seq(Byte) \cup {NoEntry}]
  /\ filler \in [Urls -> SUBSET Pool]
  /\ statsVis \in [Hosts -> Nat] /\ seen \in [Fetchers -> Nat]

HRoles == \A f \in Fetchers : ~ Runs(f) => task[f] = Idle

-----------------------------------------------------------------------------
(* The exchange as far as proxies and downloaders have it in common: the   *)
(* response is on its way, or one chunk of it is in buf.                   *)

OnItsWay(t) == Len(t.inp) = Size(t) /\ Span(t.inp, t.url, 0)

HeaderIsIn(t, b) ==
  /\ HeaderLen[t.url] <= t.n /\ t.n + Len(t.inp) = Size(t)
  /\ Span(t.inp, t.url, t.n) /\ Holds(b, t.url, 0, t.n)

\* Nothing behind the chunk reads as a Content-Length.
NotMisled(t, b) == t.url \in NoLength => \A i \in LengthLines(b) : i <= t.n

-----------------------------------------------------------------------------
(* The downloaders.                                                        *)

\* The body: what is in the file, in buf and on its way is all of it.
LBody(t, b) ==
  /\ t.sz = BodyLen[t.url] /\ t.got + Len(t.inp) = t.sz
  /\ Span(t.inp, t.url, HeaderLen[t.url] + t.got) /\ Span(t.out, t.url, HeaderLen[t.url])
  /\ IF t.pc = "pass"
     THEN Len(t.out) + t.n = t.got /\ Holds(b, t.url, HeaderLen[t.url] + Len(t.out), t.n)
     ELSE Len(t.out) = t.got

LWhole(t, b) ==
  /\ t.pc \in {"resolve", "connect"} => t.inp = <<>>
  /\ t.pc \in {"open", "first"} => OnItsWay(t)
  /\ t.pc \in {"size", "hdr", "copy"} => HeaderIsIn(t, b)
  /\ t.pc = "size" => NotMisled(t, b)
  /\ t.pc \in {"hdr", "copy", "clear1", "back", "write1"} => t.sz = Size(t)
  /\ t.pc \in {"copy", "clear1", "back", "write1"} => t.hdr = HeaderLen[t.url]
  /\ t.pc \in {"clear1", "back"} =>
       /\ HeaderLen[t.url] + Len(t.bufD) + Len(t.inp) = Size(t)
       /\ Span(t.bufD, t.url, HeaderLen[t.url]) /\ Span(t.inp, t.url, HeaderLen[t.url] + Len(t.bufD))
  /\ t.pc = "write1" =>
       /\ HeaderLen[t.url] + t.n + Len(t.inp) = Size(t)
       /\ Holds(b, t.url, HeaderLen[t.url], t.n) /\ Span(t.inp, t.url, HeaderLen[t.url] + t.n)
  /\ t.pc \in {"loop", "clear", "more", "pass", "close"} => LBody(t, b)
  /\ t.pc = "close" => t.got >= t.sz

\* Between two objects nothing is left over.
Unwritten == {"resolve", "connect", "open", "first", "size", "hdr", "copy", "clear1", "back", "write1"}
LTask(t, b) ==
  /\ t.method = "GET"
  /\ t.pc \in Between /\ (t.whole \/ ~ t.con) => t.inp = <<>>
  /\ t.pc \in Unwritten => t.out = <<>> /\ t.put = 0
  /\ t.whole => LWhole(t, b)

\* A file of its own holds what its thread has passed on to it, and in the end
\* the body.
Writing  == {"first", "size", "hdr", "copy", "clear1", "back", "write1", "loop", "clear", "more",
             "pass", "close"}
InFile(t) == files[NameOf[t.url]] = SubSeq(t.out, 1, t.put) /\ t.put <= Len(t.out)
LFile(t) ==
  t.url # "" /\ (prog = "d" => DL!Alone(t.url)) =>
    /\ t.pc \in Between \cup {"done"} /\ t.whole => files[NameOf[t.url]] = Body(t.url)
    /\ t.pc \in Writing => InFile(t)

ListInv == prog \in Lists => \A f \in Fetchers : LTask(task[f], Buf(f)) /\ LFile(task[f])

\* One thread takes the lines in order, or the only one there is.
InOrder ==
  /\ \A i \in DOMAIN fetched : fetched[i] = i
  /\ prog \in {"b", "c"} => Len(fetched) = line - 1
  /\ prog = "a" => line = 1 /\ (task[1].pc = "idle" => fetched = <<>>)
                   /\ Len(fetched) <= 1
  /\ prog \notin Lists => fetched = <<>>

\* The pool: a line that is in hand is nobody else's, and not fetched.
InHand(t) == t.pc \in {"unlock", "good"} /\ ~ eof

PoolLines ==
  /\ \A f \in Pool :
       /\ task[f].pc \in {"getline", "advance", "unlock"} => mtx = f
       /\ task[f].pc = "advance" => task[f].n = line
       /\ InHand(task[f]) => /\ task[f].n \in 1 .. Len(List) /\ task[f].n < line
                             /\ \A i \in DOMAIN fetched : fetched[i] # task[f].n
  /\ \A f, g \in Pool : f # g /\ InHand(task[f]) /\ InHand(task[g]) => task[f].n # task[g].n
  /\ \A i \in DOMAIN fetched : fetched[i] \in 1 .. Len(List) /\ fetched[i] < line
  /\ \A i, k \in DOMAIN fetched : i # k => fetched[i] # fetched[k]

\* The object of a thread is that of a line that was fetched; two threads write
\* the same file only if two lines end in its name.
PoolUrls ==
  /\ \A f \in Pool : task[f].url # "" =>
       \E i \in DOMAIN fetched : List[fetched[i]] = task[f].url
  /\ \A f, g \in Pool : f # g /\ task[f].url # "" /\ task[g].url # "" /\ DL!Alone(task[f].url)
                          => NameOf[task[g].url] # NameOf[task[f].url]

LineInv == IF prog = "d" THEN PoolLines /\ PoolUrls ELSE InOrder

\* The servers: a.cpp and b.cpp ask the host they have just looked up; all the
\* lines of c.cpp and d.cpp name one host, and the address is never another's.
Listed(h) == \E k \in DOMAIN List : h = HostOf[List[k]]

Addresses(t, a) ==
  /\ prog \in {"a", "b"} => ~ t.con /\ (t.pc = "connect" => a = HostOf[t.url])
  /\ prog \in {"c", "d"} => /\ t.url # "" => Listed(HostOf[t.url])
                            /\ a # "" => Listed(a)
                            /\ t.srv # "" => Listed(t.srv)

Named(t) == t.url # "" /\ t.pc \notin {"resolve", "connect"} => t.srv = HostOf[t.url]

ServerInv ==
  prog \in Lists => \A f \in Fetchers :
    /\ Addresses(task[f], addr[Home[f]])
    /\ (prog \in {"c", "d"} => DL!OneHost) => Named(task[f])

-----------------------------------------------------------------------------
(* The proxies with a thread per connection.                               *)

Early == {"idle", "request", "visit", "find", "count", "visited", "lookup", "reserve",
          "miss", "resolve", "connect", "hang"}
Passing == {"pass", "keep", "loop", "clear", "more", "store", "stored", "unlock"}
Caches(t) == prog = "cache" /\ t.method = "GET"

\* What a client that stayed has got, and what is kept, are the first m bytes.
Complete(s, t, m) == Len(s) = m /\ Span(s, t.url, 0)

PWhole(t, b) ==
  /\ t.pc = "first" => OnItsWay(t)
  /\ t.pc = "size" => HeaderIsIn(t, b) /\ NotMisled(t, b)
  /\ t.pc \in Passing =>
       /\ HeaderLen[t.url] <= t.sz /\ t.sz <= Size(t) /\ (t.url \notin NoLength => t.sz = Size(t))
       /\ t.got + Len(t.inp) = Size(t) /\ Span(t.inp, t.url, t.got)
       /\ t.pc \in {"pass", "keep"} => Holds(b, t.url, t.got - t.n, t.n)
       /\ ~ t.gone =>
            /\ Complete(t.out, t, IF t.pc = "pass" THEN t.got - t.n ELSE t.got)
            /\ Caches(t) =>
                 Complete(t.kept, t, IF t.pc \in {"pass", "keep"} THEN t.got - t.n ELSE t.got)
       /\ t.pc \in {"store", "stored", "unlock"} => t.got >= t.sz

PTask(t, b) ==
  /\ t.pc \notin {"line", "next", "lock", "getline", "advance", "good", "open",
                  "hdr", "copy", "clear1", "back", "write1", "close"}
  /\ t.pc # "idle" => t.url \in Urls
  /\ t.pc \in Early => t.inp = <<>> /\ t.kept = <<>>
  /\ t.pc \in Early \cup {"hit", "answer", "first", "size"} => t.out = <<>>
  /\ t.pc \in {"first", "size"} => t.kept = <<>>
  /\ t.pc \notin {"idle", "request", "done"} => t.method \in Methods
  /\ t.whole => PWhole(t, b)

\* All of a response, or its header when its length was not known.
Response2(s, t) ==
  /\ Span(s, t.url, 0) /\ HeaderLen[t.url] <= Len(s) /\ Len(s) <= Size(t)
  /\ t.url \notin NoLength => Len(s) = Size(t)

Trusted(u) == prog = "cache" => \A g \in filler[u] : task[g].whole /\ ~ task[g].gone

PDone(t) ==
  t.pc = "done" /\ t.whole /\ ~ t.gone /\ t.out # <<>> /\ Trusted(t.url) => Response2(t.out, t)

ProxyInv ==
  prog \in {"2", "cache"} => \A f \in Fetchers : PTask(task[f], Buf(f)) /\ PDone(task[f])

\* The cache: under the mutex, filled by one thread, and what it has kept.
CacheLocked ==
  \A f \in Fetchers :
    /\ task[f].pc \in {"reserve", "miss", "hit", "stored", "unlock"} => cacheMtx = f
    /\ task[f].pc \in {"visit", "find", "count", "visited", "lookup", "reserve", "miss", "hit",
                       "answer", "keep", "store", "stored", "unlock"} => task[f].method = "GET"
    /\ task[f].pc = "reserve" => cache[Url(f)] = NoEntry
    /\ task[f].pc = "hit" => cache[Url(f)] # NoEntry
    /\ task[f].pc = "answer" /\ task[f].kept # <<>> => cache[Url(f)] = task[f].kept

CacheFilled ==
  \A u \in Urls :
    /\ \A f \in Filling(u) : cache[u] = <<>> /\ filler[u] = {}
    /\ \A f, g \in Filling(u) : f = g
    /\ \A f \in filler[u] :
         /\ Url(f) = u /\ task[f].method = "GET" /\ task[f].pc \in {"unlock", "done"}
         /\ cache[u] = task[f].kept /\ filler[u] = {f}
         /\ task[f].whole /\ ~ task[f].gone => Response2(task[f].kept, task[f])
    /\ cache[u] # NoEntry => Filling(u) # {} \/ filler[u] # {}

CacheInv == prog = "cache" => CacheLocked /\ CacheFilled

\* The counts: under the other mutex.
VisitInv ==
  prog = "cache" =>
    /\ \A f \in Fetchers :
         /\ task[f].pc \in {"find", "count", "visited"} => visMtx = f
         /\ task[f].pc = "count" => seen[f] = statsVis[Host(f)]
    /\ \A h \in Hosts : statsVis[h] = Cardinality(Counted(h))
    /\ report # <<>> => report = statsVis /\ Home[1] \notin up

-----------------------------------------------------------------------------
(* 7/1.cpp, thread 4, and its client, thread 3: what the client has had is *)
(* what the proxy has sent, and that is the beginning of the response.     *)

QPair(p, c) ==
  /\ ~ p.gone /\ ~ c.gone /\ p.pc \notin Between \ {"idle"}
  /\ c.pc \in {"idle", "first", "size", "pass", "loop", "clear", "more", "done"}
  /\ c.pc # "idle" => c.method \in Methods /\ c.url \in Urls
  /\ IF p.pc = "idle" THEN p.out = <<>> /\ p.inp = <<>>
                      ELSE c.pc # "idle" /\ p.url = c.url /\ p.method = c.method
  /\ p.pc \in {"request", "hang", "resolve", "connect"} => p.out = <<>> /\ p.inp = <<>>
  /\ Span(p.out, p.url, 0) /\ (p.pc # "idle" => Len(p.out) <= Size(p))
  /\ c.pc = "idle" => c.inp = <<>> /\ c.out = <<>>

QPassing == {"pass", "loop", "clear", "more", "close"}

\* p is the proxy; ended, its client has finished or exited; rightly, it has
\* finished and all went well for it.
QProxy(p, b, ended, rightly) ==
  /\ p.pc = "first" =>
       /\ Len(p.inp) <= Size(p) /\ Span(p.inp, p.url, 0) /\ p.out = <<>>
       /\ p.whole => Len(p.inp) = Size(p)
  /\ p.pc = "size" =>
       /\ p.n + Len(p.inp) <= Size(p) /\ Span(p.inp, p.url, p.n) /\ p.out = <<>>
       /\ Holds(b, p.url, 0, p.n)
       /\ p.whole => HeaderIsIn(p, b) /\ NotMisled(p, b)
  /\ p.pc \in QPassing =>
       /\ p.got + Len(p.inp) <= Size(p) /\ Span(p.inp, p.url, p.got)
       /\ p.whole => p.sz = Size(p) /\ p.got + Len(p.inp) = Size(p)
       /\ p.pc = "pass" => Holds(b, p.url, p.got - p.n, p.n)
       /\ ~ ended => Len(p.out) = IF p.pc = "pass" THEN p.got - p.n ELSE p.got
  /\ p.pc \in {"close", "done"} /\ p.whole /\ (rightly \/ ~ ended) => Len(p.out) = Size(p)

\* Where the part of the response begins that the client writes.
Skipped(c) == IF c.method = "GET" THEN HeaderLen[c.url] ELSE 0

\* c is the client, m what it was sent so far.
QClient(c, b, m) ==
  /\ c.pc = "first" => Len(c.inp) = m /\ Span(c.inp, c.url, 0)
  /\ c.pc = "size" =>
       /\ c.n + Len(c.inp) = m /\ Span(c.inp, c.url, c.n) /\ Holds(b, c.url, 0, c.n)
       /\ c.whole => HeaderLen[c.url] <= c.n /\ NotMisled(c, b)
  /\ c.pc \in {"first", "size"} => c.out = <<>>
  /\ c.whole /\ c.pc \in {"pass", "loop", "clear", "more", "done"} =>
       /\ Skipped(c) + c.sz = Size(c) /\ Skipped(c) + c.got + Len(c.inp) = m
       /\ Span(c.out, c.url, Skipped(c)) /\ Span(c.inp, c.url, Skipped(c) + c.got)
       /\ IF c.pc = "pass"
          THEN Len(c.out) + c.n = c.got /\ Holds(b, c.url, Skipped(c) + Len(c.out), c.n)
          ELSE Len(c.out) = c.got
       /\ c.pc = "done" => c.got >= c.sz

\* The proxy asks the server of the object.
QServer(p, a) ==
  /\ ~ p.con /\ (p.pc = "connect" => a = HostOf[p.url])
  /\ p.pc \notin {"idle", "request", "hang", "resolve", "connect"} /\ p.method \in Methods
       => p.srv = HostOf[p.url]

Finished == task[3].pc = "done" \/ Home[3] \notin up
Rightly  == task[3].whole /\ Home[3] \in up

OneInv ==
  prog = "1" =>
    /\ QPair(task[4], task[3]) /\ QServer(task[4], addr[Home[4]])
    /\ QProxy(task[4], Buf(4), Finished, Rightly)
    /\ task[4].pc = "idle" => task[3].inp = <<>>
    /\ QClient(task[3], Buf(3), Len(task[4].out))

HInv == /\ HTypeOK /\ HRoles /\ ListInv /\ LineInv /\ ServerInv
        /\ ProxyInv /\ CacheInv /\ VisitInv /\ OneInv

-----------------------------------------------------------------------------
(* Numbers, sequences and the text of a buffer.                            *)

\* Threads, programs and clients.
LEMMA HConstants ==
  /\ Fetchers = {1, 2, 3, 4} /\ Pool = {1, 2} /\ Pool \subseteq Fetchers
  /\ Client[1] = 1 /\ Client[2] = 2 /\ Client[3] = 3 /\ Client[4] = 3
  /\ Home[1] = Home[2] /\ Home[3] # Home[4]
  /\ \A f \in Fetchers : Home[f] \in Programs
<1>1. Fetchers = {1, 2, 3, 4}
  BY RolesAssumption
<1>. QED
  BY <1>1, RolesAssumption DEF Pool, Programs

\* The lengths of headers, bodies and buffer.
LEMMA HLengths ==
  /\ BufSize \in Nat
  /\ \A u \in Urls : /\ BodyLen[u] \in Nat /\ HeaderLen[u] \in Nat
                      /\ 4 <= HeaderLen[u] /\ HeaderLen[u] <= BufSize
  /\ \A u \in Urls \ NoLength :
       LengthAt[u] \in Nat /\ 1 <= LengthAt[u] /\ LengthAt[u] + 4 <= HeaderLen[u]
  BY LengthsAssumption

\* A response has a header.
LEMMA HSizes ==
  ASSUME NEW t \in Tasks, t.url \in Urls
  PROVE  /\ Size(t) \in Nat /\ HeaderLen[t.url] <= Size(t) /\ HeaderLen[t.url] \in Nat
         /\ t.method = "HEAD" => Size(t) = HeaderLen[t.url]
         /\ t.method # "HEAD" => Size(t) = HeaderLen[t.url] + BodyLen[t.url]
  BY HLengths DEF Size

\* The zero byte is not a byte of an object.
LEMMA HZero ==
  /\ Zero \in Byte /\ \A u \in Urls, i \in Nat : i > 0 => <<u, i>> \in Byte /\ <<u, i>> # Zero
  /\ \A b \in Byte : b # Zero => b[1] \in Urls /\ b[2] \in Nat
<1>1. \A u \in Urls, i \in Nat : i > 0 => <<u, i>> \in Urls \X (Nat \ {0})
  OBVIOUS
<1>2. ASSUME NEW u \in Urls, NEW i \in Nat, i > 0 PROVE <<u, i>> # <<"", 0>>
  <2>1. <<u, i>>[2] = i /\ <<"", 0>>[2] = 0
    OBVIOUS
  <2>2. i # 0
    BY <1>2
  <2>. QED
    BY <2>1, <2>2, Zenon
<1>3. \A b \in Urls \X (Nat \ {0}) : b[1] \in Urls /\ b[2] \in Nat
  OBVIOUS
<1>. QED
  BY <1>1, <1>2, <1>3, Zenon DEF Zero, Byte

\* What a server answers is the bytes of the object from the first on.
LEMMA HResponse ==
  ASSUME NEW t \in Tasks, t.url \in Urls
  PROVE  LET r == Response(t.method, t.url)
         IN  /\ r \in Seq(Byte) /\ Len(r) = Size(t) /\ Span(r, t.url, 0)
<1>. DEFINE r == Response(t.method, t.url)
<1>1. Size(t) \in Nat /\ Size(t) = HeaderLen[t.url] + (IF t.method = "HEAD" THEN 0 ELSE BodyLen[t.url])
  BY HSizes DEF Size
<1>2. r = [i \in 1 .. Size(t) |-> <<t.url, i>>]
  BY DEF Response, Size
<1>3. \A i \in 1 .. Size(t) : <<t.url, i>> \in Byte /\ 0 + i = i
  BY <1>1, HZero
<1>. HIDE DEF r
<1>4. r \in Seq(Byte) /\ Len(r) = Size(t) /\ \A i \in 1 .. Size(t) : r[i] = <<t.url, i>>
  BY <1>1, <1>2, <1>3
<1>5. Span(r, t.url, 0)
  BY <1>4, <1>3 DEF Span
<1>. QED
  BY <1>4, <1>5 DEF r

\* The empty sequence, and how to know it by its length.
LEMMA HEmpty ==
  /\ <<>> \in Seq(Byte) /\ Len(<<>>) = 0 /\ \A u, c : Span(<<>>, u, c)
  /\ \A s \in Seq(Byte) : Len(s) \in Nat /\ (Len(s) = 0 <=> s = <<>>)
<1>1. <<>> \in Seq(Byte) /\ Len(<<>>) = 0
  OBVIOUS
<1>2. \A u, c : Span(<<>>, u, c)
  BY <1>1 DEF Span
<1>3. \A s \in Seq(Byte) : Len(s) \in Nat /\ (Len(s) = 0 <=> s = <<>>)
  OBVIOUS
<1>. QED
  BY <1>1, <1>2, <1>3

\* The parts of a sequence of bytes.
LEMMA HCut ==
  ASSUME NEW s \in Seq(Byte), NEW k \in 1 .. Len(s)
  PROVE  /\ SubSeq(s, k + 1, Len(s)) \in Seq(Byte)
         /\ Len(SubSeq(s, k + 1, Len(s))) = Len(s) - k
         /\ \A i \in 1 .. Len(s) - k : SubSeq(s, k + 1, Len(s))[i] = s[k + i]
  OBVIOUS

\* What remains after a chunk was taken off the front continues it.
LEMMA HSpanCut ==
  ASSUME NEW s \in Seq(Byte), NEW u, NEW c \in Int, Span(s, u, c), NEW k \in 1 .. Len(s)
  PROVE  Span(SubSeq(s, k + 1, Len(s)), u, c + k)
<1>. DEFINE r == SubSeq(s, k + 1, Len(s))
<1>1. Len(r) = Len(s) - k /\ \A i \in 1 .. Len(s) - k : r[i] = s[k + i]
  BY HCut
<1>. HIDE DEF r
<1>2. ASSUME NEW i \in 1 .. Len(r) PROVE r[i] = <<u, c + k + i>>
  <2>1. k + i \in 1 .. Len(s) /\ i \in 1 .. Len(s) - k
    BY <1>1
  <2>2. s[k + i] = <<u, c + (k + i)>>
    BY <2>1 DEF Span
  <2>3. c + (k + i) = c + k + i
    OBVIOUS
  <2>. QED
    BY <1>1, <2>1, <2>2, <2>3
<1>3. Span(r, u, c + k)
  BY <1>2 DEF Span
<1>. QED
  BY <1>3 DEF r

\* Two pieces, the second of which continues the first, are one piece.
LEMMA HSpanCat ==
  ASSUME NEW s \in Seq(Byte), NEW r \in Seq(Byte), NEW u, NEW c \in Int, NEW d \in Int,
         Span(s, u, c), Span(r, u, d), d = c + Len(s)
  PROVE  /\ s \o r \in Seq(Byte) /\ Len(s \o r) = Len(s) + Len(r)
         /\ Span(s \o r, u, c)
<1>1. /\ s \o r \in Seq(Byte) /\ Len(s \o r) = Len(s) + Len(r)
      /\ \A i \in 1 .. Len(s) + Len(r) :
           (s \o r)[i] = IF i <= Len(s) THEN s[i] ELSE r[i - Len(s)]
  OBVIOUS
<1>2. ASSUME NEW i \in 1 .. Len(s) + Len(r) PROVE (s \o r)[i] = <<u, c + i>>
  <2>1. CASE i <= Len(s)
    BY <1>1, <2>1 DEF Span
  <2>2. CASE i > Len(s)
    <3>1. i - Len(s) \in 1 .. Len(r) /\ d + (i - Len(s)) = c + i
      BY <2>2
    <3>2. r[i - Len(s)] = <<u, d + (i - Len(s))>>
      BY <3>1 DEF Span
    <3>. QED
      BY <1>1, <2>2, <3>1, <3>2
  <2>. QED
    BY <2>1, <2>2
<1>. QED
  BY <1>1, <1>2 DEF Span

\* The bytes from place a to place z of a buffer.
LEMMA HPart ==
  ASSUME NEW b \in [1 .. BufSize -> Byte], NEW a \in Nat, NEW z \in Nat, a <= z, z <= BufSize
  PROVE  /\ SubSeq(b, a + 1, z) \in Seq(Byte) /\ Len(SubSeq(b, a + 1, z)) = z - a
         /\ \A i \in 1 .. z - a : SubSeq(b, a + 1, z)[i] = b[a + i]
<1>1. BufSize \in Nat
  BY HLengths
<1>2. b \in Seq(Byte) /\ Len(b) = BufSize
  BY <1>1
<1>. QED
  BY <1>1, <1>2

\* A part of a buffer that holds the beginning of a response.
LEMMA HPartSpan ==
  ASSUME NEW b \in [1 .. BufSize -> Byte], NEW a \in Nat, NEW z \in Nat, a <= z, z <= BufSize,
         NEW u, NEW c \in Int, Holds(b, u, c, z)
  PROVE  Span(SubSeq(b, a + 1, z), u, c + a)
<1>. DEFINE s == SubSeq(b, a + 1, z)
<1>1. Len(s) = z - a /\ \A i \in 1 .. z - a : s[i] = b[a + i]
  BY HPart
<1>. HIDE DEF s
<1>2. ASSUME NEW i \in 1 .. Len(s) PROVE s[i] = <<u, c + a + i>>
  <2>1. a + i \in 1 .. z /\ c + (a + i) = c + a + i /\ i \in 1 .. z - a
    BY <1>1
  <2>. QED
    BY <1>1, <2>1 DEF Holds
<1>3. Span(s, u, c + a)
  BY <1>2 DEF Span
<1>. QED
  BY <1>3 DEF s

\* Bytes of one object from one position on are known by their number.
LEMMA HSame ==
  ASSUME NEW s \in Seq(Byte), NEW r \in Seq(Byte), NEW u, NEW c \in Int,
         Span(s, u, c), Span(r, u, c), Len(s) <= Len(r)
  PROVE  /\ s = SubSeq(r, 1, Len(s)) /\ (Len(s) = Len(r) => s = r)
<1>1. \A i \in 1 .. Len(s) : i \in 1 .. Len(r)
  OBVIOUS
<1>2. \A i \in 1 .. Len(s) : s[i] = r[i]
  BY <1>1 DEF Span
<1>. QED
  BY <1>2

\* A nonempty set of numbers has a least one.
LEMMA HMin ==
  ASSUME NEW S, S \subseteq Nat, S # {}
  PROVE  Min(S) \in S /\ \A y \in S : Min(S) <= y
<1>. DEFINE R == OpToRel(<, Nat)
<1>1. \E x \in S : \A y \in S : ~ (<<y, x>> \in R)
  BY NatLessThanWellFounded, WFMin, Zenon
<1>2. \A x, y \in Nat : y < x => <<y, x>> \in R
  BY DEF OpToRel
<1>. HIDE DEF R
<1>3. PICK x \in S : \A y \in S : ~ (<<y, x>> \in R)
  BY <1>1
<1>4. ASSUME NEW y \in S PROVE x <= y
  <2>1. x \in Nat /\ y \in Nat
    OBVIOUS
  <2>2. ~ (y < x)
    BY <1>2, <1>3, <2>1
  <2>. QED
    BY <2>1, <2>2
<1>. QED
  BY <1>4 DEF Min

\* The text in a buffer ends before the first zero.
LEMMA HText ==
  ASSUME NEW b \in [1 .. BufSize -> Byte]
  PROVE  /\ Len(Text(b)) \in 0 .. BufSize
         /\ \A i \in 1 .. Len(Text(b)) : b[i] # Zero
         /\ \A n \in 0 .. BufSize : (\A i \in 1 .. n : b[i] # Zero) => n <= Len(Text(b))
<1>. DEFINE zeros == {i \in 1 .. BufSize : b[i] = Zero}
<1>. DEFINE m == IF zeros = {} THEN BufSize ELSE Min(zeros) - 1
<1>0. BufSize \in Nat
  BY HLengths
<1>1. zeros \subseteq 1 .. BufSize /\ zeros \subseteq Nat
  BY <1>0
<1>2. zeros # {} => Min(zeros) \in zeros /\ \A y \in zeros : Min(zeros) <= y
  BY <1>1, HMin
<1>3. m \in 0 .. BufSize
  BY <1>0, <1>1, <1>2
<1>4. Text(b) = SubSeq(b, 1, m)
  BY DEF Text
<1>5. b \in Seq(Byte) /\ Len(b) = BufSize
  BY <1>0
<1>6. Len(Text(b)) = m
  <2>. HIDE DEF m
  <2>. QED
    BY <1>0, <1>3, <1>4, <1>5
<1>7. \A i \in 1 .. m : b[i] # Zero
  <2>. SUFFICES ASSUME NEW i \in 1 .. m, b[i] = Zero PROVE FALSE
    OBVIOUS
  <2>1. i \in 1 .. BufSize
    BY <1>0, <1>3
  <2>2. i \in zeros
    BY <2>1
  <2>. QED
    BY <1>0, <1>2, <2>2, <1>1
<1>8. ASSUME NEW n \in 0 .. BufSize, \A i \in 1 .. n : b[i] # Zero PROVE n <= m
  <2>1. CASE zeros = {}
    BY <1>0, <2>1
  <2>2. CASE zeros # {}
    <3>1. Min(zeros) \in 1 .. BufSize /\ b[Min(zeros)] = Zero
      BY <1>2, <2>2
    <3>2. ~ (Min(zeros) <= n)
      <4>. HIDE DEF zeros
      <4>. QED
        BY <1>0, <1>8, <3>1
    <3>. QED
      BY <1>0, <2>2, <3>1, <3>2
  <2>. QED
    BY <2>1, <2>2
<1>. QED
  BY <1>3, <1>6, <1>7, <1>8

\* What the programs read from any buffer are numbers.
LEMMA HReadTypes ==
  ASSUME NEW b \in [1 .. BufSize -> Byte]
  PROVE  getHeaderLen(b) \in Nat /\ (HasLength(b) => Length(b) \in Nat)
<1>1. Len(Text(b)) \in 0 .. BufSize /\ BufSize \in Nat
  BY HText, HLengths
<1>2. getHeaderLen(b) \in Nat
  <2>1. HeaderEnds(b) \subseteq Nat
    BY <1>1 DEF HeaderEnds
  <2>2. HeaderEnds(b) # {} => Min(HeaderEnds(b)) \in Nat
    BY <2>1, HMin
  <2>. QED
    BY <2>2 DEF getHeaderLen
<1>3. ASSUME HasLength(b) PROVE Length(b) \in Nat
  <2>. DEFINE i == Min(LengthLines(b))
  <2>1. LengthLines(b) \subseteq 1 .. Len(Text(b)) /\ LengthLines(b) \subseteq Nat
    BY <1>1 DEF LengthLines
  <2>2. i \in 1 .. Len(Text(b))
    BY <1>3, <2>1, HMin DEF HasLength
  <2>. HIDE DEF i
  <2>3. i \in 1 .. BufSize
    BY <1>1, <2>2
  <2>4. b[i] \in Byte /\ b[i] # Zero
    BY <2>2, <2>3, HText
  <2>5. BodyLen[b[i][1]] \in Nat
    BY <2>4, HZero, HLengths
  <2>. QED
    BY <2>5 DEF Length, i
<1>. QED
  BY <1>2, <1>3

\* With the whole header at the beginning of buf they read what it says.
LEMMA HReadHeader ==
  ASSUME NEW b \in [1 .. BufSize -> Byte], NEW n \in Nat, NEW u \in Urls,
         HeaderLen[u] <= n, n <= BufSize, Holds(b, u, 0, n)
  PROVE  /\ getHeaderLen(b) = HeaderLen[u]
         /\ u \notin NoLength => HasLength(b) /\ Length(b) = BodyLen[u]
         /\ u \in NoLength /\ (\A i \in LengthLines(b) : i <= n) => ~ HasLength(b)
<1>0. /\ BufSize \in Nat /\ HeaderLen[u] \in Nat
      /\ 4 <= HeaderLen[u] /\ HeaderLen[u] <= BufSize
  BY HLengths
<1>1. \A i \in 1 .. n : b[i] = <<u, i>>
  BY DEF Holds
<1>2. \A i \in 1 .. n : b[i][1] = u /\ b[i][2] = i /\ b[i] # Zero
  <2>. TAKE i \in 1 .. n
  <2>1. b[i] = <<u, i>> /\ i \in Nat /\ i > 0
    BY <1>1
  <2>2. <<u, i>> # Zero
    BY <2>1, HZero
  <2>3. <<u, i>>[1] = u /\ <<u, i>>[2] = i
    OBVIOUS
  <2>. QED
    BY <2>1, <2>2, <2>3
<1>3. Len(Text(b)) \in n .. BufSize
  <2>1. n \in 0 .. BufSize
    BY <1>0
  <2>. QED
    BY <1>2, <2>1, HText, <1>0
<1>4. getHeaderLen(b) = HeaderLen[u]
  <2>1. \A k \in 0 .. 3 : b[HeaderLen[u] - k] = <<b[HeaderLen[u]][1], HeaderLen[u] - k>>
    <3>. TAKE k \in 0 .. 3
    <3>1. HeaderLen[u] - k \in 1 .. n /\ HeaderLen[u] \in 1 .. n
      BY <1>0
    <3>. QED
      BY <3>1, <1>1, <1>2
  <2>2. HeaderLen[u] \in 4 .. Len(Text(b))
    BY <1>0, <1>3
  <2>3. HeaderLen[u] \in HeaderEnds(b)
    <3>1. b[HeaderLen[u]][1] = u
      BY <1>0, <1>2
    <3>. QED
      BY <2>1, <2>2, <3>1 DEF HeaderEnds
  <2>4. ASSUME NEW i \in HeaderEnds(b) PROVE HeaderLen[u] <= i
    <3>1. i \in 4 .. Len(Text(b)) /\ b[i - 0] = <<b[i][1], HeaderLen[b[i][1]] - 0>>
      BY DEF HeaderEnds
    <3>2. CASE i \in 1 .. n
      <4>1. b[i][1] = u /\ b[i][2] = i /\ i - 0 = i
        BY <3>1, <3>2, <1>2
      <4>2. b[i][2] = HeaderLen[u] - 0
        BY <3>1, <4>1
      <4>. QED
        BY <4>1, <4>2, <1>0
    <3>3. CASE i \notin 1 .. n
      BY <3>1, <3>3, <1>0, <1>3
    <3>. QED
      BY <3>2, <3>3
  <2>5. HeaderEnds(b) \subseteq Nat
    BY <1>3, <1>0 DEF HeaderEnds
  <2>6. Min(HeaderEnds(b)) \in HeaderEnds(b) /\ Min(HeaderEnds(b)) <= HeaderLen[u]
    BY <2>3, <2>5, HMin
  <2>7. Min(HeaderEnds(b)) = HeaderLen[u]
    BY <2>4, <2>5, <2>6, <1>0
  <2>. QED
    BY <2>3, <2>7 DEF getHeaderLen
<1>5. ASSUME u \notin NoLength PROVE HasLength(b) /\ Length(b) = BodyLen[u]
  <2>0. LengthAt[u] \in Nat /\ 1 <= LengthAt[u] /\ LengthAt[u] + 4 <= HeaderLen[u]
    BY <1>5, HLengths
  <2>1. LengthAt[u] \in 1 .. n /\ LengthAt[u] \in 1 .. Len(Text(b))
    BY <2>0, <1>0, <1>3
  <2>2. LengthAt[u] \in LengthLines(b)
    BY <2>1, <1>2, <1>5 DEF LengthLines
  <2>3. LengthLines(b) \subseteq Nat /\ \A i \in LengthLines(b) : i >= 1
    BY <1>3, <1>0 DEF LengthLines
  <2>4. \A i \in LengthLines(b) : i <= LengthAt[u] => i \in 1 .. n
    BY <2>1, <2>3, <1>0
  <2>5. Min(LengthLines(b)) \in LengthLines(b) /\ Min(LengthLines(b)) <= LengthAt[u]
    BY <2>2, <2>3, HMin
  <2>6. b[Min(LengthLines(b))][1] = u
    BY <2>4, <2>5, <1>2
  <2>. QED
    BY <2>2, <2>6 DEF HasLength, Length
<1>6. ASSUME u \in NoLength, \A i \in LengthLines(b) : i <= n PROVE ~ HasLength(b)
  <2>1. ASSUME NEW i \in LengthLines(b) PROVE FALSE
    <3>1. i \in 1 .. Len(Text(b)) /\ i <= n /\ b[i][1] \notin NoLength
      BY <1>6 DEF LengthLines
    <3>. QED
      BY <3>1, <1>2, <1>6, <1>3, <1>0
  <2>. QED
    BY <2>1 DEF HasLength
<1>. QED
  BY <1>4, <1>5, <1>6
-----------------------------------------------------------------------------
(* The steps of an exchange.                                               *)

\* What a step of another thread may do to g.
Undisturbed(g) == task'[g] = task[g] /\ (Relies(g) => buf'[Home[g]] = buf[Home[g]])
Disturbed(g)   == Relies(g) /\ task'[g] = [task[g] EXCEPT !.whole = FALSE]
OthersStay(f)  == \A g \in Fetchers \ {f} : Undisturbed(g) \/ Disturbed(g)

\* A step that leaves the buffers alone.
LEMMA HGoes ==
  ASSUME HTaskOK, NEW f \in Fetchers, NEW t, Goes(f, t)
  PROVE  /\ task'[f] = t /\ buf' = buf /\ addr' = addr /\ up' = up
         /\ \A g \in Fetchers \ {f} : task'[g] = task[g]
         /\ OthersStay(f)
         /\ t \in Tasks /\ Placed(t) => HTaskOK'
<1>1. task' = [task EXCEPT ![f] = t] /\ buf' = buf /\ addr' = addr /\ up' = up
  BY DEF Goes
<1>2. task'[f] = t /\ \A g \in Fetchers \ {f} : task'[g] = task[g]
  BY <1>1, Zenon DEF HTaskOK
<1>3. OthersStay(f)
  BY <1>1, <1>2 DEF OthersStay, Undisturbed
<1>4. ASSUME t \in Tasks, Placed(t) PROVE HTaskOK'
  BY <1>1, <1>2, <1>4, Zenon DEF HTaskOK
<1>. QED
  BY <1>1, <1>2, <1>3, <1>4

\* A step that writes into its program's buffer.
LEMMA HWrites ==
  ASSUME HTaskOK, NEW f \in Fetchers, NEW t, NEW b, Writes(f, t, b)
  PROVE  /\ task'[f] = t /\ buf'[Home[f]] = b /\ addr' = addr /\ up' = up
         /\ \A h \in Programs \ {Home[f]} : buf'[h] = buf[h]
         /\ \A g \in Fetchers \ {f} :
              task'[g] = IF g \in Others(f) THEN [task[g] EXCEPT !.whole = FALSE] ELSE task[g]
         /\ OthersStay(f)
         /\ t \in Tasks /\ Placed(t) /\ b \in [1 .. BufSize -> Byte] => HTaskOK'
<1>0. \A g \in Fetchers : Home[g] \in Programs
  BY HConstants
<1>1. /\ task' = [g \in Fetchers |-> CASE g = f -> t
                                   [] g \in Others(f) -> [task[g] EXCEPT !.whole = FALSE]
                                   [] OTHER -> task[g]]
      /\ buf' = [buf EXCEPT ![Home[f]] = b] /\ addr' = addr /\ up' = up
  BY DEF Writes
<1>2. f \notin Others(f)
  BY DEF Others
<1>3. /\ task'[f] = t
      /\ \A g \in Fetchers \ {f} :
           task'[g] = IF g \in Others(f) THEN [task[g] EXCEPT !.whole = FALSE] ELSE task[g]
  BY <1>1, <1>2
<1>4. buf'[Home[f]] = b /\ \A h \in Programs \ {Home[f]} : buf'[h] = buf[h]
  BY <1>0, <1>1, Zenon DEF HTaskOK
<1>5. OthersStay(f)
  <2>. SUFFICES ASSUME NEW g \in Fetchers \ {f} PROVE Undisturbed(g) \/ Disturbed(g)
    BY DEF OthersStay
  <2>1. CASE g \in Others(f)
    BY <1>3, <2>1 DEF Disturbed, Others
  <2>2. CASE g \notin Others(f)
    BY <1>0, <1>3, <1>4, <2>2 DEF Undisturbed, Others
  <2>. QED
    BY <2>1, <2>2
<1>6. ASSUME t \in Tasks, Placed(t), b \in [1 .. BufSize -> Byte] PROVE HTaskOK'
  <2>1. \A g \in Fetchers : task'[g] \in Tasks /\ Placed(task'[g])
    <3>. TAKE g \in Fetchers
    <3>1. CASE g = f
      BY <1>3, <1>6, <3>1
    <3>2. CASE g # f
      <4>1. task[g] \in Tasks /\ Placed(task[g])
        BY Zenon DEF HTaskOK
      <4>2. task'[g] = [task[g] EXCEPT !.whole = FALSE] \/ task'[g] = task[g]
        BY <1>3, <3>2
      <4>. DEFINE e == task[g]
                  u == [e EXCEPT !.whole = FALSE]
      <4>. HIDE DEF e
      <4>3. e \in Tasks => u \in Tasks
        BY Zenon DEF Tasks
      <4>4. e \in Tasks => u.pc = e.pc /\ u.url = e.url /\ u.n = e.n /\ u.bufD = e.bufD
        BY Zenon DEF Tasks
      <4>5. e \in Tasks /\ Placed(e) => Placed(u)
        BY <4>4 DEF Placed
      <4>. QED
        BY <4>1, <4>2, <4>3, <4>5 DEF e
    <3>. QED
      BY <3>1, <3>2
  <2>2. task' \in [Fetchers -> Tasks]
    BY <1>1, <2>1
  <2>3. buf' \in [Programs -> [1 .. BufSize -> Byte]]
    BY <1>0, <1>1, <1>6, Zenon DEF HTaskOK
  <2>. QED
    BY <1>1, <2>1, <2>2, <2>3, Zenon DEF HTaskOK
<1>. QED
  BY <1>3, <1>4, <1>5, <1>1, <1>6

\* What the others keep.
LEMMA HOther ==
  ASSUME HTaskOK, NEW g \in Fetchers, Undisturbed(g) \/ Disturbed(g)
  PROVE  LET t == task[g]
             u == task'[g]
         IN  /\ u.pc = t.pc /\ u.url = t.url /\ u.method = t.method /\ u.inp = t.inp /\ u.n = t.n
             /\ u.sz = t.sz /\ u.hdr = t.hdr /\ u.got = t.got /\ u.bufD = t.bufD
             /\ u.out = t.out /\ u.put = t.put /\ u.kept = t.kept /\ u.gone = t.gone
             /\ u.con = t.con /\ u.srv = t.srv
             /\ u.whole => t.whole
             /\ ~ Relies(g) => u = t
<1>1. task[g] \in Tasks
  BY Zenon DEF HTaskOK
<1>2. CASE Undisturbed(g)
  BY <1>2 DEF Undisturbed
<1>3. CASE Disturbed(g)
  BY <1>1, <1>3, Zenon DEF Disturbed, Tasks
<1>. QED
  BY <1>2, <1>3

\* Nothing moves but programs may end.
Still == task' = task /\ buf' = buf /\ addr' = addr

\* An exit moves no thread and no buffer.
LEMMA HExit ==
  ASSUME NEW f, Exit(f)
  PROVE  Still
  BY DEF Exit, Still

\* When nothing moves, types stay and the other threads are left alone.
LEMMA HStill ==
  ASSUME HTaskOK, Still, NEW f
  PROVE  HTaskOK' /\ OthersStay(f)
  BY Zenon DEF Still, HTaskOK, OthersStay, Undisturbed

\* The types of one thread and of its buffer.
LEMMA HTask ==
  ASSUME HTaskOK, NEW f \in Fetchers
  PROVE  /\ task[f] \in Tasks /\ Placed(task[f]) /\ Home[f] \in Programs
         /\ Buf(f) \in [1 .. BufSize -> Byte] /\ Buf(f) = buf[Home[f]]
         /\ task[f].inp \in Seq(Byte) /\ task[f].out \in Seq(Byte)
         /\ task[f].kept \in Seq(Byte) /\ task[f].bufD \in Seq(Byte)
         /\ task[f].n \in Nat /\ task[f].got \in Int /\ task[f].sz \in Int
<1>1. task[f] \in Tasks /\ Placed(task[f]) /\ Home[f] \in Programs
  BY HConstants, Zenon DEF HTaskOK
<1>2. Buf(f) \in [1 .. BufSize -> Byte] /\ Buf(f) = buf[Home[f]]
  BY <1>1, Zenon DEF HTaskOK, Buf
<1>. QED
  BY <1>1, <1>2, Zenon DEF Tasks

\* gethostbyname: the address is that of the object's host.
LEMMA HResolve ==
  ASSUME HTaskOK, NEW f \in Fetchers, Resolve(f)
  PROVE  /\ HTaskOK' /\ OthersStay(f) /\ buf' = buf
         /\ \A g \in Fetchers \ {f} : task'[g] = task[g]
         /\ task[f].pc = "resolve"
         /\ Still \/ /\ task'[f] = [task[f] EXCEPT !.pc = "connect"] /\ up' = up
                     /\ addr' = [addr EXCEPT ![Home[f]] = HostOf[task[f].url]]
                     /\ addr'[Home[f]] = HostOf[task[f].url]
<1>. DEFINE t == task[f]
            u == [t EXCEPT !.pc = "connect"]
<1>0. t \in Tasks /\ Placed(t) /\ t.pc = "resolve" /\ Home[f] \in Programs
  BY HTask DEF Resolve, At
<1>1. CASE Exit(f)
  BY <1>0, <1>1, HExit, HStill DEF Still
<1>2. CASE /\ addr' = [addr EXCEPT ![Home[f]] = HostOf[t.url]]
           /\ task' = [task EXCEPT ![f].pc = "connect"] /\ UNCHANGED <<buf, up>>
  <2>1. u \in Tasks /\ u.pc = "connect" /\ u.url = t.url
    <3>. HIDE DEF t
    <3>. QED
      BY <1>0, Zenon DEF Tasks, Points
  <2>2. Placed(u) /\ t.url \in Urls
    BY <1>0, <2>1 DEF Placed, Between
  <2>3. task' = [task EXCEPT ![f] = u]
    BY <1>2, Zenon DEF HTaskOK
  <2>4. HostOf[t.url] \in Hosts
    BY <2>2 DEF Hosts
  <2>. HIDE DEF u, t
  <2>5. task'[f] = u /\ \A g \in Fetchers \ {f} : task'[g] = task[g]
    BY <2>3, Zenon DEF HTaskOK
  <2>6. addr'[Home[f]] = HostOf[t.url] /\ addr' \in [Programs -> Hosts \cup {""}]
    BY <1>0, <1>2, <2>4, Zenon DEF HTaskOK
  <2>7. HTaskOK' /\ OthersStay(f)
    BY <1>2, <2>1, <2>2, <2>3, <2>5, <2>6, Zenon DEF HTaskOK, OthersStay, Undisturbed
  <2>. QED
    BY <1>0, <1>2, <2>5, <2>6, <2>7, Zenon DEF u, t
<1>. QED
  BY <1>1, <1>2 DEF Resolve

\* connect: the response of the server that was reached is on its way, behind
\* what has not been received; whole vouches for the server.
Reached(f) == IF task[f].con THEN task[f].srv ELSE addr[Home[f]]

LEMMA HConnect ==
  ASSUME HTaskOK, NEW f \in Fetchers, NEW next \in {"first", "open"}, Connect(f, next)
  PROVE  LET t == task[f]
             u == task'[f]
         IN  /\ HTaskOK' /\ OthersStay(f) /\ buf' = buf /\ addr' = addr
             /\ \A g \in Fetchers \ {f} : task'[g] = task[g]
             /\ t.pc = "connect"
             /\ Still \/ /\ u = [t EXCEPT !.pc = next, !.inp = u.inp, !.srv = u.srv,
                                          !.whole = u.whole]
                         /\ u.srv = Reached(f) /\ u.srv \in Hosts
                         /\ u.whole <=> t.whole /\ u.srv = HostOf[t.url]
                         /\ t.inp = <<>> /\ u.srv = HostOf[t.url] => OnItsWay(u)
<1>. DEFINE t == task[f]
            h == Reached(f)
            o == Served[h][t.url]
            r == Response(t.method, o)
            i == t.inp \o r
            w == t.whole /\ h = HostOf[t.url]
            v == [t EXCEPT !.pc = next, !.srv = h, !.whole = w, !.inp = i]
<1>0. t \in Tasks /\ Placed(t) /\ t.pc = "connect" /\ t.inp \in Seq(Byte)
  BY HTask DEF Connect, At
<1>1. CASE Exit(f)
  BY <1>0, <1>1, HExit, HStill DEF Still
<1>2. CASE h \in Hosts /\ Goes(f, v)
  <2>1. t.url \in Urls
    BY <1>0 DEF Placed, Between
  <2>2. o \in Urls /\ (h = HostOf[t.url] => o = t.url)
    BY <1>2, <2>1, ServedAssumption
  <2>3. r \in Seq(Byte) /\ (h = HostOf[t.url] => Len(r) = Size(t) /\ Span(r, t.url, 0))
    <3>. DEFINE c == [t EXCEPT !.url = o]
    <3>1. c \in Tasks /\ c.url = o /\ c.method = t.method
      <4>. HIDE DEF t, o
      <4>. QED
        BY <1>0, <2>2, Zenon DEF Tasks
    <3>. HIDE DEF c
    <3>2. LET q == Response(c.method, c.url)
          IN  q \in Seq(Byte) /\ Len(q) = Size(c) /\ Span(q, c.url, 0)
      BY <2>2, <3>1, HResponse
    <3>3. h = HostOf[t.url] => Size(c) = Size(t)
      BY <2>2, <3>1 DEF Size
    <3>. QED
      BY <2>2, <3>1, <3>2, <3>3
  <2>. HIDE DEF r, o, h
  <2>4. i \in Seq(Byte) /\ (t.inp = <<>> => i = r)
    <3>. HIDE DEF t
    <3>. QED
      BY <1>0, <2>3
  <2>5. w \in BOOLEAN /\ (w <=> t.whole /\ h = HostOf[t.url])
    BY <1>0, Zenon DEF Tasks
  <2>. HIDE DEF i, w
  <2>6. /\ v \in Tasks /\ v.pc = next /\ v.url = t.url /\ v.method = t.method /\ v.inp = i
        /\ v.srv = h /\ v.whole = w
        /\ v = [t EXCEPT !.pc = next, !.inp = v.inp, !.srv = v.srv, !.whole = v.whole]
    <3>1. next \in Points
      BY DEF Points
    <3>. HIDE DEF t
    <3>. QED
      BY <1>0, <1>2, <2>4, <2>5, <3>1, Zenon DEF Tasks
  <2>7. Placed(v)
    BY <2>1, <2>6 DEF Placed
  <2>8. t.inp = <<>> /\ h = HostOf[t.url] => OnItsWay(v)
    BY <2>3, <2>4, <2>6 DEF OnItsWay, Size
  <2>. HIDE DEF v
  <2>9. /\ task'[f] = v /\ buf' = buf /\ addr' = addr /\ HTaskOK' /\ OthersStay(f)
        /\ \A g \in Fetchers \ {f} : task'[g] = task[g]
    BY <1>2, <2>6, <2>7, HGoes
  <2>. HIDE DEF t
  <2>10. v.srv = Reached(f) /\ v.srv \in Hosts
    BY <1>2, <2>6 DEF h
  <2>. QED
    BY <1>0, <2>5, <2>6, <2>8, <2>9, <2>10 DEF t
<1>3. Exit(f) \/ (h \in Hosts /\ Goes(f, v))
  BY DEF Connect, Reached
<1>. QED
  BY <1>1, <1>2, <1>3

\* The connection breaks: nothing is on its way any more.
LEMMA HLose ==
  ASSUME HTaskOK, NEW f \in Fetchers, Lose(f)
  PROVE  /\ HTaskOK' /\ OthersStay(f) /\ buf' = buf
         /\ \A g \in Fetchers \ {f} : task'[g] = task[g]
         /\ task[f].pc \in {"first", "more"}
         /\ task'[f] = [task[f] EXCEPT !.inp = <<>>, !.whole = FALSE]
<1>. DEFINE t == task[f]
            u == [t EXCEPT !.inp = <<>>, !.whole = FALSE]
<1>1. t.pc \in {"first", "more"} /\ Goes(f, u) /\ t \in Tasks /\ Placed(t)
  BY HTask DEF Lose
<1>2. u \in Tasks
  <2>. HIDE DEF t
  <2>. QED
    BY <1>1, HEmpty, Zenon DEF Tasks
<1>3. Placed(u)
  <2>1. u.pc = t.pc /\ u.url = t.url /\ u.n = t.n /\ u.bufD = t.bufD
    BY <1>1, Zenon DEF Tasks
  <2>. QED
    BY <2>1, <1>1 DEF Placed
<1>. HIDE DEF u
<1>4. /\ task'[f] = u /\ buf' = buf /\ HTaskOK' /\ OthersStay(f)
      /\ \A g \in Fetchers \ {f} : task'[g] = task[g]
  BY <1>1, <1>2, <1>3, HGoes
<1>. QED
  BY <1>1, <1>4 DEF u

\* What a recv leaves in buf and on the way.
LEMMA HReceived ==
  ASSUME HTaskOK, NEW f \in Fetchers, NEW k \in Chunks(f)
  PROVE  /\ k \in 1 .. Len(task[f].inp) /\ k \in Nat /\ k <= BufSize
         /\ Received(f, k) \in [1 .. BufSize -> Byte]
         /\ SubSeq(task[f].inp, k + 1, Len(task[f].inp)) \in Seq(Byte)
         /\ Len(SubSeq(task[f].inp, k + 1, Len(task[f].inp))) = Len(task[f].inp) - k
         /\ \A c \in Int : Span(task[f].inp, task[f].url, c) =>
              /\ Span(SubSeq(task[f].inp, k + 1, Len(task[f].inp)), task[f].url, c + k)
              /\ Holds(Received(f, k), task[f].url, c, k)
         /\ \A i \in k + 1 .. BufSize : Received(f, k)[i] = Buf(f)[i]
<1>. DEFINE s == task[f].inp
<1>1. /\ k \in 1 .. Len(s) /\ k \in Nat /\ k <= BufSize /\ BufSize \in Nat
      /\ s \in Seq(Byte) /\ Len(s) \in Nat /\ Buf(f) \in [1 .. BufSize -> Byte]
  <2>1. s \in Seq(Byte) /\ Buf(f) \in [1 .. BufSize -> Byte]
    BY HTask
  <2>2. k \in 1 .. Len(s) /\ k <= BufSize
    BY DEF Chunks
  <2>. HIDE DEF s
  <2>. QED
    BY <2>1, <2>2, HLengths
<1>2. Received(f, k) = [i \in 1 .. BufSize |-> IF i <= k THEN s[i] ELSE Buf(f)[i]]
  BY DEF Received
<1>. HIDE DEF s
<1>3. ASSUME NEW i \in 1 .. BufSize, i <= k PROVE i \in 1 .. Len(s) /\ s[i] \in Byte
  <2>1. i \in 1 .. Len(s)
    BY <1>1, <1>3
  <2>. QED
    BY <1>1, <2>1
<1>4. Received(f, k) \in [1 .. BufSize -> Byte]
  BY <1>1, <1>2, <1>3
<1>5. ASSUME NEW c \in Int, NEW u, Span(s, u, c)
      PROVE  /\ Span(SubSeq(s, k + 1, Len(s)), u, c + k)
             /\ Holds(Received(f, k), u, c, k)
  <2>1. Span(SubSeq(s, k + 1, Len(s)), u, c + k)
    BY <1>1, <1>5, HSpanCut
  <2>2. ASSUME NEW i \in 1 .. k PROVE Received(f, k)[i] = <<u, c + i>>
    <3>1. i \in 1 .. BufSize /\ i <= k /\ i \in 1 .. Len(s)
      BY <1>1
    <3>. QED
      BY <3>1, <1>2, <1>5 DEF Span
  <2>. QED
    BY <2>1, <2>2 DEF Holds
<1>6. ASSUME NEW i \in k + 1 .. BufSize PROVE Received(f, k)[i] = Buf(f)[i]
  <2>1. i \in 1 .. BufSize /\ ~ (i <= k)
    BY <1>1
  <2>. QED
    BY <1>2, <2>1
<1>7. /\ SubSeq(s, k + 1, Len(s)) \in Seq(Byte)
      /\ Len(SubSeq(s, k + 1, Len(s))) = Len(s) - k
  BY <1>1, HCut
<1>. QED
  BY <1>1, <1>4, <1>5, <1>6, <1>7 DEF s

\* The first recv: a chunk is in buf, and whole keeps its promise.
LEMMA HFirstChunk ==
  ASSUME HTaskOK, NEW f \in Fetchers, FirstChunk(f)
  PROVE  LET t == task[f]
             u == task'[f]
             b == buf'[Home[f]]
         IN  /\ HTaskOK' /\ OthersStay(f)
             /\ t.pc = "first"
             /\ Still \/
                /\ u = [t EXCEPT !.pc = "size", !.n = u.n, !.inp = u.inp, !.whole = u.whole]
                /\ u.n + Len(u.inp) = Len(t.inp) /\ u.n <= BufSize
                /\ Span(t.inp, t.url, 0) => Span(u.inp, t.url, u.n) /\ Holds(b, t.url, 0, u.n)
                /\ u.whole => t.whole /\ HeaderLen[t.url] <= u.n /\ NotMisled(u, b)
<1>. DEFINE t == task[f]
            u == task'[f]
            b == buf'[Home[f]]
<1>0. t \in Tasks /\ Placed(t) /\ t.pc = "first" /\ t.url \in Urls /\ t.inp \in Seq(Byte)
  <2>1. t \in Tasks /\ Placed(t) /\ t.pc = "first" /\ t.inp \in Seq(Byte)
    BY HTask, Zenon DEF FirstChunk, At
  <2>. QED
    BY <2>1 DEF Placed, Between
<1>1. CASE Exit(f)
  BY <1>0, <1>1, HExit, HStill
<1>2. ASSUME NEW k \in Chunks(f),
             Writes(f, [task[f] EXCEPT !.pc = "size", !.n = k,
                                       !.inp = SubSeq(@, k + 1, Len(@)),
                                       !.whole = @ /\ k >= HeaderLen[t.url] /\ ~ Misled(f, k)],
                    Received(f, k))
      PROVE  /\ HTaskOK' /\ OthersStay(f)
             /\ u = [t EXCEPT !.pc = "size", !.n = u.n, !.inp = u.inp, !.whole = u.whole]
             /\ u.n + Len(u.inp) = Len(t.inp) /\ u.n <= BufSize
             /\ Span(t.inp, t.url, 0) => Span(u.inp, t.url, u.n) /\ Holds(b, t.url, 0, u.n)
             /\ u.whole => t.whole /\ HeaderLen[t.url] <= u.n /\ NotMisled(u, b)
  <2>. DEFINE r == SubSeq(t.inp, k + 1, Len(t.inp))
              w == t.whole /\ k >= HeaderLen[t.url] /\ ~ Misled(f, k)
              v == [t EXCEPT !.pc = "size", !.n = k, !.inp = r, !.whole = w]
  <2>1. /\ k \in Nat /\ k <= BufSize /\ k <= Len(t.inp) /\ r \in Seq(Byte)
        /\ Len(r) = Len(t.inp) - k
        /\ Received(f, k) \in [1 .. BufSize -> Byte]
        /\ Span(t.inp, t.url, 0) => Span(r, t.url, 0 + k) /\ Holds(Received(f, k), t.url, 0, k)
        /\ \A i \in k + 1 .. BufSize : Received(f, k)[i] = Buf(f)[i]
    BY HReceived
  <2>2. Writes(f, v, Received(f, k))
    BY <1>2
  <2>3. w \in BOOLEAN
    OBVIOUS
  <2>. HIDE DEF r, w
  <2>4. v \in Tasks
    <3>. HIDE DEF t
    <3>. QED
      BY <1>0, <2>1, <2>3, Zenon DEF Tasks, Points
  <2>5. /\ v.pc = "size" /\ v.n = k /\ v.inp = r /\ v.whole = w /\ v.url = t.url
        /\ v = [t EXCEPT !.pc = "size", !.n = v.n, !.inp = v.inp, !.whole = v.whole]
    <3>. HIDE DEF t
    <3>. QED
      BY <1>0, Zenon DEF Tasks
  <2>6. Placed(v)
    BY <1>0, <2>1, <2>5 DEF Placed
  <2>. HIDE DEF v
  <2>7. HTaskOK' /\ OthersStay(f) /\ u = v /\ b = Received(f, k)
    BY <2>1, <2>2, <2>4, <2>6, HWrites
  <2>8. w => t.whole /\ HeaderLen[t.url] <= k /\ NotMisled(v, b)
    <3>1. w => t.whole /\ HeaderLen[t.url] <= k
      BY <2>1, HLengths DEF w
    <3>2. w /\ t.url \in NoLength => \A i \in LengthLines(b) : ~ (i > k)
      BY <2>7 DEF w, Misled
    <3>3. LengthLines(b) \subseteq Nat
      BY <2>1, <2>7, HText DEF LengthLines
    <3>4. w => NotMisled(v, b)
      BY <3>2, <3>3, <2>1, <2>5 DEF NotMisled
    <3>. QED
      BY <3>1, <3>4
  <2>9. 0 + k = k /\ k + Len(r) = Len(t.inp)
    <3>1. Len(t.inp) \in Nat
      <4>. HIDE DEF t
      <4>. QED
        BY <1>0
    <3>. HIDE DEF t
    <3>. QED
      BY <2>1, <3>1
  <2>. HIDE DEF t, u, b
  <2>. QED
    BY <2>1, <2>5, <2>7, <2>8, <2>9
<1>3. ASSUME t.inp = <<>>, Goes(f, [task[f] EXCEPT !.pc = "size", !.n = 0, !.whole = FALSE])
      PROVE  /\ HTaskOK' /\ OthersStay(f)
             /\ u = [t EXCEPT !.pc = "size", !.n = u.n, !.inp = u.inp, !.whole = u.whole]
             /\ u.n + Len(u.inp) = Len(t.inp) /\ u.n <= BufSize
             /\ Span(t.inp, t.url, 0) => Span(u.inp, t.url, u.n) /\ Holds(b, t.url, 0, u.n)
             /\ u.whole => t.whole /\ HeaderLen[t.url] <= u.n /\ NotMisled(u, b)
  <2>. DEFINE v == [t EXCEPT !.pc = "size", !.n = 0, !.whole = FALSE]
  <2>1. v \in Tasks
    <3>. HIDE DEF t
    <3>. QED
      BY <1>0, Zenon DEF Tasks, Points
  <2>2. /\ v.pc = "size" /\ v.n = 0 /\ v.inp = t.inp /\ v.whole = FALSE /\ v.url = t.url
        /\ v = [t EXCEPT !.pc = "size", !.n = v.n, !.inp = v.inp, !.whole = v.whole]
    <3>. HIDE DEF t
    <3>. QED
      BY <1>0, Zenon DEF Tasks
  <2>3. Placed(v) /\ 0 <= BufSize
    BY <1>0, <2>2, HLengths DEF Placed
  <2>4. Goes(f, v)
    BY <1>3
  <2>. HIDE DEF v
  <2>5. HTaskOK' /\ OthersStay(f) /\ u = v
    BY <2>1, <2>3, <2>4, HGoes
  <2>6. Len(t.inp) = 0 /\ 0 + Len(t.inp) = Len(t.inp)
    BY <1>3
  <2>7. Span(t.inp, t.url, 0) /\ Holds(b, t.url, 0, 0)
    BY <2>6 DEF Span, Holds
  <2>. HIDE DEF t, u, b
  <2>. QED
    BY <2>2, <2>3, <2>5, <2>6, <2>7
<1>. HIDE DEF t, u, b
<1>4. Still \/
      /\ HTaskOK' /\ OthersStay(f)
      /\ u = [t EXCEPT !.pc = "size", !.n = u.n, !.inp = u.inp, !.whole = u.whole]
      /\ u.n + Len(u.inp) = Len(t.inp) /\ u.n <= BufSize
      /\ Span(t.inp, t.url, 0) => Span(u.inp, t.url, u.n) /\ Holds(b, t.url, 0, u.n)
      /\ u.whole => t.whole /\ HeaderLen[t.url] <= u.n /\ NotMisled(u, b)
  BY <1>1, <1>2, <1>3, HExit, Zenon DEF FirstChunk, t
<1>5. HTaskOK' /\ OthersStay(f)
  BY <1>4, HStill
<1>. QED
  BY <1>0, <1>4, <1>5 DEF t, u, b

\* The next recv: the chunk in buf continues what came before.
LEMMA HNextChunk ==
  ASSUME HTaskOK, NEW f \in Fetchers, NextChunk(f)
  PROVE  LET t == task[f]
             u == task'[f]
             b == buf'[Home[f]]
         IN  /\ HTaskOK' /\ OthersStay(f)
             /\ t.pc = "more"
             /\ Still \/
                /\ u = [t EXCEPT !.pc = "pass", !.n = u.n, !.inp = u.inp, !.got = u.got]
                /\ u.n + Len(u.inp) = Len(t.inp) /\ u.n <= BufSize /\ u.got = t.got + u.n
                /\ \A c \in Int : Span(t.inp, t.url, c) =>
                     Span(u.inp, t.url, c + u.n) /\ Holds(b, t.url, c, u.n)
<1>. DEFINE t == task[f]
            u == task'[f]
            b == buf'[Home[f]]
<1>0. /\ t \in Tasks /\ Placed(t) /\ t.pc = "more" /\ t.url \in Urls /\ t.inp \in Seq(Byte)
      /\ t.got \in Int
  <2>1. t \in Tasks /\ Placed(t) /\ t.pc = "more" /\ t.inp \in Seq(Byte) /\ t.got \in Int
    BY HTask, Zenon DEF NextChunk, At
  <2>. QED
    BY <2>1 DEF Placed, Between
<1>2. ASSUME NEW k \in Chunks(f),
             Writes(f, [task[f] EXCEPT !.pc = "pass", !.n = k,
                                       !.inp = SubSeq(@, k + 1, Len(@)),
                                       !.got = Count(task[f], k)], Received(f, k))
      PROVE  /\ HTaskOK' /\ OthersStay(f)
             /\ u = [t EXCEPT !.pc = "pass", !.n = u.n, !.inp = u.inp, !.got = u.got]
             /\ u.n + Len(u.inp) = Len(t.inp) /\ u.n <= BufSize /\ u.got = t.got + u.n
             /\ \A c \in Int : Span(t.inp, t.url, c) =>
                  Span(u.inp, t.url, c + u.n) /\ Holds(b, t.url, c, u.n)
  <2>. DEFINE r == SubSeq(t.inp, k + 1, Len(t.inp))
              w == t.got + k
              v == [t EXCEPT !.pc = "pass", !.n = k, !.inp = r, !.got = w]
  <2>1. /\ k \in Nat /\ k <= BufSize /\ k <= Len(t.inp) /\ r \in Seq(Byte)
        /\ Len(r) = Len(t.inp) - k
        /\ Received(f, k) \in [1 .. BufSize -> Byte]
        /\ \A c \in Int : Span(t.inp, t.url, c) =>
             Span(r, t.url, c + k) /\ Holds(Received(f, k), t.url, c, k)
    BY HReceived
  <2>2. Writes(f, v, Received(f, k))
    BY <1>2 DEF Count
  <2>3. w \in Int
    <3>. HIDE DEF t
    <3>. QED
      BY <1>0, <2>1
  <2>. HIDE DEF r
  <2>4. v \in Tasks
    <3>. HIDE DEF t, w
    <3>. QED
      BY <1>0, <2>1, <2>3, Zenon DEF Tasks, Points
  <2>5. /\ v.pc = "pass" /\ v.n = k /\ v.inp = r /\ v.got = w /\ v.url = t.url
        /\ v = [t EXCEPT !.pc = "pass", !.n = v.n, !.inp = v.inp, !.got = v.got]
    <3>. HIDE DEF t, w
    <3>. QED
      BY <1>0, Zenon DEF Tasks
  <2>6. Placed(v)
    BY <1>0, <2>1, <2>5 DEF Placed
  <2>. HIDE DEF v
  <2>7. HTaskOK' /\ OthersStay(f) /\ u = v /\ b = Received(f, k)
    BY <2>1, <2>2, <2>4, <2>6, HWrites
  <2>9. k + Len(r) = Len(t.inp)
    <3>1. Len(t.inp) \in Nat
      <4>. HIDE DEF t
      <4>. QED
        BY <1>0
    <3>. HIDE DEF t
    <3>. QED
      BY <2>1, <3>1
  <2>. HIDE DEF t, u, b
  <2>. QED
    BY <2>1, <2>5, <2>7, <2>9
<1>3. ASSUME t.inp = <<>>, Goes(f, [task[f] EXCEPT !.pc = "pass", !.n = 0])
      PROVE  /\ HTaskOK' /\ OthersStay(f)
             /\ u = [t EXCEPT !.pc = "pass", !.n = u.n, !.inp = u.inp, !.got = u.got]
             /\ u.n + Len(u.inp) = Len(t.inp) /\ u.n <= BufSize /\ u.got = t.got + u.n
             /\ \A c \in Int : Span(t.inp, t.url, c) =>
                  Span(u.inp, t.url, c + u.n) /\ Holds(b, t.url, c, u.n)
  <2>. DEFINE v == [t EXCEPT !.pc = "pass", !.n = 0]
  <2>1. v \in Tasks
    <3>. HIDE DEF t
    <3>. QED
      BY <1>0, Zenon DEF Tasks, Points
  <2>2. /\ v.pc = "pass" /\ v.n = 0 /\ v.inp = t.inp /\ v.got = t.got /\ v.url = t.url
        /\ v = [t EXCEPT !.pc = "pass", !.n = v.n, !.inp = v.inp, !.got = v.got]
    <3>. HIDE DEF t
    <3>. QED
      BY <1>0, Zenon DEF Tasks
  <2>3. Placed(v) /\ 0 <= BufSize
    BY <1>0, <2>2, HLengths DEF Placed
  <2>4. Goes(f, v)
    BY <1>3
  <2>. HIDE DEF v
  <2>5. HTaskOK' /\ OthersStay(f) /\ u = v
    BY <2>1, <2>3, <2>4, HGoes
  <2>6. Len(t.inp) = 0 /\ 0 + Len(t.inp) = Len(t.inp)
    BY <1>3
  <2>7. \A c : Span(t.inp, t.url, c) /\ Holds(b, t.url, c, 0)
    BY <2>6 DEF Span, Holds
  <2>8. t.got = t.got + 0 /\ \A c \in Int : c + 0 = c
    <3>. HIDE DEF t
    <3>. QED
      BY <1>0
  <2>. HIDE DEF t, u, b
  <2>. QED
    BY <2>2, <2>3, <2>5, <2>6, <2>7, <2>8
<1>. HIDE DEF t, u, b
<1>4. Still \/
      /\ HTaskOK' /\ OthersStay(f)
      /\ u = [t EXCEPT !.pc = "pass", !.n = u.n, !.inp = u.inp, !.got = u.got]
      /\ u.n + Len(u.inp) = Len(t.inp) /\ u.n <= BufSize /\ u.got = t.got + u.n
      /\ \A c \in Int : Span(t.inp, t.url, c) =>
           Span(u.inp, t.url, c + u.n) /\ Holds(b, t.url, c, u.n)
  BY <1>2, <1>3, HExit, Zenon DEF NextChunk, t
<1>5. HTaskOK' /\ OthersStay(f)
  BY <1>4, HStill
<1>. QED
  BY <1>0, <1>4, <1>5 DEF t, u, b

\* Steps that change nothing but the point, or the numbers with it.
LEMMA HMeasure ==
  ASSUME HTaskOK, NEW f \in Fetchers, NEW s \in Int, NEW next \in {"pass", "hdr"},
         Measure(f, s, next)
  PROVE  /\ HTaskOK' /\ OthersStay(f) /\ buf' = buf
         /\ \A g \in Fetchers \ {f} : task'[g] = task[g]
         /\ task[f].pc = "size"
         /\ task'[f] = [task[f] EXCEPT !.pc = next, !.sz = s, !.got = task[f].n]
<1>. DEFINE t == task[f]
            v == [t EXCEPT !.pc = next, !.sz = s, !.got = t.n]
<1>1. t \in Tasks /\ Placed(t) /\ t.pc = "size" /\ Goes(f, v) /\ t.n \in Nat
  BY HTask DEF Measure, At
<1>2. v \in Tasks /\ v.pc = next /\ v.n = t.n /\ v.url = t.url
  <2>. DEFINE n == t.n
              w == [t EXCEPT !.pc = next, !.sz = s, !.got = n]
  <2>1. n \in Int
    BY <1>1
  <2>0. next \in Points
    BY DEF Points
  <2>2. v = w
    OBVIOUS
  <2>. HIDE DEF t, n
  <2>3. w \in Tasks /\ w.pc = next /\ w.n = t.n /\ w.url = t.url
    BY <1>1, <2>0, <2>1, Zenon DEF Tasks
  <2>. QED
    BY <2>2, <2>3
<1>3. Placed(v)
  BY <1>1, <1>2 DEF Placed, Between
<1>. HIDE DEF v
<1>4. /\ task'[f] = v /\ buf' = buf /\ HTaskOK' /\ OthersStay(f)
      /\ \A g \in Fetchers \ {f} : task'[g] = task[g]
  BY <1>1, <1>2, <1>3, HGoes
<1>. QED
  BY <1>1, <1>4 DEF v

\* A step to another point of the program.
LEMMA HMove ==
  ASSUME HTaskOK, NEW f \in Fetchers, NEW next \in Points,
         Goes(f, [task[f] EXCEPT !.pc = next]),
         Placed([task[f] EXCEPT !.pc = next])
  PROVE  /\ HTaskOK' /\ OthersStay(f) /\ buf' = buf
         /\ \A g \in Fetchers \ {f} : task'[g] = task[g]
         /\ task'[f] = [task[f] EXCEPT !.pc = next]
<1>. DEFINE t == task[f]
            v == [t EXCEPT !.pc = next]
<1>1. t \in Tasks /\ Goes(f, v) /\ Placed(v)
  BY HTask
<1>2. v \in Tasks
  <2>. HIDE DEF t
  <2>. QED
    BY <1>1, Zenon DEF Tasks
<1>. HIDE DEF v
<1>4. /\ task'[f] = v /\ buf' = buf /\ HTaskOK' /\ OthersStay(f)
      /\ \A g \in Fetchers \ {f} : task'[g] = task[g]
  BY <1>1, <1>2, HGoes
<1>. QED
  BY <1>4 DEF v

\* From one point to another where nothing more is asked of a thread.
LEMMA HMoveOn ==
  ASSUME HTaskOK, NEW f \in Fetchers, NEW next \in Points,
         Goes(f, [task[f] EXCEPT !.pc = next]),
         next \notin {"size", "hdr", "copy", "write1", "pass", "keep", "clear1", "back"},
         task[f].pc \notin Between \cup {"done"} \/ next \in Between \cup {"done"}
  PROVE  /\ HTaskOK' /\ OthersStay(f) /\ buf' = buf
         /\ \A g \in Fetchers \ {f} : task'[g] = task[g]
         /\ task'[f] = [task[f] EXCEPT !.pc = next]
<1>. DEFINE t == task[f]
            v == [t EXCEPT !.pc = next]
<1>1. t \in Tasks /\ Placed(t)
  BY HTask
<1>2. v.pc = next /\ v.url = t.url
  <2>. HIDE DEF t
  <2>. QED
    BY <1>1, Zenon DEF Tasks
<1>3. Placed(v)
  BY <1>1, <1>2 DEF Placed
<1>. QED
  BY <1>3, HMove

\* while(gotSize < sz): once more.
LEMMA HAgain ==
  ASSUME HTaskOK, NEW f \in Fetchers, Again(f)
  PROVE  /\ HTaskOK' /\ OthersStay(f) /\ buf' = buf
         /\ \A g \in Fetchers \ {f} : task'[g] = task[g]
         /\ task[f].pc = "loop" /\ task[f].got < task[f].sz
         /\ task'[f] = [task[f] EXCEPT !.pc = "clear"]
<1>1. /\ Goes(f, [task[f] EXCEPT !.pc = "clear"]) /\ task[f].pc = "loop"
      /\ task[f].got < task[f].sz
  BY DEF Again, At
<1>2. task[f].pc \notin Between \cup {"done"} /\ "clear" \in Points
  BY <1>1 DEF Between, Points
<1>. QED
  BY <1>1, <1>2, HMoveOn

\* The loop ends when enough bytes have come.
LEMMA HEnough ==
  ASSUME HTaskOK, NEW f \in Fetchers, NEW next \in {"close", "store", "done"},
         Enough(f, next)
  PROVE  /\ HTaskOK' /\ OthersStay(f) /\ buf' = buf
         /\ \A g \in Fetchers \ {f} : task'[g] = task[g]
         /\ task[f].pc = "loop" /\ task[f].got >= task[f].sz
         /\ task'[f] = [task[f] EXCEPT !.pc = next]
<1>1. /\ Goes(f, [task[f] EXCEPT !.pc = next]) /\ task[f].pc = "loop"
      /\ task[f].got >= task[f].sz
  BY DEF Enough, At
<1>2. task[f].pc \notin Between \cup {"done"} /\ next \in Points
  BY <1>1 DEF Between, Points
<1>3. next \notin {"size", "hdr", "copy", "write1", "pass", "keep", "clear1", "back"}
  OBVIOUS
<1>4. /\ HTaskOK' /\ OthersStay(f) /\ buf' = buf
      /\ \A g \in Fetchers \ {f} : task'[g] = task[g]
      /\ task'[f] = [task[f] EXCEPT !.pc = next]
  BY <1>1, <1>2, <1>3, HMoveOn
<1>. QED
  BY <1>1, <1>4

\* bzero(buf, BUF_SIZE+1).
LEMMA HClear ==
  ASSUME HTaskOK, NEW f \in Fetchers, Clear(f)
  PROVE  /\ HTaskOK' /\ OthersStay(f)
         /\ task[f].pc = "clear" /\ task'[f] = [task[f] EXCEPT !.pc = "more"]
<1>. DEFINE t == task[f]
            v == [t EXCEPT !.pc = "more"]
            z == [i \in 1 .. BufSize |-> Zero]
<1>1. t \in Tasks /\ Placed(t) /\ t.pc = "clear" /\ Writes(f, v, z)
  BY HTask DEF Clear, At
<1>2. v \in Tasks /\ v.pc = "more" /\ v.url = t.url
  <2>. HIDE DEF t
  <2>. QED
    BY <1>1, Zenon DEF Tasks, Points
<1>3. Placed(v)
  BY <1>1, <1>2 DEF Placed, Between
<1>4. z \in [1 .. BufSize -> Byte]
  BY HZero
<1>. HIDE DEF v, z
<1>5. task'[f] = v /\ HTaskOK' /\ OthersStay(f)
  BY <1>1, <1>2, <1>3, <1>4, HWrites
<1>. QED
  BY <1>1, <1>5 DEF v

-----------------------------------------------------------------------------
(* The module of the downloaders uses the same exchange.                   *)

\* Every step of it is the same step.
LEMMA HSameExchange ==
  ASSUME NEW f
  PROVE  /\ DL!Buf(f) = Buf(f) /\ \A p : DL!At(f, p) <=> At(f, p)
         /\ \A t : DL!Goes(f, t) <=> Goes(f, t)
         /\ \A t, b : DL!Writes(f, t, b) <=> Writes(f, t, b)
         /\ DL!Exit(f) <=> Exit(f) /\ DL!Idle = Idle
         /\ DL!Resolve(f) <=> Resolve(f)
         /\ \A p : DL!Connect(f, p) <=> Connect(f, p)
         /\ DL!FirstChunk(f) <=> FirstChunk(f)
         /\ \A s, p : DL!Measure(f, s, p) <=> Measure(f, s, p)
         /\ \A p : DL!Loop(f, p) <=>
                     Again(f) \/ Clear(f) \/ NextChunk(f) \/ Lose(f) \/ Enough(f, p)
<1>1. DL!Buf(f) = Buf(f) /\ \A p : DL!At(f, p) <=> At(f, p)
  BY DEF DL!Buf, Buf, DL!At, At
<1>2. \A t : DL!Goes(f, t) <=> Goes(f, t)
  BY DEF DL!Goes, Goes
<1>3. \A t, b : DL!Writes(f, t, b) <=> Writes(f, t, b)
  BY DEF DL!Writes, Writes, DL!Others, Others, DL!Relies, Relies
<1>4. (DL!Exit(f) <=> Exit(f)) /\ DL!Idle = Idle
  BY DEF DL!Exit, Exit, DL!Idle, Idle
<1>5. (DL!Resolve(f) <=> Resolve(f)) /\ \A p : DL!Connect(f, p) <=> Connect(f, p)
  BY <1>1, <1>2, <1>4, Zenon DEF DL!Connect, Connect, DL!Response, Response, DL!Resolve, Resolve,
                           DL!Hosts, Hosts
<1>6. DL!Chunks(f) = Chunks(f) /\ \A k : DL!Received(f, k) = Received(f, k)
  BY <1>1 DEF DL!Chunks, Chunks, DL!Received, Received
<1>7. DL!FirstChunk(f) <=> FirstChunk(f)
  BY DEF DL!FirstChunk, FirstChunk, DL!Misled, Misled, DL!Buf, Buf, DL!At, At, DL!Goes, Goes,
         DL!Writes, Writes, DL!Others, Others, DL!Relies, Relies, DL!Exit, Exit,
         DL!Chunks, Chunks, DL!Received, Received, DL!LengthLines, LengthLines,
         DL!Text, Text, DL!Zero, Zero, DL!Min, Min
<1>8. \A s, p : DL!Measure(f, s, p) <=> Measure(f, s, p)
  BY <1>1, <1>2 DEF DL!Measure, Measure
<1>9. (DL!Again(f) <=> Again(f)) /\ \A p : DL!Enough(f, p) <=> Enough(f, p)
  BY <1>1, <1>2 DEF DL!Again, Again, DL!Enough, Enough
<1>10. (DL!Clear(f) <=> Clear(f)) /\ (DL!Lose(f) <=> Lose(f))
  BY <1>1, <1>2, <1>3, Zenon DEF DL!Clear, Clear, DL!Lose, Lose, DL!Zero, Zero
<1>11. DL!NextChunk(f) <=> NextChunk(f)
  BY <1>1, <1>2, <1>3, <1>4, <1>6, Zenon DEF DL!NextChunk, NextChunk, DL!Count, Count
<1>12. \A p : DL!Loop(f, p) <=>
              Again(f) \/ Clear(f) \/ NextChunk(f) \/ Lose(f) \/ Enough(f, p)
  BY <1>9, <1>10, <1>11 DEF DL!Loop
<1>. QED
  BY <1>1, <1>2, <1>3, <1>4, <1>5, <1>7, <1>8, <1>12

\* The downloaders read a header the way the proxies do.
LEMMA HSameReading ==
  ASSUME NEW b
  PROVE  /\ DL!HasLength(b) <=> HasLength(b)
         /\ DL!Length(b) = Length(b)
         /\ DL!getHeaderLen(b) = getHeaderLen(b)
<1>1. DL!Text(b) = Text(b)
  BY DEF DL!Text, Text, DL!Zero, Zero, DL!Min, Min
<1>2. DL!LengthLines(b) = LengthLines(b) /\ DL!HeaderEnds(b) = HeaderEnds(b)
  BY <1>1 DEF DL!LengthLines, LengthLines, DL!HeaderEnds, HeaderEnds
<1>. QED
  BY <1>2 DEF DL!HasLength, HasLength, DL!Length, Length, DL!getHeaderLen, getHeaderLen,
                DL!Min, Min

\* They mean the same bytes by the body of an object.
LEMMA HSameBody == \A u : DL!Body(u) = Body(u)
  BY DEF DL!Body, Body

-----------------------------------------------------------------------------
(* The downloaders: one thread's exchange.                                 *)

Reliant == {"size", "hdr", "copy", "clear1", "back", "write1", "pass", "keep", "loop",
            "clear", "more"}

\* Where a downloader works on an object.
Works(t) == t.pc \notin Between \cup {"done"}

\* Only a thread that relies on buf has anything to say about it.
LEMMA LSameBuffer ==
  ASSUME NEW t \in Tasks, NEW b, NEW c, LTask(t, b), t.pc \in Reliant => c = b
  PROVE  LTask(t, c)
  BY DEF LTask, LWhole, LBody, HeaderIsIn, NotMisled, Reliant

\* Whoever was disturbed is promised nothing.
LEMMA LDisturbed ==
  ASSUME NEW t \in Tasks, NEW b, NEW c, LTask(t, b)
  PROVE  LTask([t EXCEPT !.whole = FALSE], c)
  BY Zenon DEF LTask, Tasks

\* A step of another thread keeps what is known of this one.
LEMMA LOther ==
  ASSUME HTaskOK, NEW g \in Fetchers, LTask(task[g], Buf(g)), Undisturbed(g) \/ Disturbed(g)
  PROVE  LTask(task'[g], buf'[Home[g]])
<1>1. task[g] \in Tasks /\ Buf(g) = buf[Home[g]]
  BY HTask
<1>2. CASE Undisturbed(g)
  <2>1. task'[g] = task[g] /\ (task[g].pc \in Reliant => buf'[Home[g]] = Buf(g))
    BY <1>1, <1>2 DEF Undisturbed, Relies, Reliant
  <2>. QED
    BY <1>1, <2>1, LSameBuffer
<1>3. CASE Disturbed(g)
  BY <1>1, <1>3, LDisturbed DEF Disturbed
<1>. QED
  BY <1>2, <1>3

\* The host is looked up, and the file is opened.
LEMMA LMovesOn ==
  ASSUME NEW t \in Tasks, NEW u \in Tasks, NEW b, NEW c, LTask(t, b),
         \/ t.pc = "resolve" /\ u = [t EXCEPT !.pc = "connect"]
         \/ t.pc = "open" /\ u = [t EXCEPT !.pc = "first"]
  PROVE  LTask(u, c) /\ Works(u) /\ u.url = t.url
<1>1. /\ u.pc \in {"connect", "first"} /\ (u.pc = "connect" <=> t.pc = "resolve")
      /\ u.method = t.method /\ u.whole = t.whole /\ u.url = t.url /\ u.inp = t.inp
      /\ u.out = t.out /\ u.put = t.put
  BY Zenon DEF Tasks
<1>2. /\ t.method = "GET" /\ t.out = <<>> /\ t.put = 0
      /\ t.whole => IF t.pc = "resolve" THEN t.inp = <<>> ELSE OnItsWay(t)
  BY DEF LTask, LWhole, Unwritten
<1>3. OnItsWay(t) => OnItsWay(u)
  BY <1>1 DEF OnItsWay, Size
<1>. QED
  BY <1>1, <1>2, <1>3 DEF LTask, LWhole, Works, Between

\* connect, for the thread that does it.
LEMMA LConnects ==
  ASSUME NEW t \in Tasks, NEW u \in Tasks, NEW b, NEW c, LTask(t, b), t.pc = "connect",
         u = [t EXCEPT !.pc = "open", !.inp = u.inp, !.srv = u.srv, !.whole = u.whole],
         u.whole => t.whole /\ u.srv = HostOf[t.url],
         t.inp = <<>> /\ u.srv = HostOf[t.url] => OnItsWay(u)
  PROVE  LTask(u, c) /\ Works(u) /\ u.url = t.url
<1>1. /\ u.pc = "open" /\ u.method = t.method /\ u.url = t.url
      /\ u.out = t.out /\ u.put = t.put
  BY Zenon DEF Tasks
<1>2. /\ t.method = "GET" /\ (t.whole => t.inp = <<>>) /\ t.out = <<>> /\ t.put = 0
  BY DEF LTask, LWhole, Unwritten
<1>. QED
  BY <1>1, <1>2 DEF LTask, LWhole, Works, Between

\* The first chunk.
LEMMA LFirst ==
  ASSUME NEW t \in Tasks, NEW u \in Tasks, NEW b, NEW c, LTask(t, b), t.pc = "first",
         u = [t EXCEPT !.pc = "size", !.n = u.n, !.inp = u.inp, !.whole = u.whole],
         u.n + Len(u.inp) = Len(t.inp),
         Span(t.inp, t.url, 0) => Span(u.inp, t.url, u.n) /\ Holds(c, t.url, 0, u.n),
         u.whole => t.whole /\ HeaderLen[t.url] <= u.n /\ NotMisled(u, c)
  PROVE  LTask(u, c) /\ Works(u) /\ u.url = t.url
<1>1. /\ u.pc = "size" /\ u.method = t.method /\ u.url = t.url
      /\ u.out = t.out /\ u.put = t.put
  BY Zenon DEF Tasks
<1>2. t.method = "GET" /\ (t.whole => OnItsWay(t)) /\ t.out = <<>> /\ t.put = 0
  BY DEF LTask, LWhole, Unwritten
<1>3. Size(u) = Size(t)
  BY <1>1 DEF Size
<1>4. u.whole => HeaderIsIn(u, c) /\ NotMisled(u, c)
  BY <1>1, <1>2, <1>3 DEF OnItsWay, HeaderIsIn
<1>. QED
  BY <1>1, <1>2, <1>4 DEF LTask, LWhole, Works, Between

\* sz is the size of the response.
LEMMA LMeasures ==
  ASSUME NEW t \in Tasks, Placed(t), NEW b \in [1 .. BufSize -> Byte], LTask(t, b), t.pc = "size",
         HasLength(b), NEW u, u \in Tasks,
         u = [t EXCEPT !.pc = "hdr", !.sz = Length(b) + getHeaderLen(b), !.got = t.n]
  PROVE  LTask(u, b) /\ Works(u) /\ u.url = t.url
<1>1. /\ u.pc = "hdr" /\ u.method = t.method /\ u.whole = t.whole /\ u.url = t.url /\ u.n = t.n
      /\ u.inp = t.inp /\ u.sz = Length(b) + getHeaderLen(b)
      /\ u.out = t.out /\ u.put = t.put
  BY Zenon DEF Tasks
<1>2. /\ t.method = "GET" /\ (t.whole => HeaderIsIn(t, b) /\ NotMisled(t, b))
      /\ t.n \in Nat /\ t.n <= BufSize /\ t.url \in Urls
      /\ t.out = <<>> /\ t.put = 0
  BY Zenon DEF LTask, LWhole, Placed, Tasks, Between, Unwritten
<1>3. ASSUME t.whole PROVE u.sz = Size(u)
  <2>1. HeaderLen[t.url] <= t.n /\ Holds(b, t.url, 0, t.n)
    BY <1>2, <1>3 DEF HeaderIsIn
  <2>2. t.url \notin NoLength
    BY <1>2, <1>3, <2>1, HReadHeader DEF NotMisled
  <2>3. getHeaderLen(b) = HeaderLen[t.url] /\ Length(b) = BodyLen[t.url]
    BY <1>2, <2>1, <2>2, HReadHeader
  <2>4. BodyLen[t.url] \in Nat /\ HeaderLen[t.url] \in Nat
    BY <1>2, HLengths
  <2>5. Size(u) = HeaderLen[t.url] + BodyLen[t.url]
    BY <1>1, <1>2 DEF Size
  <2>. QED
    BY <1>1, <2>3, <2>4, <2>5
<1>4. t.whole => HeaderIsIn(u, b)
  BY <1>1, <1>2 DEF HeaderIsIn, Size
<1>. QED
  BY <1>1, <1>2, <1>3, <1>4 DEF LTask, LWhole, Works, Between

\* parseHeader that finds no Content-Length does not come back.
LEMMA LHangs ==
  ASSUME NEW t \in Tasks, NEW b, LTask(t, b)
  PROVE  LET u == [t EXCEPT !.pc = "hang"]
         IN  LTask(u, b) /\ Works(u) /\ u.url = t.url
<1>. DEFINE u == [t EXCEPT !.pc = "hang"]
<1>1. u.pc = "hang" /\ u.method = t.method /\ u.url = t.url
  BY Zenon DEF Tasks
<1>2. t.method = "GET"
  BY DEF LTask
<1>. HIDE DEF u
<1>3. LTask(u, b) /\ Works(u) /\ u.url = t.url
  BY <1>1, <1>2 DEF LTask, LWhole, Works, Between, Unwritten
<1>. QED
  BY <1>3 DEF u

\* headerlen is the length of the header.
LEMMA LHeader ==
  ASSUME NEW t \in Tasks, Placed(t), NEW b \in [1 .. BufSize -> Byte], LTask(t, b), t.pc = "hdr",
         NEW u \in Tasks, u = [t EXCEPT !.pc = "copy", !.hdr = getHeaderLen(b)]
  PROVE  LTask(u, b) /\ Works(u) /\ u.url = t.url
<1>1. /\ u.pc = "copy" /\ u.method = t.method /\ u.whole = t.whole /\ u.url = t.url /\ u.n = t.n
      /\ u.inp = t.inp /\ u.sz = t.sz /\ u.hdr = getHeaderLen(b)
      /\ u.out = t.out /\ u.put = t.put
  BY Zenon DEF Tasks
<1>2. /\ t.method = "GET" /\ (t.whole => HeaderIsIn(t, b) /\ t.sz = Size(t))
      /\ t.n \in Nat /\ t.n <= BufSize /\ t.url \in Urls
      /\ t.out = <<>> /\ t.put = 0
  BY Zenon DEF LTask, LWhole, Placed, Tasks, Between, Unwritten
<1>3. t.whole => getHeaderLen(b) = HeaderLen[t.url]
  BY <1>2, HReadHeader DEF HeaderIsIn
<1>4. (t.whole => HeaderIsIn(u, b)) /\ Size(u) = Size(t)
  BY <1>1, <1>2 DEF HeaderIsIn, Size
<1>. QED
  BY <1>1, <1>2, <1>3, <1>4 DEF LTask, LWhole, Works, Between

\* The bytes behind the header are set aside.
LEMMA LCopies ==
  ASSUME NEW t \in Tasks, Placed(t), NEW b \in [1 .. BufSize -> Byte], LTask(t, b), t.pc = "copy",
         t.hdr <= t.n, NEW u \in Tasks,
         u = [t EXCEPT !.pc = "clear1", !.bufD = SubSeq(b, t.hdr + 1, t.n)]
  PROVE  LTask(u, b) /\ Works(u) /\ u.url = t.url /\ Placed(u)
<1>1. /\ u.pc = "clear1" /\ u.method = t.method /\ u.whole = t.whole /\ u.url = t.url
      /\ u.inp = t.inp /\ u.sz = t.sz /\ u.hdr = t.hdr /\ u.bufD = SubSeq(b, t.hdr + 1, t.n)
      /\ u.out = t.out /\ u.put = t.put
  BY Zenon DEF Tasks
<1>2. /\ t.method = "GET" /\ (t.whole => HeaderIsIn(t, b) /\ t.sz = Size(t) /\ t.hdr = HeaderLen[t.url])
      /\ t.n \in Nat /\ t.n <= BufSize /\ t.hdr \in Nat /\ t.url \in Urls /\ t.inp \in Seq(Byte)
      /\ t.out = <<>> /\ t.put = 0
  BY Zenon DEF LTask, LWhole, Placed, Tasks, Between, Unwritten
<1>3. Len(u.bufD) = t.n - t.hdr /\ BufSize \in Nat /\ HeaderLen[t.url] \in Nat /\ Len(t.inp) \in Nat
  <2>1. Len(SubSeq(b, t.hdr + 1, t.n)) = t.n - t.hdr
    BY <1>2, HPart
  <2>2. Len(t.inp) \in Nat
    BY <1>2, HEmpty
  <2>. QED
    BY <1>1, <1>2, <2>1, <2>2, HLengths
<1>4. ASSUME t.whole
      PROVE  /\ HeaderLen[t.url] + Len(u.bufD) + Len(u.inp) = Size(u)
             /\ Span(u.bufD, u.url, HeaderLen[t.url]) /\ Span(u.inp, u.url, HeaderLen[t.url] + Len(u.bufD))
  <2>1. /\ HeaderLen[t.url] <= t.n /\ t.n + Len(t.inp) = Size(t) /\ t.hdr = HeaderLen[t.url]
        /\ Span(t.inp, t.url, t.n) /\ Holds(b, t.url, 0, t.n)
    BY <1>2, <1>4 DEF HeaderIsIn
  <2>2. Span(SubSeq(b, HeaderLen[t.url] + 1, t.n), t.url, 0 + HeaderLen[t.url])
    BY <1>2, <1>3, <2>1, HPartSpan
  <2>3. HeaderLen[t.url] + Len(u.bufD) = t.n /\ 0 + HeaderLen[t.url] = HeaderLen[t.url]
    BY <1>2, <1>3, <2>1
  <2>4. Size(u) = Size(t)
    BY <1>1 DEF Size
  <2>. QED
    BY <1>1, <2>1, <2>2, <2>3, <2>4
<1>5. Size(u) = Size(t) /\ Len(u.bufD) <= BufSize
  BY <1>1, <1>2, <1>3 DEF Size
<1>6. Placed(u)
  BY <1>1, <1>2, <1>5 DEF Placed
<1>. QED
  BY <1>1, <1>2, <1>4, <1>5, <1>6 DEF LTask, LWhole, Works, Between

\* buf is cleared.
LEMMA LClears ==
  ASSUME NEW t \in Tasks, Placed(t), NEW b, NEW c, LTask(t, b), t.pc = "clear1",
         NEW u \in Tasks, u = [t EXCEPT !.pc = "back"]
  PROVE  LTask(u, c) /\ Works(u) /\ u.url = t.url /\ Placed(u)
<1>1. /\ u.pc = "back" /\ u.method = t.method /\ u.whole = t.whole /\ u.url = t.url
      /\ u.inp = t.inp /\ u.sz = t.sz /\ u.hdr = t.hdr /\ u.bufD = t.bufD
      /\ u.out = t.out /\ u.put = t.put
  BY Zenon DEF Tasks
<1>2. Size(u) = Size(t) /\ Placed(u)
  BY <1>1 DEF Size, Placed, Between
<1>3. t.out = <<>> /\ t.put = 0
  BY DEF LTask, Unwritten
<1>. QED
  BY <1>1, <1>2, <1>3 DEF LTask, LWhole, Works, Between

\* The bytes behind the header are in the front of buf again.
LEMMA LMovesBack ==
  ASSUME NEW t \in Tasks, Placed(t), NEW b, LTask(t, b), t.pc = "back", NEW u \in Tasks,
         u = [t EXCEPT !.pc = "write1", !.n = Len(t.bufD)],
         NEW c, c = [i \in 1 .. BufSize |-> IF i <= Len(t.bufD) THEN t.bufD[i] ELSE Zero]
  PROVE  /\ LTask(u, c) /\ Works(u) /\ u.url = t.url /\ Placed(u)
         /\ c \in [1 .. BufSize -> Byte]
<1>1. /\ u.pc = "write1" /\ u.method = t.method /\ u.whole = t.whole /\ u.url = t.url
      /\ u.inp = t.inp /\ u.sz = t.sz /\ u.hdr = t.hdr /\ u.n = Len(t.bufD)
      /\ u.out = t.out /\ u.put = t.put
  BY Zenon DEF Tasks
<1>2. /\ t.bufD \in Seq(Byte) /\ Len(t.bufD) \in Nat /\ Len(t.bufD) <= BufSize /\ t.url \in Urls
      /\ BufSize \in Nat
  BY HLengths, Zenon DEF Tasks, Placed, Between
<1>3. \A i \in 1 .. Len(t.bufD) : i \in 1 .. BufSize /\ c[i] = t.bufD[i]
  BY <1>2
<1>4. c \in [1 .. BufSize -> Byte]
  BY <1>2, HZero
<1>5. Size(u) = Size(t) /\ Placed(u)
  BY <1>1, <1>2 DEF Size, Placed, Between
<1>6. Span(t.bufD, t.url, HeaderLen[t.url]) => Holds(c, t.url, HeaderLen[t.url], Len(t.bufD))
  BY <1>3 DEF Span, Holds
<1>7. t.out = <<>> /\ t.put = 0
  BY DEF LTask, Unwritten
<1>. QED
  BY <1>1, <1>4, <1>5, <1>6, <1>7 DEF LTask, LWhole, Works, Between

\* The first n bytes of a buffer.
LEMMA HFront ==
  ASSUME NEW b \in [1 .. BufSize -> Byte], NEW n \in Nat, n <= BufSize
  PROVE  /\ SubSeq(b, 1, n) \in Seq(Byte) /\ Len(SubSeq(b, 1, n)) = n
         /\ \A u : \A c \in Int : Holds(b, u, c, n) => Span(SubSeq(b, 1, n), u, c)
<1>1. 0 + 1 = 1 /\ 0 \in Nat /\ 0 <= n /\ n - 0 = n
  OBVIOUS
<1>2. SubSeq(b, 1, n) \in Seq(Byte) /\ Len(SubSeq(b, 1, n)) = n
  <2>1. SubSeq(b, 0 + 1, n) \in Seq(Byte) /\ Len(SubSeq(b, 0 + 1, n)) = n - 0
    BY <1>1, HPart
  <2>. QED
    BY <1>1, <2>1
<1>3. ASSUME NEW u, NEW c \in Int, Holds(b, u, c, n) PROVE Span(SubSeq(b, 1, n), u, c)
  <2>1. Span(SubSeq(b, 0 + 1, n), u, c + 0)
    BY <1>1, <1>3, HPartSpan
  <2>2. c + 0 = c
    OBVIOUS
  <2>. QED
    BY <1>1, <2>1, <2>2
<1>. QED
  BY <1>2, <1>3

\* A thread that has not begun.
LEMMA HIdle ==
  /\ Idle \in Tasks /\ Placed(Idle)
  /\ Idle.pc = "idle" /\ Idle.url = "" /\ Idle.method = "GET" /\ Idle.inp = <<>>
  /\ Idle.out = <<>> /\ Idle.kept = <<>> /\ Idle.gone = FALSE /\ Idle.con = FALSE
  /\ Idle.put = 0 /\ Idle.srv = "" /\ Idle.whole = TRUE
<1>1. <<>> \in Seq(Byte) /\ "idle" \in Points /\ "GET" \in AnyMethod /\ "" \in Urls \cup {""}
      /\ "" \in Hosts \cup {""}
  BY HEmpty DEF Points, AnyMethod, Methods
<1>2. Idle \in Tasks
  BY <1>1 DEF Idle, Tasks
<1>. QED
  BY <1>2, Zenon DEF Idle, Placed, Between

\* The thread after the two kinds of writes.
WroteFirst(t, b, k) ==
  [t EXCEPT !.pc = "loop", !.got = t.n, !.sz = t.sz - t.hdr, !.out = SubSeq(b, 1, t.n), !.put = k]
Wrote(t, b, k) == [t EXCEPT !.pc = "loop", !.out = @ \o SubSeq(b, 1, t.n), !.put = k]

\* The first bytes of the body are written to the file.
LEMMA LWritesFirst ==
  ASSUME NEW t \in Tasks, Placed(t), NEW b \in [1 .. BufSize -> Byte], LTask(t, b),
         t.pc = "write1", NEW u \in Tasks, NEW k, u = WroteFirst(t, b, k)
  PROVE  LTask(u, b) /\ Works(u) /\ u.url = t.url
<1>0. /\ u.pc = "loop" /\ u.method = t.method /\ u.whole = t.whole /\ u.url = t.url
      /\ u.inp = t.inp
  BY Zenon DEF WroteFirst, Tasks
<1>1. /\ t.method = "GET" /\ t.n \in Nat /\ t.n <= BufSize /\ t.url \in Urls
      /\ t.inp \in Seq(Byte)
  BY Zenon DEF LTask, Placed, Tasks, Between
<1>2. u.out = SubSeq(b, 1, t.n) /\ Len(u.out) = t.n /\ u.got = t.n
  <2>1. u.out = SubSeq(b, 1, t.n) /\ u.got = t.n
    BY Zenon DEF WroteFirst, Tasks
  <2>. QED
    BY <1>1, <2>1, HFront
<1>3. ASSUME t.whole PROVE LBody(u, b)
  <2>1. /\ t.sz = Size(t) /\ t.hdr = HeaderLen[t.url] /\ HeaderLen[t.url] + t.n + Len(t.inp) = Size(t)
        /\ Holds(b, t.url, HeaderLen[t.url], t.n) /\ Span(t.inp, t.url, HeaderLen[t.url] + t.n)
    BY <1>3 DEF LTask, LWhole
  <2>2. HeaderLen[t.url] \in Nat /\ BodyLen[t.url] \in Nat
    BY <1>1, HLengths
  <2>7. Size(t) = HeaderLen[t.url] + BodyLen[t.url]
    BY <1>1 DEF Size
  <2>3. t.sz - t.hdr = BodyLen[t.url] /\ t.n + Len(t.inp) = BodyLen[t.url]
    <3>1. Len(t.inp) \in Nat
      BY <1>1, HEmpty
    <3>2. /\ HeaderLen[t.url] + BodyLen[t.url] = t.sz /\ t.hdr = HeaderLen[t.url]
          /\ HeaderLen[t.url] + t.n + Len(t.inp) = HeaderLen[t.url] + BodyLen[t.url]
      BY <2>1, <2>7
    <3>3. t.sz - HeaderLen[t.url] = BodyLen[t.url]
      BY <2>2, <3>2
    <3>4. t.n + Len(t.inp) = BodyLen[t.url]
      BY <1>1, <2>2, <3>1, <3>2
    <3>. QED
      BY <3>2, <3>3, <3>4
  <2>4. u.sz = t.sz - t.hdr
    BY Zenon DEF WroteFirst, Tasks
  <2>5. u.sz = BodyLen[t.url] /\ u.got + Len(u.inp) = u.sz
    BY <1>0, <1>2, <2>3, <2>4
  <2>6. Span(u.out, u.url, HeaderLen[t.url])
    <3>1. HeaderLen[t.url] \in Int
      BY <2>2
    <3>. QED
      BY <1>0, <1>1, <1>2, <2>1, <3>1, HFront
  <2>. QED
    BY <1>0, <1>2, <2>1, <2>5, <2>6 DEF LBody
<1>. QED
  BY <1>0, <1>1, <1>3 DEF LTask, LWhole, Works, Between, Unwritten

\* The bytes of a chunk are written behind them.
LEMMA LWritesOn ==
  ASSUME NEW t \in Tasks, Placed(t), NEW b \in [1 .. BufSize -> Byte], LTask(t, b), t.pc = "pass",
         NEW u \in Tasks, NEW k, u = Wrote(t, b, k)
  PROVE  LTask(u, b) /\ Works(u) /\ u.url = t.url
<1>0. /\ u.pc = "loop" /\ u.method = t.method /\ u.whole = t.whole /\ u.url = t.url
      /\ u.inp = t.inp /\ u.sz = t.sz /\ u.got = t.got
  BY Zenon DEF Wrote, Tasks
<1>1. /\ t.method = "GET" /\ t.n \in Nat /\ t.n <= BufSize /\ t.out \in Seq(Byte)
      /\ Len(t.out) \in Nat /\ t.got \in Int /\ HeaderLen[t.url] \in Int
  <2>1. t.method = "GET"
    BY DEF LTask
  <2>2. t.n \in Nat /\ t.n <= BufSize /\ t.out \in Seq(Byte) /\ t.got \in Int /\ t.url \in Urls
    BY Zenon DEF Placed, Tasks, Between
  <2>. QED
    BY <2>1, <2>2, HEmpty, HLengths
<1>. DEFINE r == SubSeq(b, 1, t.n)
<1>2. r \in Seq(Byte) /\ Len(r) = t.n
  BY <1>1, HFront
<1>3. u.out = t.out \o r
  BY Zenon DEF Wrote, Tasks
<1>4. ASSUME t.whole PROVE LBody(u, b)
  <2>. DEFINE m == HeaderLen[t.url] + Len(t.out)
  <2>1. /\ t.sz = BodyLen[t.url] /\ t.got + Len(t.inp) = t.sz
        /\ Span(t.inp, t.url, HeaderLen[t.url] + t.got)
    BY <1>4 DEF LTask, LWhole, LBody
  <2>2. /\ Span(t.out, t.url, HeaderLen[t.url]) /\ Len(t.out) + t.n = t.got
        /\ Holds(b, t.url, m, t.n)
    BY <1>4 DEF LTask, LWhole, LBody
  <2>3. m \in Int
    BY <1>1
  <2>4. Span(r, t.url, m)
    BY <1>1, <2>2, <2>3, HFront
  <2>. HIDE DEF r
  <2>5. Len(t.out \o r) = Len(t.out) + Len(r) /\ Span(t.out \o r, t.url, HeaderLen[t.url])
    BY <1>1, <1>2, <2>2, <2>3, <2>4, HSpanCat
  <2>. QED
    BY <1>0, <1>2, <1>3, <2>1, <2>2, <2>5 DEF LBody
<1>. QED
  BY <1>0, <1>1, <1>4 DEF LTask, LWhole, Works, Between, Unwritten

\* A turn of the loop: no bytes move before the next chunk.
LEMMA LTurns ==
  ASSUME NEW t \in Tasks, NEW b, NEW c, LTask(t, b), NEW u \in Tasks,
         \/ t.pc = "loop" /\ u = [t EXCEPT !.pc = "clear"]
         \/ t.pc = "clear" /\ u = [t EXCEPT !.pc = "more"]
         \/ t.pc = "loop" /\ t.got >= t.sz /\ u = [t EXCEPT !.pc = "close"]
  PROVE  LTask(u, c) /\ Works(u) /\ u.url = t.url
<1>1. /\ u.pc \in {"clear", "more", "close"} /\ u.method = t.method /\ u.whole = t.whole
      /\ u.url = t.url /\ u.inp = t.inp /\ u.sz = t.sz /\ u.got = t.got /\ u.out = t.out
  BY Zenon DEF Tasks
<1>2. u.pc = "close" => u.got >= u.sz
  BY <1>1, Zenon DEF Tasks
<1>3. t.method = "GET" /\ (t.whole => LBody(t, b)) /\ t.pc # "pass"
  BY DEF LTask, LWhole
<1>4. u.whole => LBody(u, c)
  BY <1>1, <1>3 DEF LBody
<1>. QED
  BY <1>1, <1>2, <1>3, <1>4 DEF LTask, LWhole, Works, Between, Unwritten

\* The next chunk.
LEMMA LReceives ==
  ASSUME NEW t \in Tasks, Placed(t), NEW b, NEW c, LTask(t, b), NEW u \in Tasks, t.pc = "more",
         u.pc = "pass", u.method = t.method, u.whole = t.whole, u.url = t.url, u.sz = t.sz,
         u.out = t.out, u.n + Len(u.inp) = Len(t.inp), u.got = t.got + u.n,
         \A d \in Int : Span(t.inp, t.url, d) =>
           Span(u.inp, t.url, d + u.n) /\ Holds(c, t.url, d, u.n)
  PROVE  LTask(u, c) /\ Works(u)
<1>2. /\ t.method = "GET" /\ t.got \in Int /\ u.n \in Nat
      /\ Len(u.inp) \in Nat /\ HeaderLen[t.url] \in Int /\ Len(t.out) \in Nat
  <2>1. t.method = "GET"
    BY DEF LTask
  <2>2. /\ t.got \in Int /\ u.n \in Nat /\ u.inp \in Seq(Byte) /\ t.out \in Seq(Byte)
        /\ t.url \in Urls
    BY Zenon DEF Tasks, Placed, Between
  <2>. QED
    BY <2>1, <2>2, HLengths, HEmpty
<1>3. ASSUME t.whole PROVE LBody(u, c)
  <2>1. /\ t.sz = BodyLen[t.url] /\ t.got + Len(t.inp) = t.sz
        /\ Span(t.inp, t.url, HeaderLen[t.url] + t.got) /\ Span(t.out, t.url, HeaderLen[t.url])
        /\ Len(t.out) = t.got
    BY <1>3 DEF LTask, LWhole, LBody
  <2>2. HeaderLen[t.url] + t.got \in Int /\ HeaderLen[t.url] + t.got + u.n = HeaderLen[t.url] + u.got
    BY <1>2
  <2>3. Span(u.inp, t.url, HeaderLen[t.url] + u.got) /\ Holds(c, t.url, HeaderLen[t.url] + t.got, u.n)
    BY <2>1, <2>2
  <2>4. u.got + Len(u.inp) = t.got + Len(t.inp)
    BY <1>2
  <2>. QED
    BY <2>1, <2>3, <2>4 DEF LBody
<1>. QED
  BY <1>2, <1>3 DEF LTask, LWhole, Works, Between, Unwritten

\* The rest of the body is lost.
LEMMA LLoses ==
  ASSUME NEW t \in Tasks, NEW b, NEW c, LTask(t, b), NEW u \in Tasks, t.pc \in {"first", "more"},
         u = [t EXCEPT !.inp = <<>>, !.whole = FALSE]
  PROVE  LTask(u, c) /\ Works(u) /\ u.url = t.url
<1>1. /\ u.pc = t.pc /\ u.method = t.method /\ u.whole = FALSE /\ u.url = t.url
      /\ u.out = t.out /\ u.put = t.put
  BY Zenon DEF Tasks
<1>. QED
  BY <1>1 DEF LTask, Works, Between

\* The end of the loop: all the bytes have come and are in the file.
LEMMA LCloses ==
  ASSUME NEW t \in Tasks, Placed(t), NEW b, LTask(t, b), t.pc = "close"
  PROVE  /\ t.whole => t.inp = <<>> /\ t.out = Body(t.url)
         /\ \A q \in {"line", "next", "done"}, k \in Nat : \A c :
              /\ q # "done" => LTask([t EXCEPT !.pc = q, !.con = TRUE, !.put = k], c)
              /\ LTask([t EXCEPT !.pc = q, !.inp = <<>>, !.put = k], c)
<1>1. /\ t.method = "GET" /\ t.url \in Urls /\ t.inp \in Seq(Byte) /\ t.out \in Seq(Byte)
      /\ t.got \in Int /\ t.sz \in Int
  BY Zenon DEF LTask, Placed, Tasks, Between
<1>2. ASSUME t.whole PROVE t.inp = <<>> /\ t.out = Body(t.url)
  <2>1. /\ t.sz = BodyLen[t.url] /\ t.got + Len(t.inp) = t.sz /\ t.got >= t.sz
        /\ Span(t.out, t.url, HeaderLen[t.url]) /\ Len(t.out) = t.got
    BY <1>2 DEF LTask, LWhole, LBody
  <2>2. Len(t.inp) \in Nat /\ (Len(t.inp) = 0 => t.inp = <<>>) /\ HeaderLen[t.url] \in Nat
    BY <1>1, HEmpty, HLengths
  <2>0. BodyLen[t.url] \in Nat
    BY <1>1, HLengths
  <2>3. t.inp = <<>> /\ Len(t.out) = BodyLen[t.url]
    <3>1. Len(t.inp) = 0
      BY <1>1, <2>0, <2>1, <2>2
    <3>. QED
      BY <1>1, <2>0, <2>1, <2>2, <3>1
  <2>4. \A i \in 1 .. Len(t.out) : t.out[i] = <<t.url, HeaderLen[t.url] + i>>
    BY <2>1 DEF Span
  <2>5. t.out = [i \in 1 .. Len(t.out) |-> t.out[i]]
    BY <1>1
  <2>6. t.out = [i \in 1 .. BodyLen[t.url] |-> <<t.url, HeaderLen[t.url] + i>>]
    BY <2>3, <2>4, <2>5
  <2>. QED
    BY <2>3, <2>6 DEF Body
<1>3. ASSUME NEW q \in {"line", "next", "done"}, NEW k \in Nat, NEW c
      PROVE  /\ q # "done" => LTask([t EXCEPT !.pc = q, !.con = TRUE, !.put = k], c)
             /\ LTask([t EXCEPT !.pc = q, !.inp = <<>>, !.put = k], c)
  <2>. DEFINE u == [t EXCEPT !.pc = q, !.con = TRUE, !.put = k]
              v == [t EXCEPT !.pc = q, !.inp = <<>>, !.put = k]
  <2>1. /\ u.pc = q /\ u.method = "GET" /\ u.inp = t.inp /\ u.whole = t.whole /\ u.con = TRUE
        /\ v.pc = q /\ v.method = "GET" /\ v.inp = <<>> /\ v.whole = t.whole
    BY <1>1, Zenon DEF Tasks
  <2>. HIDE DEF u, v
  <2>2. LTask(u, c)
    BY <1>2, <2>1 DEF LTask, LWhole, Unwritten
  <2>3. LTask(v, c)
    BY <2>1 DEF LTask, LWhole, Unwritten
  <2>. QED
    BY <2>2, <2>3 DEF u, v
<1>. QED
  BY <1>2, <1>3, Zenon

\* The beginning of another exchange.
Fetched(t, o) == [Idle EXCEPT !.pc = "resolve", !.url = o, !.inp = t.inp, !.con = t.con,
                              !.srv = t.srv, !.whole = t.whole \/ ~ t.con]

\* fetchObject begins, on a connection with nothing left over.
LEMMA LFetches ==
  ASSUME NEW t \in Tasks, NEW b, LTask(t, b), t.pc \in Between, NEW c, NEW o \in Urls, NEW u,
         u = Fetched(t, o)
  PROVE  /\ u \in Tasks /\ Placed(u) /\ LTask(u, c) /\ Works(u)
         /\ u.pc = "resolve" /\ u.url = o /\ u.con = t.con /\ u.srv = t.srv
<1>. DEFINE w == t.whole \/ ~ t.con
<1>1. /\ t.inp \in Seq(Byte) /\ t.con \in BOOLEAN /\ w \in BOOLEAN /\ t.srv \in Hosts \cup {""}
      /\ (t.whole \/ ~ t.con => t.inp = <<>>)
  BY Zenon DEF LTask, Tasks
<1>2. Idle \in Tasks
  BY HIdle, Zenon
<1>3. u = [Idle EXCEPT !.pc = "resolve", !.url = o, !.inp = t.inp, !.con = t.con,
                     !.srv = t.srv, !.whole = w]
  BY DEF Fetched
<1>4. Idle.method = "GET" /\ Idle.out = <<>> /\ Idle.put = 0
  BY HIdle, Zenon
<1>. HIDE DEF w
<1>5. u \in Tasks
  <2>1. "resolve" \in Points
    BY DEF Points
  <2>. HIDE DEF Fetched
  <2>. QED
    BY <1>1, <1>2, <1>3, <2>1, Zenon DEF Tasks
<1>6. /\ u.pc = "resolve" /\ u.url = o /\ u.inp = t.inp /\ u.whole = w /\ u.method = "GET"
      /\ u.out = <<>> /\ u.put = 0 /\ u.con = t.con /\ u.srv = t.srv
  BY <1>1, <1>2, <1>3, <1>4, Zenon DEF Tasks
<1>7. u.whole => u.inp = <<>>
  BY <1>1, <1>6, Zenon DEF w
<1>. QED
  BY <1>5, <1>6, <1>7 DEF LTask, LWhole, Placed, Works, Between

-----------------------------------------------------------------------------
(* The steps of a downloader that is at work on an object.                 *)

LWorked(f) ==
  /\ HTaskOK' /\ OthersStay(f) /\ LTask(task'[f], buf'[Home[f]])
  /\ Still \/ (Works(task[f]) /\ Works(task'[f]) /\ task'[f].url = task[f].url)

\* Between the opening of the file and its closing, what is in the file and the
\* connection stay, but for the writes.
Holding(t, u) ==
  /\ t.pc \in Writing /\ u.pc \in Writing \cup {"hang"}
  /\ u.url = t.url /\ u.out = t.out /\ u.put = t.put /\ u.con = t.con /\ u.srv = t.srv
LSteady(f) == Still \/ (addr' = addr /\ Holding(task[f], task'[f]))

\* These steps look up no host.
LEMMA HAddrKept ==
  ASSUME NEW f
  PROVE  /\ FirstChunk(f) \/ NextChunk(f) \/ Again(f) \/ Clear(f) \/ Lose(f) => addr' = addr
         /\ \A t, b : Goes(f, t) \/ Writes(f, t, b) => addr' = addr
         /\ \A s, p : Measure(f, s, p) => addr' = addr
         /\ \A p : Enough(f, p) => addr' = addr
  BY Zenon DEF FirstChunk, NextChunk, Again, Clear, Lose, Enough, Measure, Goes, Writes, Exit

\* An exit.
LEMMA LStill ==
  ASSUME HTaskOK, NEW f \in Fetchers, LTask(task[f], Buf(f)), Still
  PROVE  LWorked(f) /\ LSteady(f)
<1>1. HTaskOK' /\ OthersStay(f) /\ Buf(f) = buf[Home[f]]
  BY HStill, HTask
<1>2. LTask(task'[f], buf'[Home[f]])
  BY <1>1 DEF Still
<1>. QED
  BY <1>1, <1>2 DEF LWorked, LSteady

\* gethostbyname and connect, as actions.
LEMMA LTalks ==
  ASSUME HTaskOK, NEW f \in Fetchers, LTask(task[f], Buf(f)),
         DL!Resolve(f) \/ DL!Connect(f, "open")
  PROVE  LWorked(f)
<1>. DEFINE t == task[f]
            u == task'[f]
<1>1. /\ HTaskOK' /\ OthersStay(f)
      /\ \/ Still
         \/ t.pc = "resolve" /\ u = [t EXCEPT !.pc = "connect"]
         \/ /\ t.pc = "connect"
            /\ u = [t EXCEPT !.pc = "open", !.inp = u.inp, !.srv = u.srv, !.whole = u.whole]
            /\ u.whole => t.whole /\ u.srv = HostOf[t.url]
            /\ t.inp = <<>> /\ u.srv = HostOf[t.url] => OnItsWay(u)
  <2>1. CASE DL!Resolve(f)
    BY <2>1, HSameExchange, HResolve
  <2>2. CASE DL!Connect(f, "open")
    BY <2>2, HSameExchange, HConnect, Zenon
  <2>. QED
    BY <2>1, <2>2
<1>2. t \in Tasks /\ u \in Tasks /\ LTask(t, Buf(f))
  BY <1>1, HTask, Zenon DEF HTaskOK
<1>3. CASE Still
  BY <1>3, LStill
<1>4. CASE ~ Still
  <2>1. Works(t)
    BY <1>1, <1>4 DEF Works, Between
  <2>. HIDE DEF t, u
  <2>2. LTask(u, buf'[Home[f]]) /\ Works(u) /\ u.url = t.url
    BY <1>1, <1>2, <1>4, LConnects, LMovesOn, Zenon
  <2>. QED
    BY <1>1, <2>1, <2>2 DEF LWorked, t, u
<1>. QED
  BY <1>3, <1>4

\* The first recv, as an action.
LEMMA LFirstChunk ==
  ASSUME HTaskOK, NEW f \in Fetchers, LTask(task[f], Buf(f)), DL!FirstChunk(f)
  PROVE  LWorked(f) /\ LSteady(f)
<1>. DEFINE t == task[f]
            u == task'[f]
            b == buf'[Home[f]]
<1>0. FirstChunk(f)
  BY HSameExchange
<1>1. /\ HTaskOK' /\ OthersStay(f) /\ t.pc = "first"
      /\ Still \/
         /\ u = [t EXCEPT !.pc = "size", !.n = u.n, !.inp = u.inp, !.whole = u.whole]
         /\ u.n + Len(u.inp) = Len(t.inp)
         /\ Span(t.inp, t.url, 0) => Span(u.inp, t.url, u.n) /\ Holds(b, t.url, 0, u.n)
         /\ u.whole => t.whole /\ HeaderLen[t.url] <= u.n /\ NotMisled(u, b)
  BY <1>0, HFirstChunk, Zenon
<1>2. t \in Tasks /\ u \in Tasks
  BY <1>1, HTask, Zenon DEF HTaskOK
<1>3. CASE Still
  BY <1>3, LStill
<1>4. CASE ~ Still
  <2>1. LTask(t, Buf(f)) /\ Works(t)
    BY <1>1 DEF Works, Between
  <2>. HIDE DEF t, u, b
  <2>2. LTask(u, b) /\ Works(u) /\ u.url = t.url
    BY <1>1, <1>2, <1>4, <2>1, LFirst, Zenon
  <2>3. Holding(t, u) /\ addr' = addr
    BY <1>0, <1>1, <1>2, <1>4, HAddrKept, Zenon DEF Holding, Writing, Tasks
  <2>. QED
    BY <1>1, <2>1, <2>2, <2>3 DEF LWorked, LSteady, t, u, b
<1>. QED
  BY <1>3, <1>4

\* parseHeader, as an action.
LEMMA LParse ==
  ASSUME HTaskOK, NEW f \in Fetchers, LTask(task[f], Buf(f)), DL!parseHeader(f)
  PROVE  LWorked(f) /\ LSteady(f)
<1>. DEFINE t == task[f]
            u == task'[f]
            b == Buf(f)
<1>1. t \in Tasks /\ Placed(t) /\ b \in [1 .. BufSize -> Byte] /\ b = buf[Home[f]] /\ LTask(t, b)
  BY HTask
<1>2. CASE HasLength(b)
  <2>. DEFINE s == Length(b) + getHeaderLen(b)
  <2>1. s \in Int
    BY <1>1, <1>2, HReadTypes
  <2>2. Measure(f, s, "hdr")
    <3>1. DL!Buf(f) = b /\ DL!HasLength(b) /\ DL!Length(b) + DL!getHeaderLen(b) = s
      BY <1>2, HSameExchange, HSameReading
    <3>2. DL!Measure(f, s, "hdr")
      BY <3>1 DEF DL!parseHeader
    <3>. HIDE DEF s
    <3>. QED
      BY <3>2, HSameExchange
  <2>. HIDE DEF s
  <2>3. /\ HTaskOK' /\ OthersStay(f) /\ buf' = buf /\ t.pc = "size"
        /\ u = [t EXCEPT !.pc = "hdr", !.sz = s, !.got = t.n]
    BY <2>1, <2>2, HMeasure, Zenon
  <2>4. u \in Tasks /\ Works(t)
    BY <2>3, Zenon DEF HTaskOK, Works, Between
  <2>. HIDE DEF t, u, b
  <2>5. LTask(u, b) /\ Works(u) /\ u.url = t.url
    BY <1>1, <1>2, <2>3, <2>4, LMeasures, Zenon DEF s
  <2>6. Holding(t, u) /\ addr' = addr
    BY <1>1, <2>2, <2>3, HAddrKept, Zenon DEF Holding, Writing, Tasks
  <2>. QED
    BY <1>1, <2>3, <2>4, <2>5, <2>6 DEF LWorked, LSteady, t, u
<1>3. CASE ~ HasLength(b)
  <2>1. ~ DL!HasLength(DL!Buf(f))
    BY <1>3, HSameExchange, HSameReading
  <2>2. CASE Exit(f)
    BY <2>2, HExit, LStill
  <2>3. CASE ~ Exit(f)
    <3>1. t.pc = "size" /\ Goes(f, [t EXCEPT !.pc = "hang"])
      BY <2>1, <2>3, HSameExchange DEF DL!parseHeader, DL!Step, At
    <3>2. t.pc \notin Between \cup {"done"} /\ "hang" \in Points /\ Works(t)
      BY <3>1 DEF Between, Points, Works
    <3>3. HTaskOK' /\ OthersStay(f) /\ buf' = buf /\ u = [t EXCEPT !.pc = "hang"]
      BY <3>1, <3>2, HMoveOn
    <3>. HIDE DEF t, u, b
    <3>4. LTask(u, b) /\ Works(u) /\ u.url = t.url
      BY <1>1, <3>3, LHangs
    <3>5. Holding(t, u) /\ addr' = addr
      BY <1>1, <3>1, <3>3, HAddrKept, Zenon DEF Holding, Writing, Tasks
    <3>. QED
      BY <1>1, <3>2, <3>3, <3>4, <3>5 DEF LWorked, LSteady, t, u
  <2>. QED
    BY <2>2, <2>3
<1>. QED
  BY <1>2, <1>3

\* The removal of the header, as an action.
LEMMA LStrip ==
  ASSUME HTaskOK, NEW f \in Fetchers, LTask(task[f], Buf(f)), DL!StripHeader(f)
  PROVE  LWorked(f) /\ LSteady(f)
<1>. DEFINE t == task[f]
            u == task'[f]
            b == Buf(f)
            h == getHeaderLen(b)
            z == [i \in 1 .. BufSize |-> Zero]
            m == [i \in 1 .. BufSize |-> IF i <= Len(t.bufD) THEN t.bufD[i] ELSE Zero]
<1>1. t \in Tasks /\ Placed(t) /\ b \in [1 .. BufSize -> Byte] /\ b = buf[Home[f]] /\ LTask(t, b)
  BY HTask
<1>2. DL!Buf(f) = b /\ DL!getHeaderLen(b) = h /\ DL!Zero = Zero
  BY HSameExchange, HSameReading DEF DL!Zero, Zero
<1>3. CASE t.pc = "hdr" /\ Goes(f, [t EXCEPT !.pc = "copy", !.hdr = h])
  <2>. DEFINE v == [t EXCEPT !.pc = "copy", !.hdr = h]
  <2>1. h \in Nat /\ "copy" \in Points
    BY <1>1, HReadTypes DEF Points
  <2>. HIDE DEF h
  <2>2. v \in Tasks /\ v.pc = "copy" /\ v.n = t.n /\ v.url = t.url
    <3>. HIDE DEF t
    <3>. QED
      BY <1>1, <2>1, Zenon DEF Tasks
  <2>3. Placed(v) /\ Works(t)
    BY <1>1, <1>3, <2>2 DEF Placed, Works, Between
  <2>4. v = [t EXCEPT !.pc = "copy", !.hdr = getHeaderLen(b)]
    BY DEF h
  <2>5. t.pc = "hdr" /\ Goes(f, v)
    BY <1>3
  <2>. HIDE DEF v
  <2>6. u = v /\ HTaskOK' /\ OthersStay(f) /\ buf' = buf
    BY <2>2, <2>3, <2>5, HGoes
  <2>. HIDE DEF t, u, b
  <2>7. LTask(v, b) /\ Works(v) /\ v.url = t.url
    BY <1>1, <2>2, <2>4, <2>5, LHeader, Zenon
  <2>8. Holding(t, v) /\ addr' = addr
    BY <1>1, <2>4, <2>5, HAddrKept, Zenon DEF Holding, Writing, Tasks
  <2>. QED
    BY <1>1, <2>3, <2>6, <2>7, <2>8 DEF LWorked, LSteady, t, u
<1>4. CASE /\ t.pc = "copy" /\ ~ (t.n < t.hdr)
           /\ Goes(f, [t EXCEPT !.pc = "clear1", !.bufD = SubSeq(b, t.hdr + 1, t.n)])
  <2>. DEFINE s == SubSeq(b, t.hdr + 1, t.n)
              v == [t EXCEPT !.pc = "clear1", !.bufD = s]
  <2>1. t.n \in Nat /\ t.hdr \in Nat /\ t.hdr <= t.n /\ t.n <= BufSize
    <3>1. t.n \in Nat /\ t.hdr \in Nat /\ t.n <= BufSize
      BY <1>1, <1>4, Zenon DEF Tasks, Placed
    <3>. HIDE DEF t
    <3>. QED
      BY <1>4, <3>1
  <2>2. s \in Seq(Byte) /\ "clear1" \in Points
    <3>1. "clear1" \in Points
      BY DEF Points
    <3>. HIDE DEF t, b
    <3>. QED
      BY <1>1, <2>1, <3>1, HPart
  <2>3. v \in Tasks
    <3>. HIDE DEF t, s
    <3>. QED
      BY <1>1, <2>2, Zenon DEF Tasks
  <2>4. t.pc = "copy" /\ Goes(f, v) /\ Works(t)
    BY <1>4 DEF Works, Between
  <2>5. LTask(v, b) /\ Works(v) /\ v.url = t.url /\ Placed(v)
    <3>1. v = [t EXCEPT !.pc = "clear1", !.bufD = SubSeq(b, t.hdr + 1, t.n)]
      OBVIOUS
    <3>. HIDE DEF v, t, b
    <3>. QED
      BY <1>1, <2>1, <2>3, <2>4, <3>1, LCopies, Zenon
  <2>7. Holding(t, v) /\ addr' = addr
    <3>1. addr' = addr
      BY <2>4, HAddrKept
    <3>. HIDE DEF t, s
    <3>. QED
      BY <1>1, <2>4, <3>1, Zenon DEF Holding, Writing, Tasks
  <2>. HIDE DEF v
  <2>6. u = v /\ HTaskOK' /\ OthersStay(f) /\ buf' = buf
    BY <2>3, <2>4, <2>5, HGoes
  <2>. QED
    BY <1>1, <2>4, <2>5, <2>6, <2>7 DEF LWorked, LSteady
<1>5. CASE t.pc = "clear1" /\ Writes(f, [t EXCEPT !.pc = "back"], z)
  <2>. DEFINE v == [t EXCEPT !.pc = "back"]
  <2>1. v \in Tasks
    <3>. HIDE DEF t
    <3>. QED
      BY <1>1, Zenon DEF Tasks, Points
  <2>2. t.pc = "clear1" /\ Writes(f, v, z) /\ Works(t) /\ v = [t EXCEPT !.pc = "back"]
    BY <1>5 DEF Works, Between
  <2>3. z \in [1 .. BufSize -> Byte]
    BY HZero
  <2>. HIDE DEF v, z
  <2>4. LTask(v, z) /\ Works(v) /\ v.url = t.url /\ Placed(v)
    <3>. HIDE DEF t, b
    <3>. QED
      BY <1>1, <2>1, <2>2, LClears
  <2>5. u = v /\ HTaskOK' /\ OthersStay(f) /\ buf'[Home[f]] = z
    BY <2>1, <2>2, <2>3, <2>4, HWrites
  <2>6. Holding(t, v) /\ addr' = addr
    <3>. HIDE DEF t
    <3>. QED
      BY <1>1, <2>2, HAddrKept, Zenon DEF Holding, Writing, Tasks
  <2>. QED
    BY <2>2, <2>4, <2>5, <2>6 DEF LWorked, LSteady
<1>6. CASE t.pc = "back" /\ Writes(f, [t EXCEPT !.pc = "write1", !.n = Len(t.bufD)], m)
  <2>. DEFINE k == Len(t.bufD)
              v == [t EXCEPT !.pc = "write1", !.n = k]
  <2>1. k \in Nat /\ "write1" \in Points
    BY HTask, HEmpty DEF Points
  <2>2. v \in Tasks
    <3>. HIDE DEF t, k
    <3>. QED
      BY <1>1, <2>1, Zenon DEF Tasks
  <2>3. /\ t.pc = "back" /\ Writes(f, v, m) /\ Works(t)
        /\ v = [t EXCEPT !.pc = "write1", !.n = Len(t.bufD)]
        /\ m = [i \in 1 .. BufSize |-> IF i <= Len(t.bufD) THEN t.bufD[i] ELSE Zero]
    BY <1>6 DEF Works, Between
  <2>. HIDE DEF v, m
  <2>4. LTask(v, m) /\ Works(v) /\ v.url = t.url /\ Placed(v) /\ m \in [1 .. BufSize -> Byte]
    <3>. HIDE DEF t, b
    <3>. QED
      BY <1>1, <2>2, <2>3, LMovesBack, Zenon
  <2>5. u = v /\ HTaskOK' /\ OthersStay(f) /\ buf'[Home[f]] = m
    BY <2>2, <2>3, <2>4, HWrites
  <2>6. Holding(t, v) /\ addr' = addr
    <3>. HIDE DEF t
    <3>. QED
      BY <1>1, <2>3, HAddrKept, Zenon DEF Holding, Writing, Tasks
  <2>. QED
    BY <2>3, <2>4, <2>5, <2>6 DEF LWorked, LSteady
<1>7. CASE Exit(f)
  BY <1>7, HExit, LStill
<1>. QED
  BY <1>2, <1>3, <1>4, <1>5, <1>6, <1>7, HSameExchange DEF DL!StripHeader, At

\* What the file holds after the bytes up to m have gone to it.
LEMMA LOverlay ==
  ASSUME NEW s \in Seq(Byte), NEW p \in Seq(Byte), NEW k \in Nat, NEW m \in Nat,
         m = k \/ m = Len(p)
  PROVE  /\ DL!Overlay(s, p, k, m) \in Seq(Byte)
         /\ \A o \in Seq(Byte) :
              /\ k <= Len(o) /\ Len(o) <= Len(p) /\ \A i \in 1 .. Len(o) : p[i] = o[i]
              /\ s = SubSeq(o, 1, k)
              => DL!Overlay(s, p, k, m) = SubSeq(p, 1, m) /\ m <= Len(p)
<1>. DEFINE z == DL!Max({Len(s), m})
            v == DL!Overlay(s, p, k, m)
<1>0. Len(s) \in Nat /\ Len(p) \in Nat
  OBVIOUS
<1>1. z \in Nat /\ (Len(s) < m => z = m)
  <2>. DEFINE c == IF Len(s) <= m THEN m ELSE Len(s)
  <2>1. c \in {Len(s), m} /\ \A y \in {Len(s), m} : c >= y
    BY <1>0
  <2>2. \A x \in {Len(s), m} : (\A y \in {Len(s), m} : x >= y) => x = c
    BY <1>0
  <2>3. z = CHOOSE x \in {Len(s), m} : \A y \in {Len(s), m} : x >= y
    BY DEF DL!Max
  <2>. HIDE DEF c, z
  <2>4. z = c
    BY <2>1, <2>2, <2>3
  <2>. QED
    BY <1>0, <2>4 DEF c
<1>2. k # m => v = [i \in 1 .. z |-> IF k < i /\ i <= m THEN p[i]
                                     ELSE IF i <= Len(s) THEN s[i] ELSE Zero]
  BY DEF DL!Overlay, DL!Zero, Zero
<1>3. k = m => v = s
  BY DEF DL!Overlay
<1>. HIDE DEF z, v
<1>4. v \in Seq(Byte)
  <2>1. CASE k = m
    BY <1>3, <2>1
  <2>2. CASE k # m
    <3>1. \A i \in 1 .. z : (IF k < i /\ i <= m THEN p[i] ELSE IF i <= Len(s) THEN s[i] ELSE Zero) \in Byte
      <4>1. \A i \in 1 .. Len(p) : p[i] \in Byte
        OBVIOUS
      <4>2. \A i \in 1 .. Len(s) : s[i] \in Byte
        OBVIOUS
      <4>. QED
        BY <1>0, <1>1, <2>2, <4>1, <4>2, HZero
    <3>2. v \in [1 .. z -> Byte]
      BY <1>2, <2>2, <3>1
    <3>. QED
      BY <1>1, <3>2
  <2>. QED
    BY <2>1, <2>2
<1>5. ASSUME NEW o \in Seq(Byte), k <= Len(o), Len(o) <= Len(p),
             \A i \in 1 .. Len(o) : p[i] = o[i], s = SubSeq(o, 1, k)
      PROVE  v = SubSeq(p, 1, m) /\ m <= Len(p)
  <2>0. Len(o) \in Nat
    OBVIOUS
  <2>1. Len(s) = k /\ \A i \in 1 .. k : s[i] = p[i]
    BY <1>5, <2>0
  <2>2. m <= Len(p)
    BY <1>0, <1>5, <2>0
  <2>3. SubSeq(p, 1, m) = [i \in 1 .. m |-> p[i]]
    BY <1>0, <2>2
  <2>4. CASE k = m
    <3>1. s = [i \in 1 .. k |-> s[i]]
      BY <2>1
    <3>2. [i \in 1 .. k |-> s[i]] = [i \in 1 .. m |-> p[i]]
      BY <2>1, <2>4
    <3>. QED
      BY <1>3, <2>2, <2>3, <2>4, <3>1, <3>2
  <2>5. CASE k # m
    <3>1. k < m /\ z = m
      BY <1>0, <1>1, <1>5, <2>0, <2>1, <2>5
    <3>2. \A i \in 1 .. m : (IF k < i /\ i <= m THEN p[i] ELSE IF i <= Len(s) THEN s[i] ELSE Zero) = p[i]
      BY <2>1, <3>1
    <3>. QED
      BY <1>2, <2>2, <2>3, <2>5, <3>1, <3>2
  <2>. QED
    BY <2>4, <2>5
<1>6. \A o \in Seq(Byte) :
        /\ k <= Len(o) /\ Len(o) <= Len(p) /\ \A i \in 1 .. Len(o) : p[i] = o[i]
        /\ s = SubSeq(o, 1, k)
        => v = SubSeq(p, 1, m) /\ m <= Len(p)
  BY <1>5
<1>. QED
  BY <1>4, <1>6 DEF v

\* A step of f writes to its file, and to no other.
LWritten(f) ==
  LET t == task[f]
      u == task'[f]
  IN  /\ t.pc \in Writing \cup {"open"} /\ t.url \in Urls /\ u.url = t.url /\ addr' = addr
      /\ files' \in [DL!Names -> Seq(Byte)]
      /\ \A n \in DL!Names \ {NameOf[t.url]} : files'[n] = files[n]
      /\ t.pc = "open" \/ InFile(t) =>
           files'[NameOf[t.url]] = SubSeq(u.out, 1, u.put) /\ u.put <= Len(u.out)

\* oFile.write, as far as the file is concerned.
LEMMA LPuts ==
  ASSUME HTypeOK, NEW f \in Fetchers, task[f].pc \in Writing, task[f].url \in Urls,
         NEW v \in Tasks, v.put = task[f].put, v.url = task[f].url,
         Len(task[f].out) <= Len(v.out),
         \A i \in 1 .. Len(task[f].out) : v.out[i] = task[f].out[i],
         NEW ks \in SUBSET {v.put, Len(v.out)}, DL!Put(f, v, ks),
         \A k \in ks : Placed([v EXCEPT !.put = k])
  PROVE  /\ LWritten(f) /\ HTaskOK' /\ OthersStay(f) /\ buf' = buf
         /\ \E k \in ks : k \in Nat /\ task'[f] = [v EXCEPT !.put = k]
<1>. DEFINE t == task[f]
            n == NameOf[t.url]
            p == v.out
<1>1. PICK k \in ks : /\ Goes(f, [v EXCEPT !.put = k])
                      /\ files' = [files EXCEPT ![n] = DL!Overlay(@, p, v.put, k)]
  BY HSameExchange DEF DL!Put, DL!Name
<1>2. /\ v.put \in Nat /\ p \in Seq(Byte) /\ k \in Nat /\ (k = v.put \/ k = Len(p))
      /\ t.out \in Seq(Byte) /\ t.put \in Nat
  <2>1. v.put \in Nat /\ p \in Seq(Byte) /\ t.out \in Seq(Byte) /\ t.put \in Nat
    BY HTask, Zenon DEF HTypeOK, Tasks
  <2>2. k \in {v.put, Len(v.out)}
    OBVIOUS
  <2>. QED
    BY <2>1, <2>2, HEmpty
<1>. DEFINE u == [v EXCEPT !.put = k]
<1>3. u \in Tasks /\ u.out = p /\ u.put = k /\ u.url = t.url
  BY <1>2, Zenon DEF Tasks
<1>4. /\ task'[f] = u /\ HTaskOK' /\ OthersStay(f) /\ buf' = buf /\ addr' = addr
  BY <1>1, <1>3, HGoes DEF HTypeOK
<1>5. n \in DL!Names /\ files \in [DL!Names -> Seq(Byte)]
  BY DEF HTypeOK, DL!Names
<1>. HIDE DEF n
<1>6. files[n] \in Seq(Byte)
  BY <1>5
<1>. HIDE DEF p, u
<1>7. /\ DL!Overlay(files[n], p, v.put, k) \in Seq(Byte)
      /\ InFile(t) => DL!Overlay(files[n], p, v.put, k) = SubSeq(p, 1, k) /\ k <= Len(p)
  <2>1. InFile(t) => files[n] = SubSeq(t.out, 1, v.put) /\ v.put <= Len(t.out)
    BY DEF InFile, n
  <2>2. Len(t.out) <= Len(p) /\ \A i \in 1 .. Len(t.out) : p[i] = t.out[i]
    BY DEF p
  <2>. HIDE DEF t
  <2>. QED
    BY <1>2, <1>6, <2>1, <2>2, LOverlay
<1>8. /\ files'[n] = DL!Overlay(files[n], p, v.put, k) /\ files' \in [DL!Names -> Seq(Byte)]
      /\ \A m \in DL!Names \ {n} : files'[m] = files[m]
  BY <1>1, <1>5, <1>7
<1>9. t.pc # "open"
  BY DEF Writing
<1>10. LWritten(f)
  BY <1>3, <1>4, <1>7, <1>8, <1>9 DEF LWritten, n
<1>. QED
  BY <1>2, <1>4, <1>10 DEF u

\* The file is emptied, as an action.
LEMMA LOpens ==
  ASSUME HTypeOK, NEW f \in Fetchers, LTask(task[f], Buf(f)), DL!Open(f)
  PROVE  /\ LWorked(f) /\ LWritten(f) /\ task'[f].pc = "first"
         /\ task'[f].con = task[f].con /\ task'[f].srv = task[f].srv
<1>. DEFINE t == task[f]
            u == task'[f]
            n == NameOf[t.url]
<1>1. /\ t.pc = "open" /\ Goes(f, [t EXCEPT !.pc = "first"])
      /\ files' = [files EXCEPT ![n] = <<>>] /\ HTaskOK
  BY HSameExchange DEF DL!Open, At, DL!Name, HTypeOK
<1>2. t.pc \notin Between \cup {"done"} /\ "first" \in Points /\ Works(t)
  BY <1>1 DEF Between, Points, Works
<1>3. HTaskOK' /\ OthersStay(f) /\ buf' = buf /\ u = [t EXCEPT !.pc = "first"] /\ addr' = addr
  BY <1>1, <1>2, HMoveOn, HAddrKept
<1>4. /\ t \in Tasks /\ u \in Tasks /\ t.url \in Urls /\ LTask(t, Buf(f))
      /\ t.out = <<>> /\ t.put = 0
  BY <1>1, <1>2, <1>3, HTask, Zenon DEF HTaskOK, Placed, LTask, Unwritten
<1>5. n \in DL!Names /\ files \in [DL!Names -> Seq(Byte)]
  BY <1>4 DEF HTypeOK, DL!Names
<1>. HIDE DEF n
<1>6. /\ files' \in [DL!Names -> Seq(Byte)] /\ files'[n] = <<>>
      /\ \A m \in DL!Names \ {n} : files'[m] = files[m]
  BY <1>1, <1>5, HEmpty
<1>. HIDE DEF t, u
<1>7. LTask(u, buf'[Home[f]]) /\ Works(u) /\ u.url = t.url
  BY <1>1, <1>3, <1>4, LMovesOn
<1>8. u.pc = "first" /\ u.out = <<>> /\ u.put = 0 /\ u.con = t.con /\ u.srv = t.srv
  BY <1>3, <1>4, Zenon DEF Tasks
<1>9. SubSeq(u.out, 1, u.put) = <<>> /\ u.put <= Len(u.out)
  BY <1>8
<1>10. LWritten(f)
  BY <1>1, <1>3, <1>4, <1>6, <1>7, <1>9 DEF LWritten, t, u, n
<1>. QED
  BY <1>2, <1>3, <1>7, <1>8, <1>10 DEF LWorked, t, u

\* The first write, as an action.
LEMMA LWriteFirst ==
  ASSUME HTypeOK, NEW f \in Fetchers, LTask(task[f], Buf(f)), DL!WriteFirst(f)
  PROVE  /\ LWorked(f) /\ LWritten(f) /\ task'[f].pc = "loop"
         /\ task'[f].con = task[f].con /\ task'[f].srv = task[f].srv
<1>. DEFINE t == task[f]
            b == Buf(f)
            u == task'[f]
            s == SubSeq(b, 1, t.n)
            d == t.sz - t.hdr
            v == [t EXCEPT !.pc = "loop", !.got = t.n, !.sz = d, !.out = s]
            ks == {0, Len(v.out)}
<1>1. /\ t \in Tasks /\ Placed(t) /\ b \in [1 .. BufSize -> Byte] /\ b = buf[Home[f]]
      /\ LTask(t, b) /\ t.pc = "write1" /\ DL!Put(f, v, ks)
  <2>1. DL!Buf(f) = b /\ DL!BodySize(t) = d
    BY HSameExchange DEF DL!BodySize
  <2>2. DL!Put(f, v, ks) /\ t.pc = "write1"
    BY <2>1, HSameExchange DEF DL!WriteFirst, At
  <2>. QED
    BY <2>2, HTask DEF HTypeOK
<1>2. /\ t.n \in Nat /\ t.n \in Int /\ d \in Int /\ s \in Seq(Byte) /\ "loop" \in Points /\ t.url \in Urls
      /\ t.out = <<>> /\ t.put = 0 /\ Works(t) /\ t.pc \in Writing
  <2>1. t.n \in Nat /\ t.hdr \in Nat /\ t.sz \in Int /\ t.n <= BufSize /\ t.url \in Urls
    BY <1>1, Zenon DEF Tasks, Placed, Between
  <2>2. t.out = <<>> /\ t.put = 0
    BY <1>1 DEF LTask, Unwritten
  <2>3. "loop" \in Points /\ Works(t) /\ t.pc \in Writing
    BY <1>1 DEF Points, Works, Writing, Between
  <2>. HIDE DEF t, b
  <2>. QED
    BY <1>1, <2>1, <2>2, <2>3, HFront
<1>3. /\ v \in Tasks /\ v.pc = "loop" /\ v.url = t.url /\ v.put = t.put /\ v.out = s
      /\ v.con = t.con /\ v.srv = t.srv
  <2>. HIDE DEF t, d, s
  <2>. QED
    BY <1>1, <1>2, Zenon DEF Tasks
<1>4. \A k \in ks : /\ [v EXCEPT !.put = k] = WroteFirst(t, b, k) /\ Placed([v EXCEPT !.put = k])
                    /\ [v EXCEPT !.put = k].pc = "loop" /\ [v EXCEPT !.put = k].url = t.url
                    /\ [v EXCEPT !.put = k].con = t.con /\ [v EXCEPT !.put = k].srv = t.srv
  <2>. TAKE k \in ks
  <2>1. [v EXCEPT !.put = k] = WroteFirst(t, b, k)
    <3>. HIDE DEF t, b
    <3>. QED
      BY <1>1, Zenon DEF WroteFirst, Tasks
  <2>. HIDE DEF v
  <2>. DEFINE w == [v EXCEPT !.put = k]
  <2>2. w.pc = "loop" /\ w.url = t.url /\ w.con = t.con /\ w.srv = t.srv
    BY <1>3, Zenon DEF Tasks
  <2>3. Placed(w)
    BY <1>2, <2>2 DEF Placed
  <2>. QED
    BY <2>1, <2>2, <2>3
<1>5. ks \in SUBSET {v.put, Len(v.out)}
  BY <1>2, <1>3
<1>6. Len(t.out) <= Len(v.out) /\ \A i \in 1 .. Len(t.out) : v.out[i] = t.out[i]
  <2>1. Len(t.out) = 0 /\ Len(v.out) \in Nat
    BY <1>2, <1>3
  <2>2. t.out = <<>>
    BY <1>2
  <2>. HIDE DEF t, v
  <2>. QED
    BY <2>1, <2>2
<1>. HIDE DEF v, ks
<1>7. /\ LWritten(f) /\ HTaskOK' /\ OthersStay(f) /\ buf' = buf
      /\ \E k \in ks : k \in Nat /\ u = [v EXCEPT !.put = k]
  <2>1. DL!Put(f, v, ks) /\ v.put = task[f].put /\ v.url = task[f].url /\ v \in Tasks
    BY <1>1, <1>3
  <2>2. task[f].pc \in Writing /\ task[f].url \in Urls
    BY <1>2
  <2>3. \A k \in ks : Placed([v EXCEPT !.put = k])
    BY <1>4
  <2>4. /\ Len(task[f].out) <= Len(v.out)
        /\ \A i \in 1 .. Len(task[f].out) : v.out[i] = task[f].out[i]
    BY <1>6
  <2>. QED
    BY <1>5, <2>1, <2>2, <2>3, <2>4, LPuts
<1>8. PICK k \in ks : k \in Nat /\ u = [v EXCEPT !.put = k]
  BY <1>7
<1>9. u = WroteFirst(t, b, k) /\ u.pc = "loop" /\ u.con = t.con /\ u.srv = t.srv /\ u \in Tasks
  BY <1>4, <1>7, <1>8, Zenon DEF HTaskOK
<1>. HIDE DEF t, b, u
<1>10. LTask(u, b) /\ Works(u) /\ u.url = t.url
  BY <1>1, <1>9, LWritesFirst
<1>. QED
  BY <1>1, <1>2, <1>7, <1>9, <1>10 DEF LWorked, t, u

\* The other writes, as an action.
LEMMA LWrite ==
  ASSUME HTypeOK, NEW f \in Fetchers, LTask(task[f], Buf(f)), DL!Write(f)
  PROVE  /\ LWorked(f) /\ LWritten(f) /\ task'[f].pc = "loop"
         /\ task'[f].con = task[f].con /\ task'[f].srv = task[f].srv
<1>. DEFINE t == task[f]
            b == Buf(f)
            u == task'[f]
            s == t.out \o SubSeq(b, 1, t.n)
            v == [t EXCEPT !.pc = "loop", !.out = s]
            ks == {v.put, Len(v.out)}
<1>1. /\ t \in Tasks /\ Placed(t) /\ b \in [1 .. BufSize -> Byte] /\ b = buf[Home[f]]
      /\ LTask(t, b) /\ t.pc = "pass" /\ DL!Put(f, v, ks)
  <2>1. DL!Buf(f) = b
    BY HSameExchange
  <2>2. DL!Put(f, v, ks) /\ t.pc = "pass"
    BY <2>1, HSameExchange DEF DL!Write, At
  <2>. QED
    BY <2>2, HTask DEF HTypeOK
<1>2. /\ s \in Seq(Byte) /\ "loop" \in Points /\ t.url \in Urls /\ Works(t) /\ t.pc \in Writing
      /\ Len(t.out) <= Len(s) /\ \A i \in 1 .. Len(t.out) : s[i] = t.out[i]
  <2>1. t.n \in Nat /\ t.n <= BufSize /\ t.url \in Urls /\ t.out \in Seq(Byte)
    BY <1>1, Zenon DEF Tasks, Placed, Between
  <2>2. "loop" \in Points /\ Works(t) /\ t.pc \in Writing
    BY <1>1 DEF Points, Works, Writing, Between
  <2>. HIDE DEF t, b
  <2>3. SubSeq(b, 1, t.n) \in Seq(Byte)
    BY <1>1, <2>1, HFront
  <2>. QED
    BY <2>1, <2>2, <2>3
<1>3. /\ v \in Tasks /\ v.pc = "loop" /\ v.url = t.url /\ v.put = t.put /\ v.out = s
      /\ v.con = t.con /\ v.srv = t.srv
  <2>. HIDE DEF t, s
  <2>. QED
    BY <1>1, <1>2, Zenon DEF Tasks
<1>4. \A k \in ks : /\ [v EXCEPT !.put = k] = Wrote(t, b, k) /\ Placed([v EXCEPT !.put = k])
                    /\ [v EXCEPT !.put = k].pc = "loop" /\ [v EXCEPT !.put = k].url = t.url
                    /\ [v EXCEPT !.put = k].con = t.con /\ [v EXCEPT !.put = k].srv = t.srv
  <2>. TAKE k \in ks
  <2>1. [v EXCEPT !.put = k] = Wrote(t, b, k)
    <3>. HIDE DEF t, b
    <3>. QED
      BY <1>1, Zenon DEF Wrote, Tasks
  <2>. HIDE DEF v
  <2>. DEFINE w == [v EXCEPT !.put = k]
  <2>2. w.pc = "loop" /\ w.url = t.url /\ w.con = t.con /\ w.srv = t.srv
    BY <1>3, Zenon DEF Tasks
  <2>3. Placed(w)
    BY <1>2, <2>2 DEF Placed
  <2>. QED
    BY <2>1, <2>2, <2>3
<1>5. ks \in SUBSET {v.put, Len(v.out)}
  OBVIOUS
<1>6. Len(t.out) <= Len(v.out) /\ \A i \in 1 .. Len(t.out) : v.out[i] = t.out[i]
  BY <1>2, <1>3
<1>. HIDE DEF v, ks
<1>7. /\ LWritten(f) /\ HTaskOK' /\ OthersStay(f) /\ buf' = buf
      /\ \E k \in ks : k \in Nat /\ u = [v EXCEPT !.put = k]
  <2>1. DL!Put(f, v, ks) /\ v.put = task[f].put /\ v.url = task[f].url /\ v \in Tasks
    BY <1>1, <1>3
  <2>2. task[f].pc \in Writing /\ task[f].url \in Urls
    BY <1>2
  <2>3. \A k \in ks : Placed([v EXCEPT !.put = k])
    BY <1>4
  <2>4. /\ Len(task[f].out) <= Len(v.out)
        /\ \A i \in 1 .. Len(task[f].out) : v.out[i] = task[f].out[i]
    BY <1>6
  <2>. QED
    BY <1>5, <2>1, <2>2, <2>3, <2>4, LPuts
<1>8. PICK k \in ks : k \in Nat /\ u = [v EXCEPT !.put = k]
  BY <1>7
<1>9. u = Wrote(t, b, k) /\ u.pc = "loop" /\ u.con = t.con /\ u.srv = t.srv /\ u \in Tasks
  BY <1>4, <1>7, <1>8, Zenon DEF HTaskOK
<1>. HIDE DEF t, b, u
<1>10. LTask(u, b) /\ Works(u) /\ u.url = t.url
  BY <1>1, <1>9, LWritesOn
<1>. QED
  BY <1>1, <1>2, <1>7, <1>9, <1>10 DEF LWorked, t, u

\* The file is closed, as an action: it holds the body.
LEMMA LFinishes ==
  ASSUME HTypeOK, NEW f \in Fetchers, LTask(task[f], Buf(f)),
         NEW next \in {"line", "next", "done"}, NEW keep \in BOOLEAN,
         next = "done" => ~ keep, DL!Finish(f, next, keep)
  PROVE  /\ HTaskOK' /\ OthersStay(f) /\ LTask(task'[f], buf'[Home[f]]) /\ LWritten(f)
         /\ task'[f].pc = next /\ task'[f].srv = task[f].srv
         /\ task'[f].con = task[f].con \/ keep
         /\ task'[f].whole => /\ task'[f].out = Body(task[f].url)
                              /\ task'[f].put = Len(task'[f].out)
<1>. DEFINE t == task[f]
            b == Buf(f)
            u == task'[f]
            v == IF keep THEN [t EXCEPT !.pc = next, !.con = TRUE]
                 ELSE [t EXCEPT !.pc = next, !.inp = <<>>]
            ks == {Len(v.out)}
<1>1. /\ t \in Tasks /\ Placed(t) /\ LTask(t, b) /\ t.pc = "close" /\ DL!Put(f, v, ks)
  BY HTask, HSameExchange DEF HTypeOK, DL!Finish, At
<1>2. /\ t.url \in Urls /\ next \in Points /\ t.pc \in Writing /\ t.out \in Seq(Byte)
      /\ next \in Between \cup {"done"}
      /\ next \notin {"size", "hdr", "copy", "write1", "pass", "keep", "clear1", "back"}
  BY <1>1, Zenon DEF Placed, Between, Points, Writing, Tasks
<1>3. /\ v \in Tasks /\ v.pc = next /\ v.url = t.url /\ v.put = t.put /\ v.out = t.out
      /\ v.srv = t.srv /\ v.whole = t.whole /\ (v.con = t.con \/ keep)
  <2>. HIDE DEF t
  <2>1. CASE keep
    BY <1>1, <1>2, <2>1, Zenon DEF Tasks
  <2>2. CASE ~ keep
    BY <1>1, <1>2, <2>2, HEmpty, Zenon DEF Tasks
  <2>. QED
    BY <2>1, <2>2
<1>4. \A k \in ks : /\ k \in Nat => LTask([v EXCEPT !.put = k], b)
                    /\ Placed([v EXCEPT !.put = k])
                    /\ [v EXCEPT !.put = k].pc = next /\ [v EXCEPT !.put = k].url = t.url
                    /\ [v EXCEPT !.put = k].srv = t.srv /\ [v EXCEPT !.put = k].whole = t.whole
                    /\ [v EXCEPT !.put = k].con = t.con \/ keep
                    /\ [v EXCEPT !.put = k].out = t.out /\ [v EXCEPT !.put = k].put = Len(t.out)
  <2>. TAKE k \in ks
  <2>. DEFINE w == [v EXCEPT !.put = k]
  <2>1. /\ keep => w = [t EXCEPT !.pc = next, !.con = TRUE, !.put = k]
        /\ ~ keep => w = [t EXCEPT !.pc = next, !.inp = <<>>, !.put = k]
    <3>. HIDE DEF t
    <3>. QED
      BY <1>1, Zenon DEF Tasks
  <2>2. k = Len(t.out)
    BY <1>3
  <2>. HIDE DEF v
  <2>3. /\ w.pc = next /\ w.url = t.url /\ w.srv = t.srv /\ w.whole = t.whole
        /\ w.con = t.con \/ keep
        /\ w.out = t.out /\ w.put = k
    BY <1>3, Zenon DEF Tasks
  <2>4. Placed(w)
    BY <1>2, <2>3 DEF Placed
  <2>. HIDE DEF w, t, b
  <2>5. ASSUME k \in Nat PROVE LTask(w, b)
    <3>1. /\ next # "done" => LTask([t EXCEPT !.pc = next, !.con = TRUE, !.put = k], b)
          /\ LTask([t EXCEPT !.pc = next, !.inp = <<>>, !.put = k], b)
      BY <1>1, <2>5, LCloses, Zenon
    <3>2. CASE keep
      BY <2>1, <3>1, <3>2
    <3>3. CASE ~ keep
      BY <2>1, <3>1, <3>3
    <3>. QED
      BY <3>2, <3>3
  <2>. QED
    BY <2>2, <2>3, <2>4, <2>5 DEF w
<1>5. ks \in SUBSET {v.put, Len(v.out)}
  OBVIOUS
<1>6. Len(t.out) <= Len(v.out) /\ \A i \in 1 .. Len(t.out) : v.out[i] = t.out[i]
  BY <1>2, <1>3
<1>. HIDE DEF v, ks
<1>7. /\ LWritten(f) /\ HTaskOK' /\ OthersStay(f) /\ buf' = buf
      /\ \E k \in ks : k \in Nat /\ u = [v EXCEPT !.put = k]
  BY <1>1, <1>2, <1>3, <1>4, <1>5, <1>6, LPuts
<1>8. PICK k \in ks : k \in Nat /\ u = [v EXCEPT !.put = k]
  BY <1>7
<1>9. /\ LTask(u, b) /\ u.pc = next /\ u.srv = t.srv /\ u.whole = t.whole
      /\ u.con = t.con \/ keep
      /\ u.out = t.out /\ u.put = Len(t.out)
  BY <1>4, <1>8
<1>10. LTask(u, buf'[Home[f]])
  BY <1>7, <1>9, HTask DEF HTypeOK
<1>11. t.whole => t.out = Body(t.url)
  <2>. HIDE DEF t, b
  <2>. QED
    BY <1>1, LCloses, Zenon
<1>. QED
  BY <1>7, <1>9, <1>10, <1>11

\* The loop, as an action.
LEMMA LLoop ==
  ASSUME HTaskOK, NEW f \in Fetchers, LTask(task[f], Buf(f)), DL!Loop(f, "close")
  PROVE  LWorked(f) /\ LSteady(f)
<1>. DEFINE t == task[f]
            u == task'[f]
            b == Buf(f)
            c == buf'[Home[f]]
<1>1. t \in Tasks /\ Placed(t) /\ LTask(t, b) /\ (HTaskOK' => u \in Tasks)
  BY HTask, Zenon DEF HTaskOK
<1>2. ASSUME HTaskOK', OthersStay(f), addr' = addr,
             \/ t.pc = "loop" /\ u = [t EXCEPT !.pc = "clear"]
             \/ t.pc = "clear" /\ u = [t EXCEPT !.pc = "more"]
             \/ t.pc = "loop" /\ t.got >= t.sz /\ u = [t EXCEPT !.pc = "close"]
      PROVE  LWorked(f) /\ LSteady(f)
  <2>1. Works(t)
    BY <1>2 DEF Works, Between
  <2>. HIDE DEF t, u, b, c
  <2>2. LTask(u, c) /\ Works(u) /\ u.url = t.url
    BY <1>1, <1>2, LTurns
  <2>3. Holding(t, u)
    BY <1>1, <1>2, Zenon DEF Holding, Writing, Tasks
  <2>. QED
    BY <1>2, <2>1, <2>2, <2>3 DEF LWorked, LSteady, t, u, c
<1>3. CASE Again(f)
  BY <1>2, <1>3, HAgain, HAddrKept
<1>4. CASE Clear(f)
  BY <1>2, <1>4, HClear, HAddrKept
<1>5. CASE Enough(f, "close")
  BY <1>2, <1>5, HEnough, HAddrKept
<1>6. CASE NextChunk(f)
  <2>1. /\ HTaskOK' /\ OthersStay(f) /\ t.pc = "more"
        /\ Still \/
           /\ u = [t EXCEPT !.pc = "pass", !.n = u.n, !.inp = u.inp, !.got = u.got]
           /\ u.n + Len(u.inp) = Len(t.inp) /\ u.got = t.got + u.n
           /\ \A d \in Int : Span(t.inp, t.url, d) =>
                Span(u.inp, t.url, d + u.n) /\ Holds(c, t.url, d, u.n)
    BY <1>6, HNextChunk, Zenon
  <2>2. CASE Still
    BY <2>2, LStill
  <2>3. CASE ~ Still
    <3>1. Works(t)
      BY <2>1 DEF Works, Between
    <3>. HIDE DEF t, u, b, c
    <3>2. /\ u.pc = "pass" /\ u.method = t.method /\ u.whole = t.whole /\ u.url = t.url
          /\ u.sz = t.sz /\ u.out = t.out
      BY <1>1, <2>1, <2>3, Zenon DEF Tasks
    <3>3. LTask(u, c) /\ Works(u)
      BY <1>1, <2>1, <2>3, <3>2, LReceives
    <3>4. Holding(t, u) /\ addr' = addr
      BY <1>1, <1>6, <2>1, <2>3, HAddrKept, Zenon DEF Holding, Writing, Tasks
    <3>. QED
      BY <2>1, <3>1, <3>2, <3>3, <3>4 DEF LWorked, LSteady, t, u, c
  <2>. QED
    BY <2>2, <2>3
<1>7. CASE Lose(f)
  <2>1. /\ HTaskOK' /\ OthersStay(f) /\ t.pc \in {"first", "more"}
        /\ u = [t EXCEPT !.inp = <<>>, !.whole = FALSE]
    BY <1>7, HLose, Zenon
  <2>2. Works(t)
    BY <2>1 DEF Works, Between
  <2>. HIDE DEF t, u, b, c
  <2>3. LTask(u, c) /\ Works(u) /\ u.url = t.url
    BY <1>1, <2>1, LLoses, Zenon
  <2>4. Holding(t, u) /\ addr' = addr
    BY <1>1, <1>7, <2>1, HAddrKept, Zenon DEF Holding, Writing, Tasks
  <2>. QED
    BY <2>1, <2>2, <2>3, <2>4 DEF LWorked, LSteady, t, u, c
<1>. QED
  BY <1>3, <1>4, <1>5, <1>6, <1>7, HSameExchange


-----------------------------------------------------------------------------
(* The lists and the files of the downloaders.                             *)

\* The names of the programs are different.
LEMMA HProgs ==
  /\ "1" \notin Lists /\ "2" \notin Lists /\ "cache" \notin Lists
  /\ "1" # "2" /\ "1" # "cache" /\ "2" # "cache"
  BY DEF Lists

\* A step of f: the other threads are as ListInv has them.
LEMMA LListKept ==
  ASSUME HInv, prog \in Lists, prog' = prog, NEW f \in Fetchers, Runs(f), HTaskOK', OthersStay(f),
         LTask(task'[f], buf'[Home[f]]), LFile(task[f])',
         \/ files' = files
         \/ /\ \A n \in DL!Names \ {NameOf[task[f].url]} : files'[n] = files[n]
            /\ \A g \in Fetchers \ {f} :
                 task[g].url # "" /\ (prog = "d" => DL!Alone(task[g].url))
                   => NameOf[task[g].url] # NameOf[task[f].url]
  PROVE  HRoles' /\ ListInv'
<1>1. HTaskOK /\ HRoles /\ \A g \in Fetchers : LTask(task[g], Buf(g)) /\ LFile(task[g])
  BY Zenon DEF HInv, HTypeOK, ListInv
<1>2. ASSUME NEW g \in Fetchers \ {f} PROVE (~ Runs(g))' => task'[g] = Idle
  <2>1. Runs(g)' <=> Runs(g)
    BY Zenon DEF Runs
  <2>2. ASSUME ~ Runs(g) PROVE task'[g] = Idle
    <3>0. task[g] = Idle /\ Idle.pc = "idle"
      BY <1>1, <2>2, Zenon DEF HRoles, Idle
    <3>1. task[g] = Idle /\ ~ Relies(g)
      BY <3>0, Zenon DEF Relies
    <3>. QED
      BY <1>1, <3>1, HOther, Zenon DEF OthersStay
  <2>. QED
    BY <2>1, <2>2, Zenon
<1>3. Runs(f)'
  BY Zenon DEF Runs
<1>4. HRoles'
  BY <1>2, <1>3, Zenon DEF HRoles
<1>5. ASSUME NEW g \in Fetchers \ {f} PROVE LTask(task'[g], buf'[Home[g]]) /\ LFile(task[g])'
  <2>1. LTask(task'[g], buf'[Home[g]])
    BY <1>1, LOther, Zenon DEF OthersStay
  <2>2. /\ task'[g].pc = task[g].pc /\ task'[g].url = task[g].url
        /\ task'[g].out = task[g].out /\ task'[g].put = task[g].put
        /\ task'[g].whole => task[g].whole
    BY <1>1, HOther, Zenon DEF OthersStay
  <2>3. task[g].url \in Urls \cup {""}
    BY <1>1, HTask, Zenon DEF Tasks
  <2>4. LFile(task[g])'
    <3>. SUFFICES ASSUME task[g].url # "", prog = "d" => DL!Alone(task[g].url)
                  PROVE  files'[NameOf[task[g].url]] = files[NameOf[task[g].url]]
      BY <1>1, <2>2, Zenon DEF LFile, InFile, DL!Alone
    <3>1. NameOf[task[g].url] \in DL!Names
      BY <2>3, Zenon DEF DL!Names
    <3>. QED
      BY <3>1, Zenon
  <2>. QED
    BY <2>1, <2>4, Zenon
<1>6. \A g \in Fetchers : LTask(task'[g], buf'[Home[g]]) /\ LFile(task[g])'
  BY <1>5, Zenon
<1>. QED
  BY <1>4, <1>6, Zenon DEF ListInv, Buf

\* A host is not the empty name.
LEMMA LHosts == "" \notin Hosts /\ \A u \in Urls : HostOf[u] \in Hosts
  BY UrlsAssumption, Zenon DEF Hosts

\* A step of f that leaves it with the right server keeps the account of them.
LEMMA LServerKept ==
  ASSUME HInv, prog \in Lists, prog' = prog, NEW f \in Fetchers, Runs(f), OthersStay(f),
         \A h \in Programs : \/ addr'[h] = addr[h]
                             \/ prog \in {"c", "d"} => Listed(addr'[h]),
         Addresses(task'[f], addr'[Home[f]]),
         (prog \in {"c", "d"} => DL!OneHost) => Named(task'[f])
  PROVE  ServerInv'
<1>1. HTaskOK /\ HRoles /\ ServerInv
  BY DEF HInv, HTypeOK
<1>2. ASSUME NEW g \in Fetchers \ {f}
      PROVE  /\ Addresses(task'[g], addr'[Home[g]])
             /\ (prog \in {"c", "d"} => DL!OneHost) => Named(task'[g])
  <2>1. /\ task'[g].pc = task[g].pc /\ task'[g].url = task[g].url
        /\ task'[g].con = task[g].con /\ task'[g].srv = task[g].srv
    BY <1>1, HOther DEF OthersStay
  <2>2. /\ Addresses(task[g], addr[Home[g]])
        /\ (prog \in {"c", "d"} => DL!OneHost) => Named(task[g])
    BY <1>1 DEF ServerInv
  <2>3. prog \in {"a", "b"} => task[g].pc # "connect"
    <3>1. ASSUME prog \in {"a", "b"} PROVE task[g].pc = "idle"
      <4>1. f = 1 /\ ~ Runs(g)
        BY <3>1, HProgs DEF Runs
      <4>. QED
        BY <1>1, <4>1, HIdle, Zenon DEF HRoles
    <3>. QED
      BY <3>1
  <2>4. Home[g] \in Programs
    BY HConstants
  <2>. QED
    BY <2>1, <2>2, <2>3, <2>4, Zenon DEF Addresses, Named
<1>3. \A g \in Fetchers : /\ Addresses(task'[g], addr'[Home[g]])
                          /\ (prog \in {"c", "d"} => DL!OneHost) => Named(task'[g])
  BY <1>2
<1>. QED
  BY <1>3, Zenon DEF ServerInv, Addresses, DL!OneHost, Listed

\* A thread that goes on with its connection.
LEMMA LServerStays ==
  ASSUME HInv, prog \in Lists, prog' = prog, NEW f \in Fetchers, Runs(f), OthersStay(f),
         addr' = addr, task'[f].srv = task[f].srv,
         task'[f].con = task[f].con \/ prog \in {"c", "d"},
         \/ /\ task'[f].url = task[f].url /\ task'[f].pc # "connect"
            /\ task[f].pc \notin {"resolve", "connect"}
         \/ /\ task'[f].pc = "resolve"
            /\ prog \in {"c", "d"} => Listed(HostOf[task'[f].url])
  PROVE  ServerInv'
<1>1. /\ Addresses(task[f], addr[Home[f]])
      /\ (prog \in {"c", "d"} => DL!OneHost) => Named(task[f])
  BY DEF HInv, ServerInv
<1>2. prog \in {"a", "b"} => prog \notin {"c", "d"}
  BY HProgs
<1>3. Addresses(task'[f], addr'[Home[f]])
  BY <1>1, <1>2, Zenon DEF Addresses
<1>4. (prog \in {"c", "d"} => DL!OneHost) => Named(task'[f])
  BY <1>1, Zenon DEF Named
<1>. QED
  BY <1>3, <1>4, LServerKept

\* gethostbyname and connect: the server is the one of the object, or that of
\* another line.
LEMMA LTalksKeep ==
  ASSUME HInv, prog \in Lists, prog' = prog, NEW f \in Fetchers, Runs(f),
         DL!Resolve(f) \/ DL!Connect(f, "open")
  PROVE  ServerInv'
<1>. DEFINE t == task[f]
            u == task'[f]
            h == HostOf[t.url]
<1>1. /\ HTaskOK /\ ServerInv /\ Home[f] \in Programs /\ t \in Tasks /\ Placed(t)
      /\ Addresses(t, addr[Home[f]]) /\ addr \in [Programs -> Hosts \cup {""}]
      /\ (prog \in {"c", "d"} => DL!OneHost) => Named(t)
  BY HTask, Zenon DEF HInv, HTypeOK, HTaskOK, ServerInv
<1>2. CASE Still
  <2>1. \A g \in Fetchers : Addresses(task'[g], addr'[Home[g]]) /\ Named(task'[g]) <=>
                            Addresses(task[g], addr[Home[g]]) /\ Named(task[g])
    BY <1>2 DEF Still
  <2>. QED
    BY <1>1, <1>2, Zenon DEF Still, ServerInv, Addresses, Named, DL!OneHost, Listed
<1>3. CASE DL!Resolve(f) /\ ~ Still
  <2>1. /\ OthersStay(f) /\ t.pc = "resolve" /\ u = [t EXCEPT !.pc = "connect"]
        /\ addr' = [addr EXCEPT ![Home[f]] = h] /\ addr'[Home[f]] = h
    BY <1>1, <1>3, HSameExchange, HResolve, Zenon
  <2>2. u.pc = "connect" /\ u.url = t.url /\ u.con = t.con /\ u.srv = t.srv
    BY <1>1, <2>1, Zenon DEF Tasks
  <2>3. t.url \in Urls /\ t.url # ""
    BY <1>1, <2>1, UrlsAssumption, Zenon DEF Placed, Between
  <2>4. prog \in {"c", "d"} => Listed(h)
    BY <1>1, <2>3, Zenon DEF Addresses
  <2>5. \A k \in Programs : addr'[k] = addr[k] \/ addr'[k] = h
    BY <1>1, <2>1, Zenon
  <2>. HIDE DEF t, u, h
  <2>6. Addresses(u, addr'[Home[f]])
    BY <1>1, <2>1, <2>2, <2>4, Zenon DEF Addresses, h
  <2>7. Named(u)
    BY <2>2, Zenon DEF Named
  <2>. QED
    BY <2>1, <2>4, <2>5, <2>6, <2>7, LServerKept DEF u
<1>4. CASE DL!Connect(f, "open") /\ ~ Still
  <2>1. /\ OthersStay(f) /\ addr' = addr /\ t.pc = "connect" /\ u.srv = Reached(f) /\ u.srv \in Hosts
        /\ u = [t EXCEPT !.pc = "open", !.inp = u.inp, !.srv = u.srv, !.whole = u.whole]
    BY <1>1, <1>4, HSameExchange, HConnect, Zenon
  <2>2. u.pc = "open" /\ u.url = t.url /\ u.con = t.con
    BY <1>1, <2>1, Zenon DEF Tasks
  <2>3. t.url \in Urls /\ t.url # "" /\ u.srv # ""
    BY <1>1, <2>1, UrlsAssumption, Zenon DEF Placed, Between
  <2>4. u.srv = IF t.con THEN t.srv ELSE addr[Home[f]]
    BY <2>1 DEF Reached
  <2>. HIDE DEF t, u, h
  <2>5. prog \in {"a", "b"} => u.srv = HostOf[u.url]
    BY <1>1, <2>1, <2>2, <2>4, Zenon DEF Addresses
  <2>6. prog \in {"c", "d"} => Listed(u.srv) /\ Listed(HostOf[u.url])
    BY <1>1, <2>2, <2>3, <2>4, Zenon DEF Addresses
  <2>7. Addresses(u, addr[Home[f]])
    BY <1>1, <2>2, <2>6, Zenon DEF Addresses
  <2>8. (prog \in {"c", "d"} => DL!OneHost) => Named(u)
    BY <2>5, <2>6, HProgs, Zenon DEF Named, DL!OneHost, Listed, Lists
  <2>. QED
    BY <2>1, <2>7, <2>8, LServerKept DEF u
<1>. QED
  BY <1>2, <1>3, <1>4

\* Where a thread of the pool has to do with the list.
Picks == {"idle", "getline", "advance", "unlock", "good"}

\* A step that takes no line keeps the account of the lines.
LEMMA LLineKept ==
  ASSUME LineInv, UNCHANGED <<prog, line, eof, mtx, fetched>>,
         \A g \in Fetchers :
           /\ task'[g].url = task[g].url
           /\ \/ task'[g].pc = task[g].pc /\ task'[g].n = task[g].n
              \/ task'[g].pc \notin Picks
  PROVE  LineInv'
<1>0. Pool \subseteq Fetchers /\ 1 \in Fetchers
  BY HConstants
<1>1. CASE prog = "d"
  <2>1. PoolLines /\ PoolUrls
    BY <1>1 DEF LineInv
  <2>2. \A g \in Pool : InHand(task[g])' => InHand(task[g]) /\ task'[g].n = task[g].n
    BY <1>0 DEF InHand, Picks
  <2>3. ASSUME NEW g \in Pool
        PROVE  /\ task'[g].pc \in {"getline", "advance", "unlock"} => mtx = g
               /\ task'[g].pc = "advance" => task'[g].n = line
    BY <1>0, <2>1 DEF PoolLines, Picks
  <2>4. ASSUME NEW g \in Pool, InHand(task[g])'
        PROVE  /\ task'[g].n \in 1 .. Len(List) /\ task'[g].n < line
               /\ \A i \in DOMAIN fetched : fetched[i] # task'[g].n
    BY <2>1, <2>2, <2>4 DEF PoolLines
  <2>5. ASSUME NEW g \in Pool, NEW h \in Pool, g # h, InHand(task[g])', InHand(task[h])'
        PROVE  task'[g].n # task'[h].n
    BY <2>1, <2>2, <2>5 DEF PoolLines
  <2>6. PoolLines'
    BY <2>1, <2>3, <2>4, <2>5 DEF PoolLines
  <2>7. PoolUrls'
    BY <1>0, <2>1, Zenon DEF PoolUrls
  <2>. QED
    BY <1>1, <2>6, <2>7 DEF LineInv
<1>2. CASE prog # "d"
  <2>1. InOrder
    BY <1>2 DEF LineInv
  <2>2. task'[1].pc = "idle" => task[1].pc = "idle"
    BY <1>0 DEF Picks
  <2>3. InOrder'
    BY <2>1, <2>2 DEF InOrder
  <2>. QED
    BY <1>2, <2>3 DEF LineInv
<1>. QED
  BY <1>1, <1>2

\* The rest of the invariant has nothing to say about the downloaders.
LEMMA LRest ==
  ASSUME HInv, prog \in Lists, UNCHANGED <<prog, cvars>>, HTaskOK', HRoles', ListInv', LineInv',
         ServerInv',
         line' \in Nat \ {0}, eof' \in BOOLEAN, fetched' \in Seq(Nat),
         files' \in [DL!Names -> Seq(Byte)]
  PROVE  HInv'
<1>1. /\ cache' = cache /\ filler' = filler /\ statsVis' = statsVis /\ seen' = seen
  BY DEF cvars
<1>2. HTypeOK'
  BY <1>1 DEF HInv, HTypeOK, Hosts, DL!Names
<1>3. ProxyInv' /\ CacheInv' /\ VisitInv' /\ OneInv'
  BY HProgs DEF ProxyInv, CacheInv, VisitInv, OneInv
<1>. QED
  BY <1>2, <1>3 DEF HInv

\* A step within an exchange that leaves the files alone.
LEMMA LWorkKeeps ==
  ASSUME HInv, prog \in Lists, NEW f \in Fetchers, Runs(f), UNCHANGED <<DL!dvars, cvars>>,
         \/ DL!Resolve(f) \/ DL!Connect(f, "open") \/ DL!FirstChunk(f)
         \/ DL!parseHeader(f) \/ DL!StripHeader(f) \/ DL!Loop(f, "close")
  PROVE  HInv'
<1>1. HTaskOK /\ LTask(task[f], Buf(f)) /\ LFile(task[f]) /\ LineInv /\ ServerInv
  BY DEF HInv, HTypeOK, ListInv
<1>2. UNCHANGED <<prog, line, eof, mtx, files, fetched>>
  BY DEF DL!dvars
<1>3. LWorked(f) /\ (DL!Resolve(f) \/ DL!Connect(f, "open") \/ LSteady(f))
  BY <1>1, LTalks, LFirstChunk, LParse, LStrip, LLoop
<1>4. /\ HTaskOK' /\ OthersStay(f) /\ LTask(task'[f], buf'[Home[f]])
      /\ Still \/ (Works(task'[f]) /\ task'[f].url = task[f].url)
  BY <1>3 DEF LWorked
<1>5. LFile(task[f])' /\ ServerInv'
  <2>1. CASE DL!Resolve(f) \/ DL!Connect(f, "open")
    <3>1. Still \/ task'[f].pc \in {"connect", "open"}
      <4>. DEFINE t == task[f]
                  u == task'[f]
      <4>1. \/ Still
            \/ u = [t EXCEPT !.pc = "connect"]
            \/ u = [t EXCEPT !.pc = "open", !.inp = u.inp, !.srv = u.srv, !.whole = u.whole]
        BY <1>1, <2>1, HSameExchange, HResolve, HConnect, Zenon
      <4>2. t \in Tasks
        BY <1>1, HTask
      <4>. HIDE DEF t, u
      <4>3. Still \/ u.pc \in {"connect", "open"}
        BY <4>1, <4>2, Zenon DEF Tasks
      <4>. QED
        BY <4>3 DEF u
    <3>2. LFile(task[f])'
      BY <1>1, <1>2, <3>1, Zenon DEF Still, LFile, InFile, Writing, Between, DL!Alone
    <3>. QED
      BY <1>2, <2>1, <3>2, LTalksKeep
  <2>2. CASE Still
    <3>1. LFile(task[f])'
      BY <1>1, <1>2, <2>2, Zenon DEF Still, LFile, InFile, DL!Alone
    <3>2. ServerInv'
      BY <1>1, <1>2, <2>2, Zenon DEF Still, ServerInv, Addresses, Named, DL!OneHost, Listed
    <3>. QED
      BY <3>1, <3>2
  <2>3. CASE ~ Still /\ Holding(task[f], task'[f]) /\ addr' = addr
    <3>1. LFile(task[f])'
      BY <1>1, <1>2, <1>4, <2>3, Zenon DEF LFile, InFile, Holding, Works, Writing, DL!Alone
    <3>2. /\ task'[f].pc # "connect" /\ task[f].pc \notin {"resolve", "connect"}
      BY <2>3 DEF Holding, Writing
    <3>3. ServerInv'
      BY <1>2, <1>4, <2>3, <3>2, LServerStays DEF Holding
    <3>. QED
      BY <3>1, <3>3
  <2>. QED
    BY <1>3, <2>1, <2>2, <2>3 DEF LSteady
<1>6. HRoles' /\ ListInv'
  BY <1>2, <1>4, <1>5, LListKept
<1>7. ASSUME NEW g \in Fetchers
      PROVE  /\ task'[g].url = task[g].url
             /\ \/ task'[g].pc = task[g].pc /\ task'[g].n = task[g].n
                \/ task'[g].pc \notin Picks
  <2>1. CASE g # f
    BY <1>1, <1>4, <2>1, HOther DEF OthersStay
  <2>2. CASE g = f
    BY <1>4, <2>2 DEF Works, Picks, Between, Still
  <2>. QED
    BY <2>1, <2>2
<1>8. LineInv'
  BY <1>1, <1>2, <1>7, LLineKept
<1>9. /\ line' \in Nat \ {0} /\ eof' \in BOOLEAN /\ fetched' \in Seq(Nat)
      /\ files' \in [DL!Names -> Seq(Byte)]
  BY <1>2 DEF HInv, HTypeOK
<1>. QED
  BY <1>2, <1>4, <1>5, <1>6, <1>8, <1>9, LRest

\* Two threads do not write the same file, if the list allows it.
LEMMA LNamesDiffer ==
  ASSUME HInv, prog \in Lists, NEW f \in Fetchers, Runs(f), task[f].url # "",
         NEW g \in Fetchers \ {f}, task[g].url # "", prog = "d" => DL!Alone(task[g].url)
  PROVE  NameOf[task[g].url] # NameOf[task[f].url]
<1>1. CASE prog = "d"
  <2>1. f \in Pool
    BY <1>1, Zenon DEF Runs
  <2>2. CASE g \in Pool
    BY <1>1, <2>1, <2>2, Zenon DEF HInv, LineInv, PoolUrls
  <2>3. CASE g \notin Pool
    BY <1>1, <2>3, HIdle, Zenon DEF HInv, HRoles, Runs
  <2>. QED
    BY <2>2, <2>3, Zenon
<1>2. CASE prog # "d"
  <2>1. f = 1 /\ ~ Runs(g)
    BY <1>2, Zenon DEF Runs, Lists
  <2>. QED
    BY <2>1, HIdle, Zenon DEF HInv, HRoles
<1>. QED
  BY <1>1, <1>2, Zenon

\* A step that writes to the file.
LEMMA LWriteKeeps ==
  ASSUME HInv, prog \in Lists, NEW f \in Fetchers, Runs(f),
         UNCHANGED <<prog, line, eof, mtx, fetched, cvars>>, HTaskOK', OthersStay(f),
         LTask(task'[f], buf'[Home[f]]), LWritten(f), task'[f].pc \notin Picks \cup {"connect", "resolve"},
         task'[f].srv = task[f].srv, task'[f].con = task[f].con \/ prog \in {"c", "d"},
         \/ task'[f].pc \in Writing
         \/ task'[f].whole => task'[f].out = Body(task[f].url) /\ task'[f].put = Len(task'[f].out)
  PROVE  HInv'
<1>. DEFINE t == task[f]
            u == task'[f]
<1>1. HTaskOK /\ LFile(t) /\ LineInv /\ u \in Tasks /\ u.out \in Seq(Byte)
  BY HTask, Zenon DEF HInv, HTypeOK, ListInv, HTaskOK, Tasks
<1>2. /\ t.pc \in Writing \cup {"open"} /\ t.url \in Urls /\ u.url = t.url /\ addr' = addr
      /\ files' \in [DL!Names -> Seq(Byte)]
      /\ \A n \in DL!Names \ {NameOf[t.url]} : files'[n] = files[n]
      /\ t.pc = "open" \/ InFile(t) =>
           files'[NameOf[t.url]] = SubSeq(u.out, 1, u.put) /\ u.put <= Len(u.out)
  BY DEF LWritten
<1>3. t.url # "" /\ t.pc \notin {"resolve", "connect"}
  BY <1>2, UrlsAssumption, Zenon DEF Writing
<1>4. LFile(task[f])'
  <2>. SUFFICES ASSUME prog = "d" => DL!Alone(t.url)
                PROVE  /\ u.pc \in Between \cup {"done"} /\ u.whole
                            => files'[NameOf[u.url]] = Body(u.url)
                       /\ u.pc \in Writing =>
                            files'[NameOf[u.url]] = SubSeq(u.out, 1, u.put) /\ u.put <= Len(u.out)
    BY <1>2, Zenon DEF LFile, InFile, DL!Alone
  <2>1. files'[NameOf[t.url]] = SubSeq(u.out, 1, u.put) /\ u.put <= Len(u.out)
    BY <1>1, <1>2, <1>3, Zenon DEF LFile
  <2>2. CASE u.pc \in Writing
    BY <1>2, <2>1, <2>2 DEF Writing, Between
  <2>3. CASE u.pc \notin Writing
    <3>1. u.whole => files'[NameOf[t.url]] = SubSeq(u.out, 1, Len(u.out)) /\ u.out = Body(t.url)
      BY <2>1, <2>3
    <3>2. SubSeq(u.out, 1, Len(u.out)) = u.out
      <4>. HIDE DEF u
      <4>. QED
        BY <1>1
    <3>. QED
      BY <1>2, <2>3, <3>1, <3>2
  <2>. QED
    BY <2>2, <2>3
<1>5. HRoles' /\ ListInv'
  BY <1>2, <1>3, <1>4, LListKept, LNamesDiffer, Zenon
<1>6. \A g \in Fetchers :
         /\ task'[g].url = task[g].url
         /\ \/ task'[g].pc = task[g].pc /\ task'[g].n = task[g].n
            \/ task'[g].pc \notin Picks
  BY <1>1, <1>2, HOther DEF OthersStay
<1>7. LineInv'
  BY <1>1, <1>6, LLineKept
<1>8. ServerInv'
  BY <1>2, <1>3, LServerStays, Zenon
<1>9. /\ line' \in Nat \ {0} /\ eof' \in BOOLEAN /\ fetched' \in Seq(Nat)
  BY DEF HInv, HTypeOK
<1>. QED
  BY <1>2, <1>5, <1>7, <1>8, <1>9, LRest

\* A step that opens, writes or closes the file.
LEMMA LFinish ==
  ASSUME HInv, prog \in Lists, NEW f \in Fetchers, Runs(f),
         UNCHANGED <<prog, line, eof, mtx, fetched, cvars>>,
         NEW next \in {"line", "next", "done"}, NEW keep \in BOOLEAN,
         next = "done" => ~ keep, keep => prog \in {"c", "d"},
         DL!Open(f) \/ DL!WriteFirst(f) \/ DL!Write(f) \/ DL!Finish(f, next, keep)
  PROVE  HInv'
<1>1. HTypeOK /\ LTask(task[f], Buf(f))
  BY DEF HInv, ListInv
<1>2. CASE DL!Open(f) \/ DL!WriteFirst(f) \/ DL!Write(f)
  <2>1. /\ LWorked(f) /\ LWritten(f) /\ task'[f].pc \in {"first", "loop"}
        /\ task'[f].con = task[f].con /\ task'[f].srv = task[f].srv
    BY <1>1, <1>2, LOpens, LWriteFirst, LWrite
  <2>2. task'[f].pc \in Writing /\ task'[f].pc \notin Picks \cup {"connect", "resolve"}
    BY <2>1 DEF Writing, Picks
  <2>3. HTaskOK' /\ OthersStay(f) /\ LTask(task'[f], buf'[Home[f]])
    BY <2>1 DEF LWorked
  <2>. QED
    BY <2>1, <2>2, <2>3, LWriteKeeps
<1>3. CASE DL!Finish(f, next, keep)
  <2>1. /\ HTaskOK' /\ OthersStay(f) /\ LTask(task'[f], buf'[Home[f]]) /\ LWritten(f)
        /\ task'[f].pc = next /\ task'[f].srv = task[f].srv
        /\ task'[f].con = task[f].con \/ keep
        /\ task'[f].whole => /\ task'[f].out = Body(task[f].url)
                             /\ task'[f].put = Len(task'[f].out)
    BY <1>1, <1>3, LFinishes
  <2>2. task'[f].pc \notin Picks \cup {"connect", "resolve"}
    BY <2>1 DEF Picks
  <2>3. task'[f].con = task[f].con \/ prog \in {"c", "d"}
    BY <2>1
  <2>. QED
    BY <2>1, <2>2, <2>3, LWriteKeeps
<1>. QED
  BY <1>2, <1>3

\* A thread that takes a step of the list does not touch buf or the files.
LEMMA LListStep ==
  ASSUME HInv, prog \in Lists, NEW f \in Fetchers, Runs(f), UNCHANGED <<prog, files, cvars>>,
         NEW v, Goes(f, v), v \in Tasks, Placed(v), LTask(v, Buf(f)),
         v.con = task[f].con, v.srv = task[f].srv,
         \/ v.pc = "resolve" /\ (prog \in {"c", "d"} => Listed(HostOf[v.url]))
         \/ /\ v.url = task[f].url /\ v.whole = task[f].whole
            /\ task[f].pc \in Between \cup {"done"} /\ v.pc \in Between \cup {"done"}
  PROVE  /\ task'[f] = v /\ \A g \in Fetchers \ {f} : task'[g] = task[g]
         /\ HTaskOK' /\ HRoles' /\ ListInv' /\ ServerInv'
<1>1. HTaskOK /\ LFile(task[f])
  BY DEF HInv, HTypeOK, ListInv
<1>2. /\ task'[f] = v /\ buf' = buf /\ HTaskOK' /\ OthersStay(f)
      /\ \A g \in Fetchers \ {f} : task'[g] = task[g]
  BY <1>1, HGoes
<1>3. LTask(task'[f], buf'[Home[f]])
  BY <1>1, <1>2, HTask
<1>4. LFile(task[f])'
  <2>1. CASE v.pc = "resolve"
    BY <1>2, <2>1, Zenon DEF LFile, Writing, Between
  <2>2. CASE /\ v.url = task[f].url /\ v.whole = task[f].whole
             /\ task[f].pc \in Between \cup {"done"} /\ v.pc \in Between \cup {"done"}
    BY <1>1, <1>2, <2>2, Zenon DEF LFile, Writing, Between, DL!Alone
  <2>. QED
    BY <2>1, <2>2
<1>5. ServerInv'
  <2>1. addr' = addr
    BY HAddrKept
  <2>. QED
    BY <1>2, <2>1, LServerStays DEF Between
<1>. QED
  BY <1>2, <1>3, <1>4, <1>5, LListKept

\* A thread that goes from one point to another between two objects.
Moved(t, q, n) == [t EXCEPT !.pc = q, !.n = n]

\* A step between two objects.
LEMMA LBetween ==
  ASSUME HInv, prog \in Lists, NEW f \in Fetchers, Runs(f), UNCHANGED <<prog, files, cvars>>,
         task[f].pc \in Between, NEW q \in Between \cup {"done"}, NEW n \in Nat,
         Goes(f, Moved(task[f], q, n))
  PROVE  /\ task'[f].pc = q /\ task'[f].n = n /\ task'[f].url = task[f].url
         /\ \A g \in Fetchers \ {f} : task'[g] = task[g]
         /\ HTaskOK' /\ HRoles' /\ ListInv' /\ ServerInv'
<1>. DEFINE t == task[f]
            v == Moved(t, q, n)
<1>1. t \in Tasks /\ LTask(t, Buf(f)) /\ Goes(f, v)
  BY HTask DEF HInv, HTypeOK, ListInv
<1>2. /\ v \in Tasks /\ v.pc = q /\ v.url = t.url /\ v.whole = t.whole /\ v.inp = t.inp
      /\ v.con = t.con /\ v.srv = t.srv /\ v.method = t.method /\ v.n = n
  <2>1. q \in Points
    BY DEF Between, Points
  <2>. HIDE DEF t
  <2>. QED
    BY <1>1, <2>1, Zenon DEF Tasks, Moved
<1>. HIDE DEF v
<1>3. Placed(v)
  BY <1>2 DEF Placed, Between
<1>4. LTask(v, Buf(f))
  BY <1>1, <1>2 DEF LTask, LWhole, Between, Unwritten
<1>5. /\ task'[f] = v /\ \A g \in Fetchers \ {f} : task'[g] = task[g]
      /\ HTaskOK' /\ HRoles' /\ ListInv' /\ ServerInv'
  BY <1>1, <1>2, <1>3, <1>4, LListStep
<1>. QED
  BY <1>2, <1>5

\* A thread that takes line l, the object o, from the list.
LEMMA LFetch ==
  ASSUME HInv, prog \in Lists, NEW f \in Fetchers, Runs(f), UNCHANGED <<prog, files, cvars>>,
         task[f].pc \in Between, NEW o \in Urls, prog # "a" => \E k \in DOMAIN List : o = List[k], NEW l,
         DL!Fetch(f, o, l)
  PROVE  /\ task'[f].pc = "resolve" /\ task'[f].url = o /\ fetched' = Append(fetched, l)
         /\ \A g \in Fetchers \ {f} : task'[g] = task[g]
         /\ HTaskOK' /\ HRoles' /\ ListInv' /\ ServerInv'
<1>. DEFINE t == task[f]
            v == Fetched(t, o)
<1>1. t \in Tasks /\ LTask(t, Buf(f)) /\ t.pc \in Between
  BY HTask DEF HInv, HTypeOK, ListInv
<1>2. fetched' = Append(fetched, l) /\ Goes(f, v)
  BY DEF DL!Fetch, DL!Goes, Goes, DL!Idle, Idle, Fetched
<1>. HIDE DEF t, v
<1>3. /\ v \in Tasks /\ Placed(v) /\ LTask(v, Buf(f)) /\ Works(v) /\ v.pc = "resolve" /\ v.url = o
      /\ v.con = task[f].con /\ v.srv = task[f].srv
  BY <1>1, LFetches DEF v, t
<1>4. prog \in {"c", "d"} => Listed(HostOf[v.url])
  BY <1>3, HProgs DEF Listed
<1>5. /\ task'[f] = v /\ \A g \in Fetchers \ {f} : task'[g] = task[g]
      /\ HTaskOK' /\ HRoles' /\ ListInv' /\ ServerInv'
  BY <1>2, <1>3, <1>4, LListStep DEF t
<1>. QED
  BY <1>2, <1>3, <1>5

\* The same, to another point only.
LEMMA LMoves ==
  ASSUME HInv, prog \in Lists, NEW f \in Fetchers, Runs(f), UNCHANGED <<prog, files, cvars>>,
         NEW p \in Between, NEW q \in Between \cup {"done"}, DL!Step(f, p, q)
  PROVE  /\ task[f].pc = p
         /\ task'[f].pc = q /\ task'[f].n = task[f].n /\ task'[f].url = task[f].url
         /\ \A g \in Fetchers \ {f} : task'[g] = task[g]
         /\ HTaskOK' /\ HRoles' /\ ListInv' /\ ServerInv'
<1>. DEFINE t == task[f]
            v == [t EXCEPT !.pc = q]
            n == t.n
<1>1. t \in Tasks /\ n \in Nat /\ t.pc = p
  BY HTask, HSameExchange DEF HInv, HTypeOK, DL!Step, At
<1>2. Goes(f, v)
  BY HSameExchange DEF DL!Step
<1>3. v = Moved(t, q, n)
  <2>. HIDE DEF t
  <2>. QED
    BY <1>1, Zenon DEF Tasks, Moved, n
<1>4. Goes(f, Moved(task[f], q, n))
  <2>. HIDE DEF v, n
  <2>. QED
    BY <1>2, <1>3
<1>. HIDE DEF v, n
<1>5. /\ task'[f].pc = q /\ task'[f].n = n /\ task'[f].url = task[f].url
      /\ \A g \in Fetchers \ {f} : task'[g] = task[g]
      /\ HTaskOK' /\ HRoles' /\ ListInv' /\ ServerInv'
  BY <1>1, <1>4, LBetween
<1>. QED
  BY <1>1, <1>5 DEF n

\* The types of the list.
LEMMA LTypes ==
  ASSUME HInv
  PROVE  /\ line \in Nat \ {0} /\ eof \in BOOLEAN /\ fetched \in Seq(Nat)
         /\ files \in [DL!Names -> Seq(Byte)] /\ List \in Seq(Urls) /\ Len(List) \in Nat
         /\ \A i \in DOMAIN fetched : fetched[i] \in Nat
         /\ DOMAIN fetched = 1 .. Len(fetched) /\ Len(fetched) \in Nat
         /\ \A i \in 1 .. Len(List) : List[i] \in Urls
  BY InputsAssumption DEF HInv, HTypeOK

\* A sequence with one element more.
LEMMA LAppended ==
  ASSUME NEW s \in Seq(Nat), NEW l \in Nat
  PROVE  /\ Append(s, l) \in Seq(Nat) /\ Len(Append(s, l)) = Len(s) + 1
         /\ DOMAIN Append(s, l) = 1 .. Len(s) + 1
         /\ \A i \in 1 .. Len(s) : Append(s, l)[i] = s[i]
         /\ Append(s, l)[Len(s) + 1] = l
  OBVIOUS

\* a.cpp takes its one object, b.cpp and c.cpp the next line.
LEMMA LTakesLine ==
  ASSUME HInv, prog \in Lists, prog # "d", UNCHANGED <<prog, eof, mtx, files, cvars>>,
         task[1].pc \in Between, NEW o \in Urls,
         prog # "a" => \E k \in DOMAIN List : o = List[k], DL!Fetch(1, o, line),
         IF prog = "a" THEN task[1].pc = "idle" /\ line' = line ELSE line' = line + 1
  PROVE  HInv'
<1>1. 1 \in Fetchers /\ Runs(1)
  BY HConstants DEF Runs, Lists
<1>2. /\ task'[1].pc = "resolve" /\ fetched' = Append(fetched, line)
      /\ HTaskOK' /\ HRoles' /\ ListInv' /\ ServerInv'
  BY <1>1, LFetch
<1>3. /\ line \in Nat \ {0} /\ fetched \in Seq(Nat) /\ Len(fetched) \in Nat
      /\ DOMAIN fetched = 1 .. Len(fetched)
  BY LTypes
<1>4. /\ fetched' \in Seq(Nat) /\ Len(fetched') = Len(fetched) + 1
      /\ DOMAIN fetched' = 1 .. Len(fetched) + 1
      /\ \A i \in 1 .. Len(fetched) : fetched'[i] = fetched[i]
      /\ fetched'[Len(fetched) + 1] = line
  BY <1>2, <1>3, LAppended
<1>5. InOrder
  BY DEF HInv, LineInv
<1>6. Len(fetched) = line - 1
  <2>1. CASE prog = "a"
    <3>1. fetched = <<>> /\ line = 1
      BY <1>5, <2>1 DEF InOrder
    <3>. QED
      BY <3>1
  <2>2. CASE prog # "a"
    <3>1. prog \in {"b", "c"}
      BY <2>2 DEF Lists
    <3>. QED
      BY <1>5, <3>1 DEF InOrder
  <2>. QED
    BY <2>1, <2>2
<1>7. \A i \in DOMAIN fetched' : fetched'[i] = i
  <2>1. \A i \in 1 .. Len(fetched) : fetched'[i] = i
    BY <1>3, <1>4, <1>5 DEF InOrder
  <2>2. fetched'[Len(fetched) + 1] = Len(fetched) + 1
    BY <1>3, <1>4, <1>6
  <2>3. \A i \in DOMAIN fetched' : i \in 1 .. Len(fetched) \/ i = Len(fetched) + 1
    BY <1>3, <1>4
  <2>. QED
    BY <2>1, <2>2, <2>3
<1>8. CASE prog = "a"
  <2>1. line = 1 /\ Len(fetched) = 0
    BY <1>5, <1>6, <1>8 DEF InOrder
  <2>2. line' = 1 /\ Len(fetched') <= 1
    BY <1>3, <1>4, <1>8, <2>1
  <2>3. InOrder'
    BY <1>2, <1>7, <1>8, <2>2 DEF InOrder
  <2>4. LineInv'
    BY <1>8, <2>3 DEF LineInv
  <2>. QED
    BY <1>2, <1>3, <1>4, <1>8, <2>4, LRest, LTypes
<1>9. CASE prog # "a"
  <2>1. line' = line + 1 /\ prog \in {"b", "c"}
    BY <1>9 DEF Lists
  <2>2. Len(fetched') = line' - 1
    BY <1>3, <1>4, <1>6, <2>1
  <2>3. InOrder'
    BY <1>7, <2>1, <2>2 DEF InOrder
  <2>4. LineInv'
    BY <2>3 DEF LineInv
  <2>5. line' \in Nat \ {0}
    BY <1>3, <2>1
  <2>. QED
    BY <1>2, <1>4, <2>4, <2>5, LRest, LTypes
<1>. QED
  BY <1>8, <1>9

\* for(std::getline(...)) of b.cpp and c.cpp.
LEMMA LNextLine ==
  ASSUME HInv, prog \in {"b", "c"}, UNCHANGED cvars, DL!NextLine(1)
  PROVE  HInv'
<1>0. 1 \in Fetchers /\ Runs(1) /\ prog \in Lists /\ prog # "a" /\ prog # "d"
  BY HConstants DEF Runs, Lists
<1>1. /\ task[1].pc \in {"idle", "next"} /\ UNCHANGED <<prog, eof, mtx, files>>
      /\ task[1].pc \in Between
  BY DEF DL!NextLine, Between
<1>2. CASE line <= Len(List)
  <2>1. DL!Fetch(1, List[line], line) /\ line' = line + 1
    BY <1>2 DEF DL!NextLine
  <2>2. List[line] \in Urls /\ line \in DOMAIN List
    BY <1>2, LTypes
  <2>. QED
    BY <1>0, <1>1, <2>1, <2>2, LTakesLine
<1>3. CASE ~ (line <= Len(List))
  <2>1. /\ DL!Goes(1, [task[1] EXCEPT !.pc = "done"]) /\ UNCHANGED <<line, fetched>>
    BY <1>3 DEF DL!NextLine
  <2>2. DL!Step(1, task[1].pc, "done")
    <3>1. DL!At(1, task[1].pc)
      BY DEF DL!NextLine, DL!At
    <3>. QED
      BY <2>1, <3>1 DEF DL!Step
  <2>3. /\ task'[1].pc = "done" /\ task'[1].url = task[1].url
        /\ \A g \in Fetchers \ {1} : task'[g] = task[g]
        /\ HTaskOK' /\ HRoles' /\ ListInv' /\ ServerInv'
    BY <1>0, <1>1, <2>2, LMoves
  <2>4. \A g \in Fetchers :
          /\ task'[g].url = task[g].url
          /\ \/ task'[g].pc = task[g].pc /\ task'[g].n = task[g].n
             \/ task'[g].pc \notin Picks
    BY <2>3 DEF Picks
  <2>5. LineInv'
    BY <1>1, <2>1, <2>4, LLineKept DEF HInv
  <2>. QED
    BY <1>0, <1>1, <2>1, <2>3, <2>5, LRest, LTypes
<1>. QED
  BY <1>2, <1>3

\* d.cpp: the pool.
LEMMA LGood ==
  ASSUME HInv, prog = "d", NEW f \in Pool, UNCHANGED cvars, DL!Good(f)
  PROVE  HInv'
<1>0. f \in Fetchers /\ Runs(f) /\ prog \in Lists
  BY HConstants DEF Runs, Lists
<1>1. UNCHANGED <<prog, line, eof, mtx, files, fetched>>
  BY DEF DL!Good, DL!dvars
<1>2. PICK p \in Between, q \in Between \cup {"done"} : q \notin Picks /\ DL!Step(f, p, q)
  BY DEF DL!Good, Between, Picks
<1>3. /\ task'[f].pc = q /\ task'[f].url = task[f].url
      /\ \A g \in Fetchers \ {f} : task'[g] = task[g]
      /\ HTaskOK' /\ HRoles' /\ ListInv' /\ ServerInv'
  BY <1>0, <1>1, <1>2, LMoves
<1>4. \A g \in Fetchers :
        /\ task'[g].url = task[g].url
        /\ \/ task'[g].pc = task[g].pc /\ task'[g].n = task[g].n
           \/ task'[g].pc \notin Picks
  BY <1>2, <1>3
<1>5. LineInv'
  BY <1>1, <1>4, LLineKept DEF HInv
<1>. QED
  BY <1>0, <1>1, <1>3, <1>5, LRest, LTypes

\* Who has which object does not change with the lines.
LEMMA LUrlsKept ==
  ASSUME PoolUrls, fetched' = fetched, \A g \in Pool : task'[g].url = task[g].url
  PROVE  PoolUrls'
<1>1. ASSUME NEW g \in Pool, task'[g].url # ""
      PROVE  \E i \in DOMAIN fetched' : List[fetched'[i]] = task'[g].url
  BY <1>1, Zenon DEF PoolUrls
<1>2. ASSUME NEW g \in Pool, NEW h \in Pool, g # h, task'[g].url # "", task'[h].url # "",
             DL!Alone(task'[g].url)
      PROVE  NameOf[task'[h].url] # NameOf[task'[g].url]
  BY <1>2, Zenon DEF PoolUrls
<1>. QED
  BY <1>1, <1>2, Zenon DEF PoolUrls, DL!Alone

\* mtx.lock().
LEMMA LLockList ==
  ASSUME HInv, prog = "d", NEW f \in Pool, UNCHANGED cvars, DL!LockList(f)
  PROVE  HInv'
<1>0. f \in Fetchers /\ Runs(f) /\ prog \in Lists /\ Pool = {1, 2} /\ Pool \subseteq Fetchers
  BY HConstants DEF Runs, Lists
<1>1. /\ UNCHANGED <<prog, line, eof, files, fetched>> /\ mtx = 0 /\ mtx' = f
      /\ DL!Step(f, "lock", "getline")
  BY DEF DL!LockList, DL!Lock, DL!Free
<1>2. /\ task'[f].pc = "getline" /\ task'[f].url = task[f].url
      /\ \A g \in Fetchers \ {f} : task'[g] = task[g]
      /\ HTaskOK' /\ HRoles' /\ ListInv' /\ ServerInv'
  BY <1>0, <1>1, LMoves DEF Between
<1>3. PoolLines /\ PoolUrls
  BY DEF HInv, LineInv
<1>4. ~ InHand(task[f])' /\ \A g \in Pool \ {f} : InHand(task[g])' <=> InHand(task[g])
  BY <1>0, <1>1, <1>2 DEF InHand
<1>5. ASSUME NEW g \in Pool
      PROVE  /\ task'[g].pc \in {"getline", "advance", "unlock"} => mtx' = g
             /\ task'[g].pc = "advance" => task'[g].n = line'
  <2>1. CASE g = f
    BY <1>1, <1>2, <2>1
  <2>2. CASE g # f
    <3>1. mtx # g
      BY <1>0, <1>1
    <3>2. task'[g] = task[g]
      BY <1>0, <1>2, <2>2
    <3>. QED
      BY <1>3, <3>1, <3>2 DEF PoolLines
  <2>. QED
    BY <2>1, <2>2
<1>6. ASSUME NEW g \in Pool, InHand(task[g])'
      PROVE  /\ task'[g] = task[g] /\ InHand(task[g])
             /\ task'[g].n \in 1 .. Len(List) /\ task'[g].n < line'
             /\ \A i \in DOMAIN fetched' : fetched'[i] # task'[g].n
  <2>1. g # f /\ InHand(task[g])
    BY <1>4, <1>6
  <2>2. task'[g] = task[g]
    BY <1>0, <1>2, <2>1
  <2>. QED
    BY <1>1, <1>3, <2>1, <2>2 DEF PoolLines
<1>7. PoolLines'
  BY <1>1, <1>3, <1>5, <1>6 DEF PoolLines
<1>8. PoolUrls'
  <2>1. \A g \in Pool : task'[g].url = task[g].url
    BY <1>0, <1>2
  <2>. QED
    BY <1>1, <1>3, <2>1, LUrlsKept
<1>9. LineInv'
  BY <1>1, <1>7, <1>8 DEF LineInv
<1>. QED
  BY <1>0, <1>1, <1>2, <1>9, LRest, LTypes

\* mtx.unlock().
LEMMA LUnlockList ==
  ASSUME HInv, prog = "d", NEW f \in Pool, UNCHANGED cvars, DL!UnlockList(f)
  PROVE  HInv'
<1>0. f \in Fetchers /\ Runs(f) /\ prog \in Lists /\ Pool = {1, 2} /\ Pool \subseteq Fetchers
  BY HConstants DEF Runs, Lists
<1>1. /\ UNCHANGED <<prog, line, eof, files, fetched>> /\ DL!Step(f, "unlock", "good")
  BY DEF DL!UnlockList
<1>2. /\ task'[f].pc = "good" /\ task'[f].url = task[f].url /\ task'[f].n = task[f].n
      /\ task[f].pc = "unlock"
      /\ \A g \in Fetchers \ {f} : task'[g] = task[g]
      /\ HTaskOK' /\ HRoles' /\ ListInv' /\ ServerInv'
  BY <1>0, <1>1, LMoves DEF Between
<1>3. PoolLines /\ PoolUrls
  BY DEF HInv, LineInv
<1>4. mtx = f
  BY <1>2, <1>3 DEF PoolLines
<1>5. ASSUME NEW g \in Pool
      PROVE  /\ task'[g].n = task[g].n /\ task'[g].url = task[g].url
             /\ InHand(task[g])' <=> InHand(task[g])
             /\ task'[g].pc \notin {"getline", "advance", "unlock"}
  <2>1. CASE g = f
    BY <1>1, <1>2, <2>1 DEF InHand
  <2>2. CASE g # f
    <3>1. task'[g] = task[g]
      BY <1>0, <1>2, <2>2
    <3>2. task[g].pc \notin {"getline", "advance", "unlock"}
      BY <1>3, <1>4, <2>2 DEF PoolLines
    <3>. QED
      BY <1>1, <3>1, <3>2 DEF InHand
  <2>. QED
    BY <2>1, <2>2
<1>6. PoolLines'
  BY <1>1, <1>3, <1>5 DEF PoolLines
<1>7. PoolUrls'
  BY <1>1, <1>3, <1>5, LUrlsKept
<1>8. LineInv'
  BY <1>1, <1>6, <1>7 DEF LineInv
<1>. QED
  BY <1>0, <1>1, <1>2, <1>8, LRest, LTypes

\* std::getline under the mutex: nobody else has this line.
LEMMA LGetLine ==
  ASSUME HInv, prog = "d", NEW f \in Pool, UNCHANGED cvars, DL!GetLine(f)
  PROVE  HInv'
<1>0. f \in Fetchers /\ Runs(f) /\ prog \in Lists /\ Pool = {1, 2} /\ Pool \subseteq Fetchers
  BY HConstants DEF Runs, Lists
<1>1. PoolLines /\ PoolUrls
  BY DEF HInv, LineInv
<1>2. line \in Nat \ {0} /\ eof \in BOOLEAN /\ Len(List) \in Nat /\ task[f].n \in Nat
  BY <1>0, LTypes, HTask DEF HInv, HTypeOK
<1>3. CASE /\ DL!At(f, "getline") /\ DL!Goes(f, [task[f] EXCEPT !.pc = "advance", !.n = line])
           /\ UNCHANGED DL!dvars
  <2>1. UNCHANGED <<prog, line, eof, mtx, files, fetched>> /\ task[f].pc = "getline"
    BY <1>3, HSameExchange DEF DL!dvars, At
  <2>2. Goes(f, Moved(task[f], "advance", line))
    BY <1>3, HSameExchange DEF Moved
  <2>3. /\ task'[f].pc = "advance" /\ task'[f].n = line /\ task'[f].url = task[f].url
        /\ \A g \in Fetchers \ {f} : task'[g] = task[g]
        /\ HTaskOK' /\ HRoles' /\ ListInv' /\ ServerInv'
    BY <1>0, <1>2, <2>1, <2>2, LBetween DEF Between
  <2>4. mtx = f
    BY <1>1, <2>1 DEF PoolLines
  <2>5. ~ InHand(task[f])' /\ \A g \in Pool \ {f} : task'[g] = task[g]
    BY <1>0, <2>3 DEF InHand
  <2>6. ASSUME NEW g \in Pool
        PROVE  /\ InHand(task[g])' => task'[g] = task[g] /\ InHand(task[g])
               /\ task'[g].pc \in {"getline", "advance", "unlock"} => mtx' = g
               /\ task'[g].pc = "advance" => task'[g].n = line'
               /\ task'[g].url = task[g].url
    <3>1. CASE g = f
      BY <2>1, <2>3, <2>4, <2>5, <3>1
    <3>2. CASE g # f
      BY <1>1, <2>1, <2>5, <3>2 DEF PoolLines, InHand
    <3>. QED
      BY <3>1, <3>2
  <2>7. PoolLines'
    BY <1>1, <2>1, <2>6 DEF PoolLines
  <2>8. PoolUrls'
    BY <1>1, <2>1, <2>6, LUrlsKept
  <2>9. LineInv'
    BY <2>1, <2>7, <2>8 DEF LineInv
  <2>. QED
    BY <1>0, <2>1, <2>3, <2>9, LRest, LTypes
<1>4. CASE /\ DL!Step(f, "advance", "unlock")
           /\ line' = (IF eof \/ task[f].n > Len(List) THEN line ELSE task[f].n + 1)
           /\ eof' = (eof \/ task[f].n > Len(List) \/ (task[f].n = Len(List) /\ ~ Newline))
           /\ UNCHANGED <<prog, mtx, files, fetched>>
  <2>. DEFINE n == task[f].n
  <2>1. /\ task'[f].pc = "unlock" /\ task'[f].n = n /\ task'[f].url = task[f].url
        /\ task[f].pc = "advance" /\ \A g \in Fetchers \ {f} : task'[g] = task[g]
        /\ HTaskOK' /\ HRoles' /\ ListInv' /\ ServerInv'
    BY <1>0, <1>4, LMoves DEF Between
  <2>2. mtx = f /\ n = line
    BY <1>1, <2>1 DEF PoolLines
  <2>a. n \in Nat \ {0}
    BY <1>2, <2>2
  <2>3. /\ line' \in Nat \ {0} /\ line' >= line /\ eof' \in BOOLEAN
        /\ ~ eof' => ~ eof /\ n \in 1 .. Len(List) /\ n < line'
    <3>1. CASE eof \/ n > Len(List)
      <4>1. line' = line
        BY <1>4, <3>1
      <4>2. eof'
        BY <1>4, <3>1, Zenon
      <4>3. eof' \in BOOLEAN
        BY <1>2, <1>4
      <4>. QED
        BY <1>2, <4>1, <4>2, <4>3
    <3>2. CASE ~ (eof \/ n > Len(List))
      <4>1. line' = n + 1 /\ ~ eof
        BY <1>4, <3>2
      <4>2. n <= Len(List)
        <5>. HIDE DEF n
        <5>. QED
          BY <1>2, <2>a, <3>2
      <4>3. eof' \in BOOLEAN
        BY <1>2, <1>4
      <4>. HIDE DEF n
      <4>. QED
        BY <1>2, <2>a, <2>2, <4>1, <4>2, <4>3
    <3>. QED
      BY <3>1, <3>2
  <2>4. ASSUME NEW g \in Pool \ {f}
        PROVE  /\ task'[g] = task[g] /\ (InHand(task[g])' => InHand(task[g]))
               /\ task'[g].pc \notin {"getline", "advance", "unlock"}
    <3>1. task'[g] = task[g]
      BY <1>0, <2>1
    <3>2. task[g].pc \notin {"getline", "advance", "unlock"}
      BY <1>1, <2>2 DEF PoolLines
    <3>. QED
      BY <2>3, <3>1, <3>2 DEF InHand
  <2>5. ASSUME NEW i \in DOMAIN fetched' PROVE fetched'[i] \in 1 .. Len(List) /\ fetched'[i] < line
    BY <1>1, <1>4 DEF PoolLines
  <2>6. ASSUME NEW g \in Pool
        PROVE  /\ task'[g].pc \in {"getline", "advance", "unlock"} => mtx' = g
               /\ task'[g].pc = "advance" => task'[g].n = line'
               /\ task'[g].url = task[g].url
    BY <1>4, <2>1, <2>2, <2>4
  <2>7. ASSUME NEW g \in Pool, InHand(task[g])'
        PROVE  /\ task'[g].n \in 1 .. Len(List) /\ task'[g].n < line'
               /\ \A i \in DOMAIN fetched' : fetched'[i] # task'[g].n
               /\ g # f => task'[g].n < line
    <3>1. ~ eof'
      BY <2>7 DEF InHand
    <3>2. CASE g = f
      <4>1. \A i \in DOMAIN fetched' : fetched'[i] # n
        BY <1>2, <2>2, <2>5
      <4>. QED
        BY <2>1, <2>3, <3>1, <3>2, <4>1
    <3>3. CASE g # f
      <4>1. /\ task'[g] = task[g] /\ task[g].n \in 1 .. Len(List) /\ task[g].n < line
            /\ \A i \in DOMAIN fetched : fetched[i] # task[g].n
        BY <1>1, <2>4, <2>7, <3>3 DEF PoolLines
      <4>2. task[g].n < line'
        BY <1>2, <2>3, <4>1
      <4>. QED
        BY <1>4, <4>1, <4>2
    <3>. QED
      BY <3>2, <3>3
  <2>8. ASSUME NEW g \in Pool, NEW h \in Pool, g # h, InHand(task[g])', InHand(task[h])'
        PROVE  task'[g].n # task'[h].n
    <3>1. CASE g = f
      BY <1>2, <2>1, <2>2, <2>7, <2>8, <3>1
    <3>2. CASE h = f
      BY <1>2, <2>1, <2>2, <2>7, <2>8, <3>2
    <3>. QED
      BY <1>0, <2>8, <3>1, <3>2
  <2>9. \A i \in DOMAIN fetched' : fetched'[i] \in 1 .. Len(List) /\ fetched'[i] < line'
    BY <1>2, <2>3, <2>5
  <2>10. PoolLines'
    BY <1>1, <1>4, <2>6, <2>7, <2>8, <2>9 DEF PoolLines
  <2>11. PoolUrls'
    BY <1>1, <1>4, <2>6, LUrlsKept
  <2>12. LineInv'
    BY <1>4, <2>10, <2>11 DEF LineInv
  <2>13. fetched' \in Seq(Nat) /\ files' \in [DL!Names -> Seq(Byte)]
    BY <1>4, LTypes
  <2>. QED
    BY <1>0, <1>4, <2>1, <2>3, <2>12, <2>13, LRest
<1>. QED
  BY <1>3, <1>4 DEF DL!GetLine

\* A thread of the pool fetches the line it has in hand.
LEMMA LFetchIfGood ==
  ASSUME HInv, prog = "d", NEW f \in Pool, UNCHANGED cvars, DL!FetchIfGood(f)
  PROVE  HInv'
<1>0. f \in Fetchers /\ Runs(f) /\ prog \in Lists /\ Pool = {1, 2} /\ Pool \subseteq Fetchers
  BY HConstants DEF Runs, Lists
<1>1. PoolLines /\ PoolUrls
  BY DEF HInv, LineInv
<1>2. UNCHANGED <<prog, line, eof, mtx, files>> /\ task[f].pc = "good" /\ task[f].pc \in Between
  BY HSameExchange DEF DL!FetchIfGood, At, Between
<1>3. CASE eof
  <2>1. DL!Step(f, "good", "line") /\ fetched' = fetched
    BY <1>3 DEF DL!FetchIfGood, DL!Step
  <2>2. /\ task'[f].pc = "line" /\ task'[f].url = task[f].url
        /\ \A g \in Fetchers \ {f} : task'[g] = task[g]
        /\ HTaskOK' /\ HRoles' /\ ListInv' /\ ServerInv'
    BY <1>0, <1>2, <2>1, LMoves DEF Between
  <2>3. \A g \in Fetchers :
          /\ task'[g].url = task[g].url
          /\ \/ task'[g].pc = task[g].pc /\ task'[g].n = task[g].n
             \/ task'[g].pc \notin Picks
    BY <2>2 DEF Picks
  <2>4. LineInv'
    BY <1>2, <2>1, <2>3, LLineKept DEF HInv
  <2>. QED
    BY <1>0, <1>2, <2>1, <2>2, <2>4, LRest, LTypes
<1>4. CASE ~ eof
  <2>. DEFINE n == task[f].n
              o == List[n]
              z == Len(fetched)
  <2>1. DL!Fetch(f, o, n)
    BY <1>4 DEF DL!FetchIfGood
  <2>2. InHand(task[f])
    BY <1>2, <1>4 DEF InHand
  <2>3. /\ n \in 1 .. Len(List) /\ n < line /\ n \in Nat
        /\ \A i \in DOMAIN fetched : fetched[i] # n
    BY <1>1, <2>2, LTypes DEF PoolLines
  <2>4. o \in Urls /\ o # "" /\ Len(List) \in Nat /\ \E k \in DOMAIN List : o = List[k]
    <3>1. Len(List) \in Nat /\ DOMAIN List = 1 .. Len(List) /\ List[n] \in Urls
      BY <2>3, LTypes
    <3>2. List[n] # ""
      BY <3>1, UrlsAssumption, Zenon
    <3>. QED
      BY <2>3, <3>1, <3>2, Zenon
  <2>. HIDE DEF n, o
  <2>5. /\ task'[f].pc = "resolve" /\ task'[f].url = o /\ fetched' = Append(fetched, n)
        /\ \A g \in Fetchers \ {f} : task'[g] = task[g]
        /\ HTaskOK' /\ HRoles' /\ ListInv' /\ ServerInv'
    BY <1>0, <1>2, <2>1, <2>4, LFetch, Zenon
  <2>6. /\ fetched' \in Seq(Nat) /\ z \in Nat /\ DOMAIN fetched = 1 .. z
        /\ DOMAIN fetched' = 1 .. z + 1
        /\ \A i \in 1 .. z : fetched'[i] = fetched[i]
        /\ fetched'[z + 1] = n
    BY <2>3, <2>5, LAppended, LTypes
  <2>. HIDE DEF z
  <2>7. \A i \in DOMAIN fetched' : i \in DOMAIN fetched \/ i = z + 1
    BY <2>6
  <2>8. \A i \in DOMAIN fetched' : fetched'[i] \in 1 .. Len(List) /\ fetched'[i] < line
    BY <1>1, <2>3, <2>6, <2>7 DEF PoolLines
  <2>9. \A i, k \in DOMAIN fetched' : i # k => fetched'[i] # fetched'[k]
    <3>. SUFFICES ASSUME NEW i \in DOMAIN fetched', NEW k \in DOMAIN fetched', i # k
                  PROVE  fetched'[i] # fetched'[k]
      OBVIOUS
    <3>1. CASE i \in DOMAIN fetched /\ k \in DOMAIN fetched
      BY <1>1, <2>6, <3>1 DEF PoolLines
    <3>2. CASE i = z + 1 /\ k \in DOMAIN fetched
      BY <2>3, <2>6, <3>2
    <3>3. CASE i \in DOMAIN fetched /\ k = z + 1
      BY <2>3, <2>6, <3>3
    <3>. QED
      BY <2>7, <3>1, <3>2, <3>3
  <2>10. ~ InHand(task[f])' /\ \A g \in Pool \ {f} : task'[g] = task[g]
    BY <1>0, <2>5 DEF InHand
  <2>11. ASSUME NEW g \in Pool
         PROVE  /\ task'[g].pc \in {"getline", "advance", "unlock"} => mtx' = g
                /\ task'[g].pc = "advance" => task'[g].n = line'
                /\ InHand(task[g])' => task'[g] = task[g] /\ InHand(task[g]) /\ g # f
    <3>1. CASE g = f
      BY <2>5, <2>10, <3>1
    <3>2. CASE g # f
      BY <1>1, <1>2, <2>10, <3>2 DEF PoolLines, InHand
    <3>. QED
      BY <3>1, <3>2
  <2>12. ASSUME NEW g \in Pool, InHand(task[g])'
         PROVE  /\ task'[g].n \in 1 .. Len(List) /\ task'[g].n < line'
                /\ \A i \in DOMAIN fetched' : fetched'[i] # task'[g].n
    <3>1. /\ task'[g] = task[g] /\ InHand(task[g]) /\ g # f
      BY <2>11, <2>12
    <3>2. /\ task[g].n \in 1 .. Len(List) /\ task[g].n < line /\ task[g].n # n
          /\ \A i \in DOMAIN fetched : fetched[i] # task[g].n
      BY <1>1, <2>2, <3>1 DEF PoolLines, n
    <3>. QED
      BY <1>2, <2>6, <2>7, <3>1, <3>2
  <2>13. ASSUME NEW g \in Pool, NEW h \in Pool, g # h, InHand(task[g])', InHand(task[h])'
         PROVE  task'[g].n # task'[h].n
    BY <1>1, <2>11, <2>13 DEF PoolLines
  <2>14. PoolLines'
    BY <1>2, <2>8, <2>9, <2>11, <2>12, <2>13 DEF PoolLines
  <2>15. ASSUME NEW g \in Pool, task'[g].url # ""
         PROVE  \E i \in DOMAIN fetched' : List[fetched'[i]] = task'[g].url
    <3>1. CASE g = f
      <4>1. z + 1 \in DOMAIN fetched' /\ List[fetched'[z + 1]] = o
        BY <2>6 DEF o
      <4>. QED
        BY <2>5, <3>1, <4>1
    <3>2. CASE g # f
      <4>1. PICK i \in DOMAIN fetched : List[fetched[i]] = task[g].url
        BY <1>1, <2>10, <2>15, <3>2, Zenon DEF PoolUrls
      <4>2. i \in DOMAIN fetched' /\ fetched'[i] = fetched[i]
        BY <2>6
      <4>. QED
        BY <2>10, <3>2, <4>1, <4>2
    <3>. QED
      BY <3>1, <3>2
  <2>16. ASSUME NEW g \in Pool \ {f}, task[g].url # "", DL!Alone(o) \/ DL!Alone(task[g].url)
         PROVE  NameOf[task[g].url] # NameOf[o]
    <3>1. PICK i \in DOMAIN fetched : List[fetched[i]] = task[g].url
      BY <1>1, <2>16, Zenon DEF PoolUrls
    <3>2. fetched[i] \in 1 .. Len(List) /\ fetched[i] # n
      BY <1>1, <2>3 DEF PoolLines
    <3>3. DOMAIN List = 1 .. Len(List)
      BY LTypes
    <3>. QED
      BY <2>3, <2>16, <3>1, <3>2, <3>3, Zenon DEF DL!Alone, o
  <2>17. ASSUME NEW g \in Pool, NEW h \in Pool, g # h, task'[g].url # "",
                task'[h].url # "", DL!Alone(task'[g].url)
         PROVE  NameOf[task'[h].url] # NameOf[task'[g].url]
    <3>1. CASE g = f
      <4>1. h \in Pool \ {f} /\ task'[h] = task[h] /\ task'[g].url = o
        BY <2>5, <2>10, <2>17, <3>1, Zenon
      <4>2. task[h].url # "" /\ DL!Alone(o)
        BY <2>17, <4>1, Zenon
      <4>3. NameOf[task[h].url] # NameOf[o]
        BY <2>16, <4>1, <4>2, Zenon
      <4>. QED
        BY <4>1, <4>3, Zenon
    <3>2. CASE h = f
      <4>1. g \in Pool \ {f} /\ task'[g] = task[g] /\ task'[h].url = o
        BY <2>5, <2>10, <2>17, <3>2, Zenon
      <4>2. task[g].url # "" /\ DL!Alone(task[g].url)
        BY <2>17, <4>1, Zenon
      <4>3. NameOf[task[g].url] # NameOf[o]
        BY <2>16, <4>1, <4>2, Zenon
      <4>. QED
        BY <4>1, <4>3, Zenon
    <3>. QED
      BY <1>0, <2>17, <3>1, <3>2, Zenon
  <2>18. PoolUrls'
    BY <2>15, <2>17, Zenon DEF PoolUrls, DL!Alone
  <2>19. LineInv'
    BY <1>2, <2>14, <2>18 DEF LineInv
  <2>. QED
    BY <1>0, <1>2, <2>5, <2>6, <2>19, LRest, LTypes
<1>. QED
  BY <1>3, <1>4

\* The whole of fetchObject.
LEMMA LObject ==
  ASSUME HInv, prog \in Lists, NEW f \in Fetchers, Runs(f), UNCHANGED cvars,
         NEW next \in {"line", "next", "done"}, NEW keep \in BOOLEAN,
         next = "done" => ~ keep, keep => prog \in {"c", "d"},
         DL!fetchObject(f, next, keep)
  PROVE  HInv'
<1>1. CASE UNCHANGED DL!dvars /\ (\/ DL!Resolve(f) \/ DL!Connect(f, "open") \/ DL!FirstChunk(f)
                                   \/ DL!parseHeader(f) \/ DL!StripHeader(f) \/ DL!Loop(f, "close"))
  BY <1>1, LWorkKeeps
<1>2. CASE /\ UNCHANGED <<prog, line, eof, mtx, fetched>>
           /\ DL!Open(f) \/ DL!WriteFirst(f) \/ DL!Write(f) \/ DL!Finish(f, next, keep)
  BY <1>2, LFinish
<1>. QED
  BY <1>1, <1>2 DEF DL!fetchObject

\* A step of a downloader.
LEMMA LDownload ==
  ASSUME HInv, prog \in Lists, NEW f \in Fetchers, Runs(f), UNCHANGED cvars, DL!Download(f)
  PROVE  HInv'
<1>1. CASE prog = "a"
  <2>1. f = 1
    BY <1>1 DEF Runs, Lists
  <2>2. DL!Single(1)
    BY <1>1, <2>1 DEF DL!Download
  <2>3. CASE DL!fetchObject(1, "done", FALSE)
    BY <2>1, <2>3, LObject
  <2>4. ASSUME DL!At(1, "idle"), NEW o \in Urls, DL!Fetch(1, o, line),
               UNCHANGED <<prog, line, eof, mtx, files>>
        PROVE  HInv'
    <3>1. task[1].pc = "idle" /\ task[1].pc \in Between /\ prog # "d"
      BY <1>1, <2>4 DEF DL!At, Between
    <3>. QED
      BY <1>1, <2>4, <3>1, LTakesLine
  <2>. QED
    BY <2>2, <2>3, <2>4 DEF DL!Single
<1>2. CASE prog \in {"b", "c"}
  <2>1. f = 1
    BY <1>2 DEF Runs, Lists
  <2>2. \/ DL!NextLine(1)
        \/ \E keep \in BOOLEAN : (keep => prog = "c") /\ DL!fetchObject(1, "next", keep)
    BY <1>2, <2>1 DEF DL!Download, DL!EachAnew, DL!OneAfterOne
  <2>3. CASE DL!NextLine(1)
    BY <1>2, <2>3, LNextLine
  <2>4. ASSUME NEW keep \in BOOLEAN, keep => prog = "c", DL!fetchObject(1, "next", keep)
        PROVE  HInv'
    BY <2>1, <2>4, LObject
  <2>. QED
    BY <2>2, <2>3, <2>4
<1>3. CASE prog = "d"
  <2>1. f \in Pool
    BY <1>3 DEF Runs
  <2>2. DL!Shared(f)
    BY <1>3 DEF DL!Download
  <2>3. CASE DL!fetchObject(f, "line", TRUE)
    BY <1>3, <2>3, LObject
  <2>. QED
    BY <1>3, <2>1, <2>2, <2>3, LGood, LLockList, LGetLine, LUnlockList, LFetchIfGood
       DEF DL!Shared, DL!threadMain
<1>. QED
  BY <1>1, <1>2, <1>3 DEF Lists

-----------------------------------------------------------------------------
(* The proxies with a thread per connection: one thread's exchange.        *)

\* Only a thread that relies on buf has anything to say about it.
LEMMA PSameBuffer ==
  ASSUME NEW t \in Tasks, NEW b, NEW c, PTask(t, b), t.pc \in Reliant => c = b
  PROVE  PTask(t, c)
  BY DEF PTask, PWhole, HeaderIsIn, NotMisled, Reliant

\* Whoever was disturbed is promised nothing.
LEMMA PDisturbed ==
  ASSUME NEW t \in Tasks, NEW b, NEW c, PTask(t, b)
  PROVE  PTask([t EXCEPT !.whole = FALSE], c)
<1>. DEFINE u == [t EXCEPT !.whole = FALSE]
<1>1. /\ u.pc = t.pc /\ u.inp = t.inp /\ u.kept = t.kept /\ u.out = t.out
      /\ u.method = t.method /\ u.url = t.url /\ ~ u.whole
  BY Zenon DEF Tasks
<1>. HIDE DEF u
<1>2. PTask(u, c)
  BY <1>1 DEF PTask
<1>. QED
  BY <1>2 DEF u

\* A step of another thread keeps what is known of this one.
LEMMA POther ==
  ASSUME HTaskOK, NEW g \in Fetchers, PTask(task[g], Buf(g)), Undisturbed(g) \/ Disturbed(g)
  PROVE  PTask(task'[g], buf'[Home[g]])
<1>1. task[g] \in Tasks /\ Buf(g) = buf[Home[g]]
  BY HTask
<1>2. CASE Undisturbed(g)
  <2>1. task'[g] = task[g] /\ (task[g].pc \in Reliant => buf'[Home[g]] = Buf(g))
    BY <1>1, <1>2 DEF Undisturbed, Relies, Reliant
  <2>. QED
    BY <1>1, <2>1, PSameBuffer
<1>3. CASE Disturbed(g)
  BY <1>1, <1>3, PDisturbed DEF Disturbed
<1>. QED
  BY <1>2, <1>3

\* Where a thread exchanges bytes with the server and its client.
Exchanging == {"resolve", "connect", "first", "size", "pass", "keep", "loop", "clear", "more"}

\* From t to u within an exchange.
Exchanged(t, u) ==
  /\ t.pc \in Exchanging /\ u.pc \in Exchanging \cup {"store", "done"}
  /\ u.url = t.url /\ u.method = t.method /\ u.gone = t.gone /\ (u.whole => t.whole)

\* gethostbyname, for the thread that calls it.
LEMMA PResolves ==
  ASSUME NEW t \in Tasks, NEW u \in Tasks, NEW b, PTask(t, b), t.pc = "resolve",
         u = [t EXCEPT !.pc = "connect"]
  PROVE  PTask(u, b) /\ Exchanged(t, u) /\ u.pc = "connect"
<1>1. /\ u.pc = "connect" /\ u.method = t.method /\ u.whole = t.whole /\ u.url = t.url
      /\ u.inp = t.inp /\ u.out = t.out /\ u.kept = t.kept /\ u.gone = t.gone
  BY Zenon DEF Tasks
<1>2. t.inp = <<>> /\ t.kept = <<>> /\ t.out = <<>> /\ t.method \in Methods
      /\ t.url \in Urls
  BY DEF PTask, Early
<1>. QED
  BY <1>1, <1>2 DEF PTask, PWhole, Early, Passing, Exchanged, Exchanging

\* connect, for the thread that does it.
LEMMA PConnects ==
  ASSUME NEW t \in Tasks, NEW u \in Tasks, NEW b, NEW c, PTask(t, b), t.pc = "connect",
         u = [t EXCEPT !.pc = "first", !.inp = u.inp, !.srv = u.srv, !.whole = u.whole],
         u.whole => t.whole /\ u.srv = HostOf[t.url],
         t.inp = <<>> /\ u.srv = HostOf[t.url] => OnItsWay(u)
  PROVE  PTask(u, c) /\ Exchanged(t, u) /\ u.pc = "first"
<1>1. /\ u.pc = "first" /\ u.method = t.method /\ u.url = t.url
      /\ u.out = t.out /\ u.kept = t.kept /\ u.gone = t.gone
  BY Zenon DEF Tasks
<1>2. t.inp = <<>> /\ t.kept = <<>> /\ t.out = <<>> /\ t.method \in Methods
      /\ t.url \in Urls
  BY DEF PTask, Early
<1>. QED
  BY <1>1, <1>2 DEF PTask, PWhole, Early, Passing, Exchanged, Exchanging

\* The first chunk.
LEMMA PFirst ==
  ASSUME NEW t \in Tasks, NEW u \in Tasks, NEW b, NEW c, PTask(t, b), t.pc = "first",
         u = [t EXCEPT !.pc = "size", !.n = u.n, !.inp = u.inp, !.whole = u.whole],
         u.n + Len(u.inp) = Len(t.inp),
         Span(t.inp, t.url, 0) => Span(u.inp, t.url, u.n) /\ Holds(c, t.url, 0, u.n),
         u.whole => t.whole /\ HeaderLen[t.url] <= u.n /\ NotMisled(u, c)
  PROVE  PTask(u, c) /\ Exchanged(t, u) /\ u.pc = "size"
<1>1. /\ u.pc = "size" /\ u.method = t.method /\ u.url = t.url
      /\ u.out = t.out /\ u.kept = t.kept /\ u.gone = t.gone
  BY Zenon DEF Tasks
<1>2. /\ t.kept = <<>> /\ t.out = <<>> /\ t.method \in Methods
      /\ t.whole => OnItsWay(t)
      /\ t.url \in Urls
  BY DEF PTask, PWhole
<1>3. Size(u) = Size(t)
  BY <1>1 DEF Size
<1>4. u.whole => HeaderIsIn(u, c) /\ NotMisled(u, c)
  BY <1>1, <1>2, <1>3 DEF OnItsWay, HeaderIsIn
<1>. QED
  BY <1>1, <1>2, <1>4 DEF PTask, PWhole, Early, Passing, Exchanged, Exchanging

\* What the proxies compute from the first chunk.
Sizes(t, b) ==
  IF t.method = "GET" THEN (IF HasLength(b) THEN Length(b) ELSE 0) + getHeaderLen(b)
                      ELSE getHeaderLen(b)

\* What a proxy computes from a whole header: the size of the response, or of
\* its header when there is no Content-Length.
LEMMA PSizes ==
  ASSUME NEW t \in Tasks, t.url \in Urls, t.n <= BufSize, NEW b \in [1 .. BufSize -> Byte],
         t.method \in Methods
  PROVE  /\ Sizes(t, b) \in Nat
         /\ HeaderIsIn(t, b) /\ NotMisled(t, b) =>
              /\ HeaderLen[t.url] <= Sizes(t, b) /\ Sizes(t, b) <= Size(t)
              /\ t.url \notin NoLength => Sizes(t, b) = Size(t)
<1>1. Sizes(t, b) \in Nat
  BY HReadTypes DEF Sizes
<1>2. t.n \in Nat /\ HeaderLen[t.url] \in Nat /\ BodyLen[t.url] \in Nat
  BY HLengths, Zenon DEF Tasks
<1>3. ASSUME HeaderIsIn(t, b), NotMisled(t, b)
      PROVE  /\ HeaderLen[t.url] <= Sizes(t, b) /\ Sizes(t, b) <= Size(t)
             /\ t.url \notin NoLength => Sizes(t, b) = Size(t)
  <2>1. HeaderLen[t.url] <= t.n /\ Holds(b, t.url, 0, t.n)
    BY <1>3 DEF HeaderIsIn
  <2>2. /\ getHeaderLen(b) = HeaderLen[t.url]
        /\ t.url \notin NoLength => HasLength(b) /\ Length(b) = BodyLen[t.url]
        /\ t.url \in NoLength => ~ HasLength(b)
    BY <1>2, <1>3, <2>1, HReadHeader DEF NotMisled
  <2>3. CASE t.method = "HEAD"
    <3>1. Sizes(t, b) = HeaderLen[t.url] /\ Size(t) = HeaderLen[t.url] + 0
      BY <2>2, <2>3 DEF Sizes, Size
    <3>. QED
      BY <1>2, <3>1
  <2>4. CASE t.method = "GET"
    <3>1. Size(t) = HeaderLen[t.url] + BodyLen[t.url]
      BY <2>4 DEF Size
    <3>2. CASE t.url \notin NoLength
      <4>1. Sizes(t, b) = BodyLen[t.url] + HeaderLen[t.url]
        BY <2>2, <2>4, <3>2 DEF Sizes
      <4>. QED
        BY <1>2, <3>1, <4>1
    <3>3. CASE t.url \in NoLength
      <4>1. Sizes(t, b) = 0 + HeaderLen[t.url]
        BY <2>2, <2>4, <3>3 DEF Sizes
      <4>. QED
        BY <1>2, <3>1, <3>3, <4>1
    <3>. QED
      BY <3>2, <3>3
  <2>. QED
    BY <2>3, <2>4 DEF Methods
<1>. QED
  BY <1>1, <1>3

\* sz is that size.
LEMMA PMeasures ==
  ASSUME NEW t \in Tasks, Placed(t), NEW b \in [1 .. BufSize -> Byte], PTask(t, b),
         t.pc = "size", NEW s, s = Sizes(t, b), NEW u \in Tasks,
         u = [t EXCEPT !.pc = "pass", !.sz = s, !.got = t.n]
  PROVE  PTask(u, b) /\ Exchanged(t, u) /\ u.pc = "pass"
<1>1. /\ u.pc = "pass" /\ u.method = t.method /\ u.url = t.url /\ u.whole = t.whole
      /\ u.inp = t.inp /\ u.n = t.n /\ u.sz = s /\ u.got = t.n
      /\ u.out = t.out /\ u.kept = t.kept /\ u.gone = t.gone
  BY Zenon DEF Tasks
<1>2. /\ t.kept = <<>> /\ t.out = <<>> /\ t.method \in Methods
      /\ t.whole => HeaderIsIn(t, b) /\ NotMisled(t, b)
      /\ t.n \in Nat /\ t.n <= BufSize /\ t.url \in Urls
  BY Zenon DEF PTask, PWhole, Placed, Between, Tasks
<1>3. Size(u) = Size(t)
  BY <1>1 DEF Size
<1>4. ASSUME t.whole PROVE PWhole(u, b)
  <2>1. /\ HeaderLen[t.url] <= s /\ s <= Size(t) /\ (t.url \notin NoLength => s = Size(t))
    BY <1>2, <1>4, PSizes
  <2>2. t.n + Len(t.inp) = Size(t) /\ Span(t.inp, t.url, t.n) /\ Holds(b, t.url, 0, t.n)
    BY <1>2, <1>4 DEF HeaderIsIn
  <2>3. t.n - t.n = 0 /\ t.n <= t.n
    BY <1>2
  <2>4. Complete(t.out, u, 0) /\ Complete(t.kept, u, 0)
    BY <1>2, HEmpty DEF Complete
  <2>. QED
    BY <1>1, <1>3, <2>1, <2>2, <2>3, <2>4 DEF PWhole
<1>. QED
  BY <1>1, <1>2, <1>4 DEF PTask, Early, Exchanged, Exchanging

\* The thread after a send, and after the copy that follows it.
PassedOn(t, b, q) == [t EXCEPT !.pc = q, !.out = @ \o SubSeq(b, 1, t.n)]
Kept(t, b)        == [t EXCEPT !.pc = "loop", !.kept = @ \o SubSeq(b, 1, t.n)]

\* What s gains by the bytes in buf.
LEMMA PGrows ==
  ASSUME NEW t \in Tasks, Placed(t), NEW b \in [1 .. BufSize -> Byte], t.pc \in {"pass", "keep"},
         NEW s \in Seq(Byte)
  PROVE  /\ s \o SubSeq(b, 1, t.n) \in Seq(Byte)
         /\ /\ Holds(b, t.url, t.got - t.n, t.n)
            /\ Complete(s, t, t.got - t.n)
            => Complete(s \o SubSeq(b, 1, t.n), t, t.got)
<1>. DEFINE r == SubSeq(b, 1, t.n)
<1>1. t.n \in Nat /\ t.n <= BufSize /\ t.got \in Int
  BY Zenon DEF Placed, Tasks
<1>2. r \in Seq(Byte) /\ Len(r) = t.n /\ Len(s) \in Nat
  BY <1>1, HFront, HEmpty
<1>3. ASSUME Holds(b, t.url, t.got - t.n, t.n), Complete(s, t, t.got - t.n)
      PROVE  Complete(s \o r, t, t.got)
  <2>. DEFINE m == t.got - t.n
  <2>1. Len(s) = m /\ Span(s, t.url, 0) /\ m \in Int
    BY <1>1, <1>3 DEF Complete
  <2>2. Span(r, t.url, m)
    BY <1>1, <1>3, <2>1, HFront
  <2>. HIDE DEF r, m
  <2>3. Len(s \o r) = Len(s) + Len(r) /\ Span(s \o r, t.url, 0)
    <3>1. 0 \in Int /\ m = 0 + Len(s)
      BY <1>2, <2>1
    <3>. QED
      BY <1>2, <2>1, <2>2, <3>1, HSpanCat
  <2>4. Len(s) + Len(r) = t.got
    BY <1>1, <1>2, <2>1 DEF m
  <2>. QED
    BY <2>3, <2>4 DEF Complete
<1>4. s \o r \in Seq(Byte)
  <2>. HIDE DEF r
  <2>. QED
    BY <1>2
<1>. QED
  BY <1>3, <1>4

\* The chunk goes to the client.
LEMMA PSends ==
  ASSUME NEW t \in Tasks, Placed(t), NEW b \in [1 .. BufSize -> Byte], PTask(t, b), t.pc = "pass",
         NEW q \in {"keep", "loop"}, ~ Caches(t) \/ q = "keep", NEW u, u = PassedOn(t, b, q)
  PROVE  u \in Tasks /\ Placed(u) /\ PTask(u, b) /\ Exchanged(t, u) /\ u.pc = q
<1>. DEFINE s == t.out \o SubSeq(b, 1, t.n)
<1>0. t.out \in Seq(Byte) /\ t.method \in Methods /\ t.url \in Urls /\ t.n <= BufSize
  BY Zenon DEF Tasks, PTask, Placed, Between
<1>1. /\ s \in Seq(Byte)
      /\ /\ Holds(b, t.url, t.got - t.n, t.n)
         /\ Complete(t.out, t, t.got - t.n)
         => Complete(s, t, t.got)
  BY <1>0, PGrows
<1>2. u = [t EXCEPT !.pc = q, !.out = s] /\ q \in Points
  BY DEF PassedOn, Points
<1>. HIDE DEF s
<1>3. /\ u \in Tasks /\ u.pc = q /\ u.method = t.method /\ u.url = t.url /\ u.whole = t.whole
      /\ u.inp = t.inp /\ u.n = t.n /\ u.sz = t.sz /\ u.got = t.got
      /\ u.out = s /\ u.kept = t.kept /\ u.gone = t.gone
  BY <1>1, <1>2, Zenon DEF Tasks
<1>4. Size(u) = Size(t) /\ Caches(u) = Caches(t)
  BY <1>3 DEF Size, Caches
<1>5. ASSUME t.whole PROVE PWhole(u, b)
  <2>1. PWhole(t, b)
    BY <1>5 DEF PTask
  <2>2. ASSUME ~ t.gone
        PROVE  /\ Complete(s, t, t.got)
               /\ Caches(t) => Complete(t.kept, t, t.got - t.n) /\ q = "keep"
    BY <1>1, <2>1, <2>2 DEF PWhole, Passing
  <2>3. /\ HeaderLen[t.url] <= t.sz /\ t.sz <= Size(t) /\ (t.url \notin NoLength => t.sz = Size(t))
        /\ t.got + Len(t.inp) = Size(t) /\ Span(t.inp, t.url, t.got)
        /\ Holds(b, t.url, t.got - t.n, t.n)
    BY <2>1 DEF PWhole, Passing
  <2>. QED
    BY <1>3, <1>4, <2>2, <2>3 DEF PWhole, Complete
<1>6. Placed(u)
  BY <1>0, <1>3 DEF Placed
<1>. QED
  BY <1>0, <1>3, <1>5, <1>6 DEF PTask, Early, Exchanged, Exchanging

\* The client has left.
LEMMA PSkips ==
  ASSUME NEW t \in Tasks, NEW b, PTask(t, b), t.pc = "pass", t.gone,
         NEW q \in {"keep", "loop"}, NEW u \in Tasks, u = [t EXCEPT !.pc = q]
  PROVE  PTask(u, b) /\ Exchanged(t, u) /\ u.pc = q
<1>1. /\ u.pc = q /\ u.method = t.method /\ u.url = t.url /\ u.whole = t.whole
      /\ u.inp = t.inp /\ u.n = t.n /\ u.sz = t.sz /\ u.got = t.got /\ u.gone = t.gone
      /\ u.out = t.out /\ u.kept = t.kept
  BY Zenon DEF Tasks
<1>2. Size(u) = Size(t) /\ t.method \in Methods /\ t.url \in Urls
  BY <1>1 DEF Size, PTask
<1>3. t.whole => PWhole(u, b)
  BY <1>1, <1>2 DEF PTask, PWhole, Passing
<1>. QED
  BY <1>1, <1>2, <1>3 DEF PTask, Early, Exchanged, Exchanging

\* The chunk is kept for the cache.
LEMMA PKeeps ==
  ASSUME NEW t \in Tasks, Placed(t), NEW b \in [1 .. BufSize -> Byte], PTask(t, b), t.pc = "keep",
         NEW u, u = Kept(t, b)
  PROVE  u \in Tasks /\ Placed(u) /\ PTask(u, b) /\ Exchanged(t, u) /\ u.pc = "loop"
<1>. DEFINE s == t.kept \o SubSeq(b, 1, t.n)
<1>0. t.kept \in Seq(Byte) /\ t.method \in Methods /\ t.url \in Urls
  BY Zenon DEF Tasks, PTask, Placed, Between
<1>1. /\ s \in Seq(Byte)
      /\ /\ Holds(b, t.url, t.got - t.n, t.n)
         /\ Complete(t.kept, t, t.got - t.n)
         => Complete(s, t, t.got)
  BY <1>0, PGrows
<1>2. u = [t EXCEPT !.pc = "loop", !.kept = s] /\ "loop" \in Points
  BY DEF Kept, Points
<1>. HIDE DEF s
<1>3. /\ u \in Tasks /\ u.pc = "loop" /\ u.method = t.method /\ u.url = t.url /\ u.whole = t.whole
      /\ u.inp = t.inp /\ u.n = t.n /\ u.sz = t.sz /\ u.got = t.got
      /\ u.out = t.out /\ u.kept = s /\ u.gone = t.gone
  BY <1>1, <1>2, Zenon DEF Tasks
<1>4. Size(u) = Size(t) /\ Caches(u) = Caches(t)
  BY <1>3 DEF Size, Caches
<1>5. ASSUME t.whole PROVE PWhole(u, b)
  <2>1. PWhole(t, b)
    BY <1>5 DEF PTask
  <2>2. ASSUME ~ t.gone
        PROVE  Complete(t.out, t, t.got) /\ (Caches(t) => Complete(s, t, t.got))
    BY <1>1, <2>1, <2>2 DEF PWhole, Passing
  <2>3. /\ HeaderLen[t.url] <= t.sz /\ t.sz <= Size(t) /\ (t.url \notin NoLength => t.sz = Size(t))
        /\ t.got + Len(t.inp) = Size(t) /\ Span(t.inp, t.url, t.got)
    BY <2>1 DEF PWhole, Passing
  <2>. QED
    BY <1>3, <1>4, <2>2, <2>3 DEF PWhole, Complete
<1>6. Placed(u)
  BY <1>0, <1>3 DEF Placed
<1>. QED
  BY <1>0, <1>3, <1>5, <1>6 DEF PTask, Early, Exchanged, Exchanging

\* What a thread that is done has sent, if all went well.
Delivered(t) == t.whole /\ ~ t.gone /\ t.out # <<>> => Response2(t.out, t)

\* The loop ends when the bytes are a response.
LEMMA PResponse ==
  ASSUME NEW t \in Tasks, t.url \in Urls, NEW s, Complete(s, t, t.got), t.got >= t.sz,
         HeaderLen[t.url] <= t.sz,
         t.url \notin NoLength => t.sz = Size(t), t.got + Len(t.inp) = Size(t)
  PROVE  Response2(s, t)
<1>1. t.got \in Int /\ t.sz \in Int /\ Len(t.inp) \in Nat /\ HeaderLen[t.url] \in Nat
  <2>1. t.got \in Int /\ t.sz \in Int /\ t.inp \in Seq(Byte)
    BY Zenon DEF Tasks
  <2>. QED
    BY <2>1, HEmpty, HLengths
<1>. DEFINE z == Size(t)
<1>2. t.got + Len(t.inp) = z /\ (t.url \notin NoLength => t.sz = z)
  OBVIOUS
<1>3. (t.url \notin NoLength => Len(s) = z) => (t.url \notin NoLength => Len(s) = Size(t))
  OBVIOUS
<1>4. Len(s) <= z => Len(s) <= Size(t)
  OBVIOUS
<1>. HIDE DEF z
<1>5. z \in Int /\ t.got <= z
  BY <1>1, <1>2
<1>6. HeaderLen[t.url] <= t.got
  BY <1>1
<1>7. t.sz = z => t.got = z
  BY <1>1, <1>5
<1>8. Len(s) = t.got /\ Span(s, t.url, 0)
  BY DEF Complete
<1>. QED
  BY <1>2, <1>3, <1>4, <1>5, <1>6, <1>7, <1>8 DEF Response2

\* Once round the loop, or out of it.
LEMMA PTurns ==
  ASSUME NEW t \in Tasks, NEW b, NEW c, PTask(t, b), NEW u \in Tasks,
         \/ t.pc = "loop" /\ u = [t EXCEPT !.pc = "clear"]
         \/ t.pc = "clear" /\ u = [t EXCEPT !.pc = "more"]
         \/ /\ t.pc = "loop" /\ t.got >= t.sz
            /\ u = [t EXCEPT !.pc = "store"] \/ u = [t EXCEPT !.pc = "done"]
  PROVE  /\ PTask(u, c) /\ Exchanged(t, u) /\ u.pc \in {"clear", "more", "store", "done"}
         /\ u.pc \in {"store", "done"} => t.pc = "loop"
         /\ u.pc = "done" => Delivered(u)
<1>1. /\ u.pc \in {"clear", "more", "store", "done"} /\ u.method = t.method
      /\ u.url = t.url /\ u.whole = t.whole /\ u.inp = t.inp /\ u.sz = t.sz /\ u.got = t.got
      /\ u.gone = t.gone /\ u.out = t.out /\ u.kept = t.kept
      /\ u.pc \in {"store", "done"} => t.pc = "loop" /\ t.got >= t.sz
      /\ t.pc \in {"loop", "clear"}
  BY Zenon DEF Tasks
<1>2. /\ Size(u) = Size(t) /\ t.method \in Methods /\ Caches(u) = Caches(t)
      /\ t.url \in Urls
  BY <1>1 DEF Size, PTask, Caches
<1>3. ASSUME t.whole
      PROVE  /\ HeaderLen[t.url] <= t.sz /\ t.sz <= Size(t) /\ (t.url \notin NoLength => t.sz = Size(t))
             /\ t.got + Len(t.inp) = Size(t) /\ Span(t.inp, t.url, t.got)
             /\ ~ t.gone => Complete(t.out, t, t.got) /\ (Caches(t) => Complete(t.kept, t, t.got))
  BY <1>1, <1>3 DEF PTask, PWhole, Passing
<1>4. t.whole => PWhole(u, c)
  BY <1>1, <1>2, <1>3 DEF PWhole, Complete
<1>5. ASSUME u.pc = "done", t.whole, ~ t.gone PROVE Response2(u.out, u)
  <2>1. /\ Complete(t.out, t, t.got) /\ t.got >= t.sz /\ HeaderLen[t.url] <= t.sz
        /\ (t.url \notin NoLength => t.sz = Size(t)) /\ t.got + Len(t.inp) = Size(t)
    BY <1>1, <1>3, <1>5
  <2>2. Response2(t.out, t)
    BY <1>2, <2>1, PResponse
  <2>. QED
    BY <1>1, <1>2, <2>2 DEF Response2
<1>. QED
  BY <1>1, <1>2, <1>4, <1>5 DEF PTask, Early, Exchanged, Exchanging, Delivered

\* The next chunk.
LEMMA PReceives ==
  ASSUME NEW t \in Tasks, NEW b, NEW c, PTask(t, b), NEW u \in Tasks, t.pc = "more",
         u.pc = "pass", u.method = t.method, u.whole = t.whole, u.url = t.url, u.sz = t.sz,
         u.out = t.out, u.kept = t.kept, u.gone = t.gone,
         u.n + Len(u.inp) = Len(t.inp), u.got = t.got + u.n,
         \A d \in Int : Span(t.inp, t.url, d) =>
           Span(u.inp, t.url, d + u.n) /\ Holds(c, t.url, d, u.n)
  PROVE  PTask(u, c) /\ Exchanged(t, u)
<1>2. /\ t.method \in Methods /\ t.got \in Int /\ u.n \in Nat /\ Len(u.inp) \in Nat
      /\ t.url \in Urls
  <2>1. t.method \in Methods /\ t.url \in Urls
    BY DEF PTask
  <2>2. t.got \in Int /\ u.n \in Nat /\ u.inp \in Seq(Byte)
    BY Zenon DEF Tasks
  <2>. QED
    BY <2>1, <2>2, HEmpty
<1>3. ASSUME t.whole PROVE PWhole(u, c)
  <2>1. /\ HeaderLen[t.url] <= t.sz /\ t.sz <= Size(t) /\ (t.url \notin NoLength => t.sz = Size(t))
        /\ t.got + Len(t.inp) = Size(t) /\ Span(t.inp, t.url, t.got)
        /\ ~ t.gone => Complete(t.out, t, t.got) /\ (Caches(t) => Complete(t.kept, t, t.got))
    BY <1>3 DEF PTask, PWhole, Passing
  <2>2. Span(u.inp, t.url, t.got + u.n) /\ Holds(c, t.url, t.got, u.n)
    BY <1>2, <2>1
  <2>3. u.got + Len(u.inp) = t.got + Len(t.inp)
    BY <1>2
  <2>4. u.got - u.n = t.got
    BY <1>2
  <2>5. Size(u) = Size(t) /\ Caches(u) = Caches(t)
    BY DEF Size, Caches
  <2>. QED
    BY <2>1, <2>2, <2>3, <2>4, <2>5 DEF PWhole, Complete
<1>. QED
  BY <1>2, <1>3 DEF PTask, Early, Exchanged, Exchanging

\* The rest of the response is lost.
LEMMA PLoses ==
  ASSUME NEW t \in Tasks, NEW b, NEW c, PTask(t, b), NEW u \in Tasks, t.pc \in {"first", "more"},
         u = [t EXCEPT !.inp = <<>>, !.whole = FALSE]
  PROVE  PTask(u, c) /\ Exchanged(t, u) /\ u.pc \in {"first", "more"}
<1>1. /\ u.pc = t.pc /\ u.method = t.method /\ ~ u.whole /\ u.url = t.url /\ u.gone = t.gone
      /\ u.out = t.out /\ u.kept = t.kept
  BY Zenon DEF Tasks
<1>2. t.method \in Methods /\ t.url \in Urls
  BY DEF PTask
<1>. QED
  BY <1>1, <1>2 DEF PTask, Early, Exchanged, Exchanging

\* The client leaves.
LEMMA PLeaves ==
  ASSUME NEW t \in Tasks, NEW b, PTask(t, b), NEW u \in Tasks, u = [t EXCEPT !.gone = TRUE]
  PROVE  PTask(u, b)
<1>1. /\ u.pc = t.pc /\ u.method = t.method /\ u.url = t.url /\ u.whole = t.whole
      /\ u.inp = t.inp /\ u.n = t.n /\ u.sz = t.sz /\ u.got = t.got /\ u.gone
      /\ u.out = t.out /\ u.kept = t.kept
  BY Zenon DEF Tasks
<1>2. Size(u) = Size(t)
  BY <1>1 DEF Size
<1>3. t.whole => PWhole(u, b)
  BY <1>1, <1>2 DEF PTask, PWhole, OnItsWay, HeaderIsIn, NotMisled
<1>. QED
  BY <1>1, <1>3 DEF PTask

\* Steps that touch nothing but the point.
LEMMA PMoves ==
  ASSUME NEW t \in Tasks, NEW b, PTask(t, b), NEW q, NEW u \in Tasks, u = [t EXCEPT !.pc = q],
         \/ /\ t.pc \in Early /\ q \in Early \cup {"hit", "done"}
            /\ q \notin {"idle", "request", "done"} => t.method \in Methods
            /\ t.pc # "idle"
         \/ t.pc = "store" /\ q = "stored"
         \/ t.pc = "stored" /\ q = "unlock"
         \/ t.pc = "unlock" /\ q = "done"
  PROVE  PTask(u, b) /\ (q = "done" => Delivered(u))
<1>1. /\ u.pc = q /\ u.method = t.method /\ u.url = t.url /\ u.whole = t.whole
      /\ u.inp = t.inp /\ u.n = t.n /\ u.sz = t.sz /\ u.got = t.got /\ u.gone = t.gone
      /\ u.out = t.out /\ u.kept = t.kept
  BY Zenon DEF Tasks
<1>2. Size(u) = Size(t) /\ Caches(u) = Caches(t)
  BY <1>1 DEF Size, Caches
<1>3. CASE t.pc \in Early
  <2>1. t.inp = <<>> /\ t.kept = <<>> /\ t.out = <<>> /\ t.url \in Urls
    BY <1>3 DEF PTask, Early
  <2>2. /\ q \in Early \cup {"hit", "done"}
        /\ q \notin {"idle", "request", "done"} => t.method \in Methods
    BY <1>3 DEF Early
  <2>. QED
    BY <1>1, <2>1, <2>2 DEF PTask, PWhole, Early, Passing, Delivered
<1>4. CASE t.pc \in {"store", "stored", "unlock"}
  <2>1. /\ \/ (t.pc = "store" /\ q = "stored")
           \/ (t.pc = "stored" /\ q = "unlock")
           \/ (t.pc = "unlock" /\ q = "done")
        /\ t.method \in Methods /\ t.url \in Urls
    BY <1>4 DEF Early, PTask
  <2>2. ASSUME t.whole
        PROVE  /\ HeaderLen[t.url] <= t.sz /\ t.sz <= Size(t)
               /\ (t.url \notin NoLength => t.sz = Size(t))
               /\ t.got + Len(t.inp) = Size(t) /\ Span(t.inp, t.url, t.got) /\ t.got >= t.sz
               /\ ~ t.gone => Complete(t.out, t, t.got) /\ (Caches(t) => Complete(t.kept, t, t.got))
    BY <1>4, <2>2 DEF PTask, PWhole, Passing
  <2>3. t.whole => PWhole(u, b)
    BY <1>1, <1>2, <2>1, <2>2 DEF PWhole, Complete
  <2>4. t.whole /\ ~ t.gone => Response2(t.out, t)
    BY <2>1, <2>2, PResponse
  <2>5. Delivered(u)
    BY <1>1, <1>2, <2>4 DEF Delivered, Response2
  <2>. QED
    BY <1>1, <2>1, <2>3, <2>5 DEF PTask, Early
<1>. QED
  BY <1>3, <1>4

\* What is stored is a response.
LEMMA PStores ==
  ASSUME NEW t \in Tasks, NEW b, PTask(t, b), t.pc = "stored", Caches(t), t.whole, ~ t.gone
  PROVE  Response2(t.kept, t)
<1>1. /\ HeaderLen[t.url] <= t.sz
      /\ (t.url \notin NoLength => t.sz = Size(t))
      /\ t.got + Len(t.inp) = Size(t) /\ t.got >= t.sz
      /\ Complete(t.kept, t, t.got) /\ t.url \in Urls
  BY DEF PTask, PWhole, Passing
<1>. QED
  BY <1>1, PResponse

\* A request is accepted.
LEMMA PAccepts ==
  ASSUME NEW t \in Tasks, NEW b, PTask(t, b), t.pc = "idle", NEW r \in Requests,
         NEW o \in Urls, NEW u, u = [t EXCEPT !.pc = "request", !.method = r.method, !.url = o]
  PROVE  u \in Tasks /\ Placed(u) /\ PTask(u, b)
<1>. DEFINE m == r.method
<1>0. m \in AnyMethod /\ o \in Urls \cup {""} /\ "request" \in Points
  BY Zenon DEF AnyMethod, Points
<1>. HIDE DEF m
<1>1. /\ u \in Tasks /\ u.pc = "request" /\ u.url = o /\ u.whole = t.whole
      /\ u.inp = t.inp /\ u.out = t.out /\ u.kept = t.kept
  BY <1>0, Zenon DEF Tasks, m
<1>2. t.inp = <<>> /\ t.out = <<>> /\ t.kept = <<>>
  BY DEF PTask, Early
<1>. QED
  BY <1>0, <1>1, <1>2, Zenon DEF Placed, PTask, PWhole, Early, Passing

-----------------------------------------------------------------------------
(* The steps of a proxy's thread within an exchange.                       *)

PWorked(f, q) ==
  /\ HTaskOK' /\ OthersStay(f) /\ PTask(task'[f], buf'[Home[f]])
  /\ \/ Still
     \/ /\ Exchanged(task[f], task'[f])
        /\ task'[f].pc \in {"connect", "first", "size", "pass", "loop", "clear", "more", q}
        /\ task'[f].pc = "done" => Delivered(task'[f])

\* An exit.
LEMMA PStill ==
  ASSUME HTaskOK, NEW f \in Fetchers, PTask(task[f], Buf(f)), Still, NEW q
  PROVE  PWorked(f, q)
<1>1. HTaskOK' /\ OthersStay(f) /\ Buf(f) = buf[Home[f]]
  BY HStill, HTask
<1>2. PTask(task'[f], buf'[Home[f]])
  BY <1>1 DEF Still
<1>. QED
  BY <1>1, <1>2 DEF PWorked

\* The thread goes on as v with the same buffer.
LEMMA PGoes ==
  ASSUME HTaskOK, NEW f \in Fetchers, NEW v, v \in Tasks, Placed(v), Goes(f, v),
         PTask(v, Buf(f)), Exchanged(task[f], v), NEW q,
         v.pc \in {"connect", "first", "size", "pass", "loop", "clear", "more", q},
         v.pc = "done" => Delivered(v)
  PROVE  PWorked(f, q)
<1>1. task'[f] = v /\ HTaskOK' /\ OthersStay(f) /\ buf' = buf
  BY HGoes
<1>2. buf'[Home[f]] = Buf(f)
  BY <1>1, HTask
<1>. QED
  BY <1>1, <1>2 DEF PWorked

\* gethostbyname, as an action.
LEMMA PResolve ==
  ASSUME HTaskOK, NEW f \in Fetchers, PTask(task[f], Buf(f)), Resolve(f), NEW q
  PROVE  PWorked(f, q)
<1>. DEFINE t == task[f]
            u == task'[f]
<1>1. /\ HTaskOK' /\ OthersStay(f) /\ buf' = buf /\ t.pc = "resolve"
      /\ Still \/ u = [t EXCEPT !.pc = "connect"]
  BY HResolve
<1>2. t \in Tasks /\ u \in Tasks /\ PTask(t, Buf(f)) /\ Buf(f) = buf[Home[f]]
  BY <1>1, HTask, Zenon DEF HTaskOK
<1>3. CASE Still
  BY <1>3, PStill
<1>4. CASE ~ Still
  <2>. HIDE DEF t, u
  <2>1. PTask(u, Buf(f)) /\ Exchanged(t, u) /\ u.pc = "connect"
    BY <1>1, <1>2, <1>4, PResolves
  <2>. QED
    BY <1>1, <1>2, <2>1 DEF PWorked, t, u
<1>. QED
  BY <1>3, <1>4

\* connect, as an action.
LEMMA PConnect ==
  ASSUME HTaskOK, NEW f \in Fetchers, PTask(task[f], Buf(f)), Connect(f, "first"), NEW q
  PROVE  PWorked(f, q)
<1>. DEFINE t == task[f]
            u == task'[f]
<1>1. /\ HTaskOK' /\ OthersStay(f)
      /\ Still \/ /\ t.pc = "connect"
                  /\ u = [t EXCEPT !.pc = "first", !.inp = u.inp, !.srv = u.srv, !.whole = u.whole]
                  /\ u.whole => t.whole /\ u.srv = HostOf[t.url]
                  /\ t.inp = <<>> /\ u.srv = HostOf[t.url] => OnItsWay(u)
  BY HConnect, Zenon
<1>2. t \in Tasks /\ u \in Tasks
  BY <1>1, HTask, Zenon DEF HTaskOK
<1>3. CASE Still
  BY <1>3, PStill
<1>4. CASE ~ Still
  <2>1. /\ t.pc = "connect"
        /\ u = [t EXCEPT !.pc = "first", !.inp = u.inp, !.srv = u.srv, !.whole = u.whole]
        /\ u.whole => t.whole /\ u.srv = HostOf[t.url]
        /\ t.inp = <<>> /\ u.srv = HostOf[t.url] => OnItsWay(u)
    BY <1>1, <1>4
  <2>2. PTask(t, Buf(f))
    OBVIOUS
  <2>. HIDE DEF t, u
  <2>3. PTask(u, buf'[Home[f]]) /\ Exchanged(t, u) /\ u.pc = "first"
    BY <1>2, <2>1, <2>2, PConnects, Zenon
  <2>. QED
    BY <1>1, <2>3 DEF PWorked, t, u
<1>. QED
  BY <1>3, <1>4

\* The first recv, as an action.
LEMMA PFirstChunk ==
  ASSUME HTaskOK, NEW f \in Fetchers, PTask(task[f], Buf(f)), FirstChunk(f), NEW q
  PROVE  PWorked(f, q)
<1>. DEFINE t == task[f]
            u == task'[f]
            b == buf'[Home[f]]
<1>1. /\ HTaskOK' /\ OthersStay(f) /\ t.pc = "first"
      /\ Still \/
         /\ u = [t EXCEPT !.pc = "size", !.n = u.n, !.inp = u.inp, !.whole = u.whole]
         /\ u.n + Len(u.inp) = Len(t.inp)
         /\ Span(t.inp, t.url, 0) => Span(u.inp, t.url, u.n) /\ Holds(b, t.url, 0, u.n)
         /\ u.whole => t.whole /\ HeaderLen[t.url] <= u.n /\ NotMisled(u, b)
  BY HFirstChunk, Zenon
<1>2. t \in Tasks /\ u \in Tasks /\ PTask(t, Buf(f))
  BY <1>1, HTask, Zenon DEF HTaskOK
<1>3. CASE Still
  BY <1>3, PStill
<1>4. CASE ~ Still
  <2>. HIDE DEF t, u, b
  <2>2. PTask(u, b) /\ Exchanged(t, u) /\ u.pc = "size"
    BY <1>1, <1>2, <1>4, PFirst, Zenon
  <2>. QED
    BY <1>1, <2>2 DEF PWorked, t, u, b
<1>. QED
  BY <1>3, <1>4

\* The size, as an action.
LEMMA PMeasure ==
  ASSUME HTaskOK, NEW f \in Fetchers, PTask(task[f], Buf(f)), NEW s,
         At(f, "size") => s = Sizes(task[f], Buf(f)), Measure(f, s, "pass"), NEW q
  PROVE  PWorked(f, q)
<1>. DEFINE t == task[f]
            b == Buf(f)
            u == task'[f]
<1>1. /\ t \in Tasks /\ Placed(t) /\ b \in [1 .. BufSize -> Byte] /\ b = buf[Home[f]]
      /\ PTask(t, b) /\ t.pc = "size" /\ s = Sizes(t, b)
  BY HTask DEF Measure, At
<1>2. t.url \in Urls /\ t.n <= BufSize /\ t.method \in Methods
  BY <1>1 DEF Placed, Between, PTask
<1>. HIDE DEF t, b, u
<1>3. s \in Int
  BY <1>1, <1>2, PSizes
<1>4. /\ HTaskOK' /\ OthersStay(f) /\ buf' = buf
      /\ u = [t EXCEPT !.pc = "pass", !.sz = s, !.got = t.n]
  BY <1>3, HMeasure, Zenon DEF t, u
<1>5. u \in Tasks
  BY <1>4, Zenon DEF HTaskOK, u
<1>6. PTask(u, b) /\ Exchanged(t, u) /\ u.pc = "pass"
  BY <1>1, <1>4, <1>5, PMeasures, Zenon
<1>. QED
  BY <1>1, <1>4, <1>6 DEF PWorked, t, u

\* send, as an action.
LEMMA PSendOn ==
  ASSUME HTaskOK, NEW f \in Pool, PTask(task[f], Buf(f)), NEW q \in {"keep", "loop"},
         ~ Caches(task[f]) \/ q = "keep", SendOn(f, q)
  PROVE  PWorked(f, q)
<1>. DEFINE t == task[f]
            b == Buf(f)
<1>0. f \in Fetchers /\ Client[f] = f
  BY HConstants
<1>1. /\ t \in Tasks /\ Placed(t) /\ b \in [1 .. BufSize -> Byte] /\ PTask(t, b)
      /\ t.pc = "pass" /\ (Left(f) <=> t.gone)
  BY <1>0, HTask DEF SendOn, At, Left
<1>2. CASE Exit(f)
  BY <1>0, <1>2, HExit, PStill
<1>3. ASSUME NEW p \in {"keep", "loop"}, p \in {q, "loop"}, t.gone,
             Goes(f, [t EXCEPT !.pc = p])
      PROVE  PWorked(f, q)
  <2>. DEFINE v == [t EXCEPT !.pc = p]
  <2>1. v \in Tasks /\ v.pc = p /\ v.url = t.url /\ v.n = t.n
    <3>. HIDE DEF t
    <3>1. p \in Points
      BY DEF Points
    <3>. QED
      BY <1>1, <3>1, Zenon DEF Tasks
  <2>2. Placed(v)
    BY <1>1, <2>1 DEF Placed, Between
  <2>3. PTask(v, b) /\ Exchanged(t, v)
    <3>. HIDE DEF t, b
    <3>. QED
      BY <1>1, <1>3, <2>1, PSkips
  <2>4. Goes(f, v)
    BY <1>3
  <2>5. v.pc # "done" /\ v.pc \in {"connect", "first", "size", "pass", "loop", "clear", "more", q}
    BY <1>3, <2>1
  <2>. HIDE DEF v
  <2>. QED
    BY <1>0, <2>1, <2>2, <2>3, <2>4, <2>5, PGoes
<1>4. CASE /\ task' = [g \in Fetchers |->
                        CASE g = f -> [task[f] EXCEPT !.pc = q, !.out = @ \o Sent(f)]
                          [] g # f /\ g = Client[f] -> [task[g] EXCEPT !.inp = @ \o Sent(f)]
                          [] OTHER -> task[g]]
           /\ UNCHANGED <<buf, addr, up>>
  <2>. DEFINE v == PassedOn(t, b, q)
  <2>1. v = [task[f] EXCEPT !.pc = q, !.out = @ \o Sent(f)]
    BY DEF PassedOn, Sent
  <2>2. task' = [g \in Fetchers |-> IF g = f THEN v ELSE task[g]]
    <3>. HIDE DEF v
    <3>. QED
      BY <1>0, <1>4, <2>1
  <2>. HIDE DEF v
  <2>3. Goes(f, v)
    <3>1. [task EXCEPT ![f] = v] = [g \in Fetchers |-> IF g = f THEN v ELSE task[g]]
      BY Zenon DEF HTaskOK
    <3>. QED
      BY <1>4, <2>2, <3>1 DEF Goes
  <2>4. v \in Tasks /\ Placed(v) /\ PTask(v, b) /\ Exchanged(t, v) /\ v.pc = q
    <3>1. ~ Caches(t) \/ q = "keep"
      OBVIOUS
    <3>. HIDE DEF t, b
    <3>. QED
      BY <1>1, <3>1, PSends DEF v
  <2>. QED
    BY <1>0, <2>3, <2>4, PGoes
<1>. QED
  BY <1>1, <1>2, <1>3, <1>4 DEF SendOn

\* std::copy, as an action.
LEMMA PKeep ==
  ASSUME HTaskOK, NEW f \in Fetchers, PTask(task[f], Buf(f)), Keep(f), NEW q
  PROVE  PWorked(f, q)
<1>. DEFINE t == task[f]
            b == Buf(f)
            v == Kept(t, b)
<1>1. /\ t \in Tasks /\ Placed(t) /\ b \in [1 .. BufSize -> Byte] /\ PTask(t, b)
      /\ t.pc = "keep" /\ Goes(f, v)
  BY HTask DEF Keep, At, Sent, Kept
<1>2. v \in Tasks /\ Placed(v) /\ PTask(v, b) /\ Exchanged(t, v) /\ v.pc = "loop"
  <2>. HIDE DEF t, b
  <2>. QED
    BY <1>1, PKeeps
<1>. HIDE DEF v
<1>. QED
  BY <1>1, <1>2, PGoes

\* The loop, as an action.
LEMMA PLoop ==
  ASSUME HTaskOK, NEW f \in Fetchers, PTask(task[f], Buf(f)), NEW q \in {"store", "done"},
         Loop(f, q)
  PROVE  PWorked(f, q)
<1>. DEFINE t == task[f]
            u == task'[f]
            b == Buf(f)
            c == buf'[Home[f]]
<1>1. t \in Tasks /\ PTask(t, b) /\ (HTaskOK' => u \in Tasks)
  BY HTask, Zenon DEF HTaskOK
<1>2. ASSUME HTaskOK', OthersStay(f), NEW p \in {"clear", "more", q}, u.pc = p,
             \/ t.pc = "loop" /\ u = [t EXCEPT !.pc = "clear"]
             \/ t.pc = "clear" /\ u = [t EXCEPT !.pc = "more"]
             \/ /\ t.pc = "loop" /\ t.got >= t.sz
                /\ u = [t EXCEPT !.pc = "store"] \/ u = [t EXCEPT !.pc = "done"]
      PROVE  PWorked(f, q)
  <2>. HIDE DEF t, u, b, c
  <2>2. PTask(u, c) /\ Exchanged(t, u) /\ (u.pc = "done" => Delivered(u))
    BY <1>1, <1>2, PTurns
  <2>. QED
    BY <1>2, <2>2 DEF PWorked, t, u, c
<1>3. CASE Again(f)
  <2>1. HTaskOK' /\ OthersStay(f) /\ t.pc = "loop" /\ u = [t EXCEPT !.pc = "clear"]
    BY <1>3, HAgain
  <2>2. u.pc = "clear"
    <3>. HIDE DEF t, u
    <3>. QED
      BY <1>1, <2>1, Zenon DEF Tasks
  <2>. QED
    BY <1>2, <2>1, <2>2
<1>4. CASE Clear(f)
  <2>1. HTaskOK' /\ OthersStay(f) /\ t.pc = "clear" /\ u = [t EXCEPT !.pc = "more"]
    BY <1>4, HClear
  <2>2. u.pc = "more"
    <3>. HIDE DEF t, u
    <3>. QED
      BY <1>1, <2>1, Zenon DEF Tasks
  <2>. QED
    BY <1>2, <2>1, <2>2
<1>5. CASE Enough(f, q)
  <2>1. /\ HTaskOK' /\ OthersStay(f) /\ t.pc = "loop" /\ t.got >= t.sz
        /\ u = [t EXCEPT !.pc = q]
    BY <1>5, HEnough
  <2>2. u.pc = q
    <3>. HIDE DEF t, u
    <3>. QED
      BY <1>1, <2>1, Zenon DEF Tasks
  <2>3. u = [t EXCEPT !.pc = "store"] \/ u = [t EXCEPT !.pc = "done"]
    BY <2>1
  <2>. QED
    BY <1>2, <2>1, <2>2, <2>3
<1>6. CASE NextChunk(f)
  <2>1. /\ HTaskOK' /\ OthersStay(f) /\ t.pc = "more"
        /\ Still \/
           /\ u = [t EXCEPT !.pc = "pass", !.n = u.n, !.inp = u.inp, !.got = u.got]
           /\ u.n + Len(u.inp) = Len(t.inp) /\ u.got = t.got + u.n
           /\ \A d \in Int : Span(t.inp, t.url, d) =>
                Span(u.inp, t.url, d + u.n) /\ Holds(c, t.url, d, u.n)
    BY <1>6, HNextChunk, Zenon
  <2>2. CASE Still
    BY <2>2, PStill
  <2>3. CASE ~ Still
    <3>. HIDE DEF t, u, b, c
    <3>2. /\ u.pc = "pass" /\ u.method = t.method /\ u.whole = t.whole /\ u.url = t.url
          /\ u.sz = t.sz /\ u.out = t.out /\ u.kept = t.kept /\ u.gone = t.gone
      BY <1>1, <2>1, <2>3, Zenon DEF Tasks
    <3>3. PTask(u, c) /\ Exchanged(t, u)
      BY <1>1, <2>1, <2>3, <3>2, PReceives
    <3>. QED
      BY <2>1, <3>2, <3>3 DEF PWorked, t, u, c
  <2>. QED
    BY <2>2, <2>3
<1>7. CASE Lose(f)
  <2>1. /\ HTaskOK' /\ OthersStay(f) /\ t.pc \in {"first", "more"}
        /\ u = [t EXCEPT !.inp = <<>>, !.whole = FALSE]
    BY <1>7, HLose, Zenon
  <2>. HIDE DEF t, u, b, c
  <2>3. PTask(u, c) /\ Exchanged(t, u) /\ u.pc \in {"first", "more"}
    BY <1>1, <2>1, PLoses, Zenon
  <2>. QED
    BY <2>1, <2>3 DEF PWorked, t, u, c
<1>. QED
  BY <1>3, <1>4, <1>5, <1>6, <1>7 DEF Loop

\* The exchange up to the loop.
LEMMA PRelay ==
  ASSUME HTaskOK, NEW f \in Pool, PTask(task[f], Buf(f)), NEW q \in {"keep", "loop"},
         ~ Caches(task[f]) \/ q = "keep", NEW s, At(f, "size") => s = Sizes(task[f], Buf(f)),
         Relay(f, s, q)
  PROVE  PWorked(f, q)
<1>1. f \in Fetchers
  BY HConstants
<1>. QED
  BY <1>1, PResolve, PConnect, PFirstChunk, PMeasure, PSendOn DEF Relay

-----------------------------------------------------------------------------
(* The other parts of the invariant of the proxies.                        *)

\* A step of f: the other threads are as ProxyInv has them.
LEMMA PProxyKept ==
  ASSUME HInv, prog \in {"2", "cache"}, prog' = prog, NEW f \in Pool, HTaskOK', OthersStay(f),
         PTask(task'[f], buf'[Home[f]]), PDone(task[f])',
         task'[f].whole => task[f].whole, task[f].gone => task'[f].gone,
         \A w \in Urls : filler[w] \subseteq filler'[w] /\ filler'[w] \subseteq Fetchers
  PROVE  HRoles' /\ ProxyInv'
<1>0. f \in Fetchers /\ Runs(f) /\ Pool \subseteq Fetchers
  BY HConstants, HProgs DEF Runs
<1>1. HTaskOK /\ HRoles /\ \A g \in Fetchers : PTask(task[g], Buf(g)) /\ PDone(task[g])
  BY DEF HInv, HTypeOK, ProxyInv
<1>2. ASSUME NEW g \in Fetchers \ {f}, (~ Runs(g))' PROVE task'[g] = Idle
  <2>1. ~ Runs(g)
    BY <1>2 DEF Runs
  <2>2. task[g] = Idle /\ Idle.pc = "idle"
    BY <1>1, <2>1, Zenon DEF HRoles, Idle
  <2>3. task[g] = Idle /\ ~ Relies(g)
    BY <2>2 DEF Relies
  <2>. QED
    BY <1>1, <2>3, HOther DEF OthersStay
<1>3. HRoles'
  BY <1>0, <1>2 DEF HRoles, Runs
<1>4. ASSUME NEW g \in Fetchers
      PROVE  /\ task'[g].whole => task[g].whole
             /\ task[g].gone => task'[g].gone
  <2>1. CASE g = f
    BY <2>1
  <2>2. CASE g # f
    BY <1>1, <2>2, HOther DEF OthersStay
  <2>. QED
    BY <2>1, <2>2
<1>5. ASSUME NEW g \in Fetchers \ {f} PROVE PTask(task'[g], buf'[Home[g]]) /\ PDone(task[g])'
  <2>1. PTask(task'[g], buf'[Home[g]]) /\ PTask(task[g], Buf(g))
    BY <1>1, POther DEF OthersStay
  <2>2. /\ task'[g].pc = task[g].pc /\ task'[g].url = task[g].url /\ task'[g].out = task[g].out
        /\ task'[g].gone = task[g].gone /\ task'[g].method = task[g].method
        /\ task'[g].whole => task[g].whole
    BY <1>1, HOther DEF OthersStay
  <2>3. PDone(task[g])'
    <3>. SUFFICES ASSUME task[g].pc = "done", task[g].whole, ~ task[g].gone, task[g].out # <<>>,
                         Trusted(task[g].url)'
                  PROVE  Response2(task[g].out, task[g])
      BY <2>2 DEF PDone, Response2, Size
    <3>1. task[g].url \in Urls
      BY <2>1 DEF PTask
    <3>2. Trusted(task[g].url)
      BY <1>4, <2>2, <3>1 DEF Trusted
    <3>. QED
      BY <1>1, <3>2 DEF PDone
  <2>. QED
    BY <2>1, <2>3
<1>6. \A g \in Fetchers : PTask(task'[g], buf'[Home[g]]) /\ PDone(task[g])'
  BY <1>5
<1>7. \A g \in Fetchers : (PTask(task[g], Buf(g)))' <=> PTask(task'[g], buf'[Home[g]])
  BY DEF PTask, PWhole, Caches, Buf
<1>8. ProxyInv'
  BY <1>6, <1>7 DEF ProxyInv
<1>. QED
  BY <1>3, <1>8

\* The proxies with threads: what is left to show of the invariant.
LEMMA PRest ==
  ASSUME HInv, prog \in {"2", "cache"}, UNCHANGED listVars, HTaskOK', HRoles', ProxyInv',
         CacheInv', VisitInv',
         cache' \in [Urls -> Seq(Byte) \cup {NoEntry}], filler' \in [Urls -> SUBSET Pool],
         statsVis' \in [Hosts -> Nat], seen' \in [Fetchers -> Nat]
  PROVE  HInv'
<1>1. UNCHANGED <<prog, line, eof, mtx, files, fetched>>
  BY DEF listVars
<1>2. HTypeOK'
  BY <1>1 DEF HInv, HTypeOK, Hosts
<1>3. prog \notin Lists /\ prog # "1" /\ prog # "d" /\ prog \notin {"b", "c"} /\ prog # "a"
  BY HProgs DEF Lists
<1>4. ListInv' /\ ServerInv' /\ OneInv'
  BY <1>1, <1>3 DEF ListInv, ServerInv, OneInv
<1>5. LineInv'
  <2>1. LineInv
    BY DEF HInv
  <2>. QED
    BY <1>1, <1>3, <2>1 DEF LineInv, InOrder
<1>. QED
  BY <1>2, <1>4, <1>5 DEF HInv

FillPoints == {"miss", "resolve", "connect", "first", "size", "pass", "keep",
               "loop", "clear", "more", "store", "stored"}
IsFilling(t) == t.method = "GET" /\ t.pc \in FillPoints
IsCounted(t) == /\ t.url # "" /\ t.method = "GET"
                /\ t.pc \notin {"idle", "request", "hang", "visit", "find", "count"}

\* An absent entry is no sequence of bytes.
LEMMA PNoEntry == NoEntry \notin Seq(Byte) /\ NoEntry # <<>>
<1>1. <<"none", 0>> \notin Byte
  <2>1. <<"none", 0>> \notin Urls \X (Nat \ {0})
    OBVIOUS
  <2>2. <<"none", 0>>[1] = "none" /\ <<"", 0>>[1] = "" /\ "none" # ""
    OBVIOUS
  <2>3. <<"none", 0>> # <<"", 0>>
    BY <2>2, Zenon
  <2>. QED
    BY <2>1, <2>3 DEF Byte, Zero
<1>. DEFINE e == <<"none", 0>>
<1>2. NoEntry = <<e>>
  BY DEF NoEntry
<1>. HIDE DEF e
<1>3. Len(<<e>>) = 1 /\ <<e>>[1] = e
  OBVIOUS
<1>4. \A s \in Seq(Byte) : Len(s) = 1 => s[1] \in Byte
  OBVIOUS
<1>. QED
  BY <1>1, <1>2, <1>3, <1>4 DEF e

\* Of one thread, what CacheLocked says.
HeldRight(t, f, m, c) ==
  /\ t.pc \in {"reserve", "miss", "hit", "stored", "unlock"} => m = f
  /\ t.pc \in {"visit", "find", "count", "visited", "lookup", "reserve", "miss", "hit",
               "answer", "keep", "store", "stored", "unlock"} => t.method = "GET"
  /\ t.pc = "reserve" => c[t.url] = NoEntry
  /\ t.pc = "hit" => c[t.url] # NoEntry
  /\ t.pc = "answer" /\ t.kept # <<>> => c[t.url] = t.kept

\* The cache changes only under its mutex, and never where it has an answer.
LEMMA PLocked ==
  ASSUME HInv, prog = "cache", NEW f \in Fetchers, HTaskOK', OthersStay(f),
         cacheMtx' = cacheMtx \/ cacheMtx \in {Free, f},
         \A w \in Urls : cache'[w] = cache[w] \/ (cacheMtx = f /\ cache[w] \in {NoEntry, <<>>}),
         HeldRight(task'[f], f, cacheMtx', cache')
  PROVE  CacheLocked'
<1>1. HTaskOK /\ CacheLocked /\ \A g \in Fetchers : PTask(task[g], Buf(g))
  BY DEF HInv, HTypeOK, CacheInv, ProxyInv
<1>2. ASSUME NEW g \in Fetchers \ {f} PROVE HeldRight(task'[g], g, cacheMtx', cache')
  <2>1. HeldRight(task[g], g, cacheMtx, cache)
    BY <1>1 DEF CacheLocked, HeldRight, Url
  <2>2. /\ task'[g].pc = task[g].pc /\ task'[g].url = task[g].url
        /\ task'[g].method = task[g].method /\ task'[g].kept = task[g].kept
    BY <1>1, HOther DEF OthersStay
  <2>3. task[g].pc # "idle" => task[g].url \in Urls
    BY <1>1 DEF PTask
  <2>4. task[g].kept \in Seq(Byte) /\ g # Free /\ g # f
    <3>1. task[g].kept \in Seq(Byte)
      BY <1>1, HTask
    <3>2. g \in {1, 2, 3, 4}
      BY HConstants
    <3>3. g # Free
      BY <3>2 DEF Free
    <3>. QED
      BY <3>1, <3>3
  <2>5. ASSUME task[g].pc \in {"reserve", "miss", "hit", "stored", "unlock"}
        PROVE  cacheMtx' = g /\ \A w \in Urls : cache'[w] = cache[w]
    BY <2>1, <2>4, <2>5 DEF HeldRight
  <2>6. ASSUME task[g].pc = "answer", task[g].kept # <<>> PROVE cache'[task[g].url] = task[g].kept
    <3>1. cache[task[g].url] = task[g].kept /\ task[g].url \in Urls
      BY <2>1, <2>3, <2>6 DEF HeldRight
    <3>2. task[g].kept \notin {NoEntry, <<>>}
      BY <2>4, <2>6, PNoEntry
    <3>. QED
      BY <3>1, <3>2
  <2>. QED
    BY <2>1, <2>2, <2>3, <2>5, <2>6 DEF HeldRight
<1>3. \A g \in Fetchers : HeldRight(task'[g], g, cacheMtx', cache')
  BY <1>2
<1>. QED
  BY <1>3 DEF CacheLocked, HeldRight, Url

\* What remains filled or being filled.
LEMMA PFilledKept ==
  ASSUME HInv, prog = "cache", NEW f \in Fetchers, HTaskOK', OthersStay(f),
         UNCHANGED <<cache, filler>>,
         IsFilling(task'[f]) <=> IsFilling(task[f]),
         IsFilling(task[f]) => task'[f].url = task[f].url,
         task[f].pc \in {"unlock", "done"} =>
           /\ task'[f].pc \in {"unlock", "done"} /\ task'[f].kept = task[f].kept
           /\ task'[f].url = task[f].url /\ task'[f].method = task[f].method
           /\ task[f].gone => task'[f].gone
           /\ task'[f].whole => task[f].whole
  PROVE  CacheFilled'
<1>1. HTaskOK /\ CacheFilled /\ filler \in [Urls -> SUBSET Pool]
  BY DEF HInv, HTypeOK, CacheInv
<1>2. ASSUME NEW g \in Fetchers
      PROVE  /\ IsFilling(task'[g]) <=> IsFilling(task[g])
             /\ IsFilling(task[g]) => task'[g].url = task[g].url
             /\ task[g].pc \in {"unlock", "done"} =>
                  /\ task'[g].pc \in {"unlock", "done"} /\ task'[g].kept = task[g].kept
                  /\ task'[g].url = task[g].url /\ task'[g].method = task[g].method
                  /\ task[g].gone => task'[g].gone
                  /\ task'[g].whole => task[g].whole
  <2>1. CASE g = f
    BY <2>1
  <2>2. CASE g # f
    BY <1>1, <2>2, HOther DEF OthersStay, IsFilling
  <2>. QED
    BY <2>1, <2>2
<1>4. ASSUME NEW w \in Urls PROVE Filling(w)' = Filling(w)
  <2>1. \A g \in Fetchers : task'[g].url = w /\ IsFilling(task'[g])
                              <=> task[g].url = w /\ IsFilling(task[g])
    BY <1>2
  <2>. QED
    BY <2>1 DEF Filling, IsFilling, FillPoints, Url
<1>5. ASSUME NEW w \in Urls, NEW g \in filler[w]
      PROVE  /\ task'[g].url = w /\ task'[g].method = "GET" /\ task'[g].pc \in {"unlock", "done"}
             /\ cache[w] = task'[g].kept /\ filler[w] = {g}
             /\ task'[g].whole /\ ~ task'[g].gone => Response2(task'[g].kept, task'[g])
  <2>1. g \in Fetchers
    BY <1>1, HConstants
  <2>2. /\ task[g].url = w /\ task[g].method = "GET" /\ task[g].pc \in {"unlock", "done"}
        /\ cache[w] = task[g].kept /\ filler[w] = {g}
        /\ task[g].whole /\ ~ task[g].gone => Response2(task[g].kept, task[g])
    BY <1>1 DEF CacheFilled, Url
  <2>3. /\ task'[g].pc \in {"unlock", "done"} /\ task'[g].kept = task[g].kept
        /\ task'[g].url = task[g].url /\ task'[g].method = task[g].method
        /\ task[g].gone => task'[g].gone
        /\ task'[g].whole => task[g].whole
    BY <1>2, <2>1, <2>2
  <2>. QED
    BY <2>2, <2>3 DEF Response2, Size
<1>. QED
  BY <1>1, <1>4, <1>5 DEF CacheFilled, Url, Response2, Size

\* A step that leaves the cache alone.
LEMMA PCacheKept ==
  ASSUME HInv, UNCHANGED <<prog, cache, cacheMtx, filler>>, NEW f \in Fetchers,
         HTaskOK', OthersStay(f), task'[f].whole => task[f].whole,
         \/ /\ task'[f].pc = task[f].pc /\ task'[f].kept = task[f].kept
            /\ task'[f].url = task[f].url /\ task'[f].method = task[f].method
            /\ task[f].gone => task'[f].gone
         \/ /\ task[f].pc \notin {"unlock", "done"}
            /\ task'[f].pc \notin {"reserve", "miss", "hit", "answer", "stored", "unlock"}
            /\ task'[f].pc \in {"visit", "find", "count", "visited", "lookup", "keep", "store"}
                 => task'[f].method = "GET"
            /\ IsFilling(task'[f]) <=> IsFilling(task[f])
            /\ IsFilling(task[f]) => task'[f].url = task[f].url
  PROVE  CacheInv'
<1>. SUFFICES ASSUME prog = "cache" PROVE CacheLocked' /\ CacheFilled'
  BY DEF CacheInv
<1>1. HeldRight(task[f], f, cacheMtx, cache)
  BY DEF HInv, CacheInv, CacheLocked, HeldRight, Url
<1>2. HeldRight(task'[f], f, cacheMtx', cache')
  BY <1>1 DEF HeldRight
<1>3. /\ IsFilling(task'[f]) <=> IsFilling(task[f])
      /\ IsFilling(task[f]) => task'[f].url = task[f].url
      /\ task[f].pc \in {"unlock", "done"} =>
           /\ task'[f].pc \in {"unlock", "done"} /\ task'[f].kept = task[f].kept
           /\ task'[f].url = task[f].url /\ task'[f].method = task[f].method
           /\ task[f].gone => task'[f].gone
           /\ task'[f].whole => task[f].whole
  BY DEF IsFilling
<1>4. CacheLocked'
  BY <1>2, PLocked
<1>5. CacheFilled'
  BY <1>3, PFilledKept
<1>. QED
  BY <1>4, <1>5

\* A step that counts no visit.
LEMMA PCountedKept ==
  ASSUME HTaskOK, NEW f \in Fetchers, OthersStay(f),
         IsCounted(task'[f]) <=> IsCounted(task[f]),
         IsCounted(task[f]) => task'[f].url = task[f].url
  PROVE  \A h \in Hosts : Counted(h)' = Counted(h)
<1>2. ASSUME NEW g \in Fetchers
      PROVE  /\ IsCounted(task'[g]) <=> IsCounted(task[g])
             /\ IsCounted(task[g]) => task'[g].url = task[g].url
  <2>1. CASE g = f
    BY <2>1
  <2>2. CASE g # f
    BY <2>2, HOther, Zenon DEF OthersStay, IsCounted
  <2>. QED
    BY <2>1, <2>2
<1>4. ASSUME NEW h \in Hosts PROVE Counted(h)' = Counted(h)
  <2>1. \A g \in Fetchers : HostOf[task'[g].url] = h /\ IsCounted(task'[g])
                              <=> HostOf[task[g].url] = h /\ IsCounted(task[g])
    BY <1>2
  <2>2. Counted(h) = {g \in Fetchers : HostOf[task[g].url] = h /\ IsCounted(task[g])}
    BY Zenon DEF Counted, IsCounted, Host, Url
  <2>3. Counted(h)' = {g \in Fetchers : HostOf[task'[g].url] = h /\ IsCounted(task'[g])}
    BY Zenon DEF Counted, IsCounted, Host, Url
  <2>. QED
    BY <2>1, <2>2, <2>3
<1>. QED
  BY <1>4

\* A step that leaves the counts alone.
LEMMA PVisitKept ==
  ASSUME HInv, UNCHANGED prog, NEW f \in Fetchers, prog = "cache" => report = <<>>,
         UNCHANGED <<visMtx, statsVis, seen, report>>, HTaskOK', OthersStay(f),
         task'[f].pc \in {"find", "count", "visited"} =>
           task'[f].pc = task[f].pc /\ task'[f].url = task[f].url,
         IsCounted(task'[f]) <=> IsCounted(task[f]),
         IsCounted(task[f]) => task'[f].url = task[f].url
  PROVE  VisitInv'
<1>. SUFFICES ASSUME prog = "cache"
              PROVE  /\ \A g \in Fetchers :
                          /\ task'[g].pc \in {"find", "count", "visited"} => visMtx = g
                          /\ task'[g].pc = "count" => seen[g] = statsVis[HostOf[task'[g].url]]
                     /\ \A h \in Hosts : statsVis[h] = Cardinality(Counted(h)')
  BY DEF VisitInv, Host, Url, Hosts
<1>1. HTaskOK /\ VisitInv
  BY DEF HInv, HTypeOK
<1>2. ASSUME NEW g \in Fetchers, task'[g].pc \in {"find", "count", "visited"}
      PROVE  task'[g].pc = task[g].pc /\ task'[g].url = task[g].url
  <2>1. CASE g = f
    BY <1>2, <2>1
  <2>2. CASE g # f
    BY <1>1, <2>2, HOther DEF OthersStay
  <2>. QED
    BY <2>1, <2>2
<1>3. \A g \in Fetchers :
        /\ task'[g].pc \in {"find", "count", "visited"} => visMtx = g
        /\ task'[g].pc = "count" => seen[g] = statsVis[HostOf[task'[g].url]]
  BY <1>1, <1>2 DEF VisitInv, Host, Url
<1>4. \A h \in Hosts : Counted(h)' = Counted(h)
  BY <1>1, PCountedKept
<1>. QED
  BY <1>1, <1>3, <1>4 DEF VisitInv

-----------------------------------------------------------------------------
(* The steps of a proxy's thread.                                          *)

\* What is known of it when a step begins.
LEMMA PBasics ==
  ASSUME HInv, prog \in {"2", "cache"}, NEW f \in Pool
  PROVE  /\ f \in Fetchers /\ HTaskOK /\ PTask(task[f], Buf(f)) /\ PDone(task[f])
         /\ cache \in [Urls -> Seq(Byte) \cup {NoEntry}]
         /\ filler \in [Urls -> SUBSET Pool]
         /\ statsVis \in [Hosts -> Nat] /\ seen \in [Fetchers -> Nat]
         /\ Home[f] \in up /\ prog = "cache" => report = <<>>
<1>1. /\ f \in Fetchers /\ Home[f] = Home[1]
  BY HConstants
<1>2. /\ HTaskOK /\ ProxyInv /\ VisitInv
      /\ cache \in [Urls -> Seq(Byte) \cup {NoEntry}]
      /\ filler \in [Urls -> SUBSET Pool]
      /\ statsVis \in [Hosts -> Nat] /\ seen \in [Fetchers -> Nat]
  BY DEF HInv, HTypeOK
<1>3. PTask(task[f], Buf(f)) /\ PDone(task[f])
  BY <1>1, <1>2 DEF ProxyInv
<1>4. Home[f] \in up /\ prog = "cache" => report = <<>>
  BY <1>1, <1>2 DEF VisitInv
<1>. QED
  BY <1>1, <1>2, <1>3, <1>4

\* A step that does nothing to the cache and the counts, nor to what is
\* counted and being filled.
LEMMA PPlain ==
  ASSUME HInv, prog \in {"2", "cache"}, NEW f \in Pool, Home[f] \in up,
         UNCHANGED <<listVars, cvars>>, HTaskOK', OthersStay(f),
         PTask(task'[f], buf'[Home[f]]), PDone(task[f])',
         task'[f].whole => task[f].whole, task[f].gone => task'[f].gone,
         prog = "cache" =>
           /\ \/ /\ task'[f].pc = task[f].pc /\ task'[f].kept = task[f].kept
                 /\ task'[f].url = task[f].url /\ task'[f].method = task[f].method
              \/ /\ task[f].pc \notin {"unlock", "done"}
                 /\ task'[f].pc \notin {"reserve", "miss", "hit", "answer", "stored", "unlock"}
                 /\ task'[f].pc \in {"visit", "find", "count", "visited", "lookup", "keep", "store"}
                      => task'[f].method = "GET"
                 /\ IsFilling(task'[f]) <=> IsFilling(task[f])
                 /\ IsFilling(task[f]) => task'[f].url = task[f].url
           /\ task'[f].pc \in {"find", "count", "visited"} =>
                task'[f].pc = task[f].pc /\ task'[f].url = task[f].url
           /\ IsCounted(task'[f]) <=> IsCounted(task[f])
           /\ IsCounted(task[f]) => task'[f].url = task[f].url
  PROVE  HInv'
<1>1. /\ UNCHANGED listVars /\ prog' = prog
      /\ UNCHANGED <<cache, cacheMtx, filler>> /\ UNCHANGED <<visMtx, statsVis, seen, report>>
  BY DEF listVars, cvars
<1>2. /\ f \in Fetchers /\ (prog = "cache" => report = <<>>)
      /\ cache' \in [Urls -> Seq(Byte) \cup {NoEntry}] /\ filler' \in [Urls -> SUBSET Pool]
      /\ statsVis' \in [Hosts -> Nat] /\ seen' \in [Fetchers -> Nat]
  BY <1>1, PBasics
<1>3. \A w \in Urls : filler[w] \subseteq filler'[w] /\ filler'[w] \subseteq Fetchers
  BY <1>1, <1>2, HConstants
<1>4. HRoles' /\ ProxyInv'
  BY <1>1, <1>3, PProxyKept
<1>5. CacheInv'
  <2>1. CASE prog = "cache"
    BY <1>1, <1>2, <2>1, PCacheKept
  <2>2. CASE prog # "cache"
    BY <1>1, <2>2 DEF CacheInv
  <2>. QED
    BY <2>1, <2>2
<1>6. VisitInv'
  <2>1. CASE prog = "cache"
    BY <1>1, <1>2, <2>1, PVisitKept
  <2>2. CASE prog # "cache"
    BY <1>1, <2>2 DEF VisitInv
  <2>. QED
    BY <2>1, <2>2
<1>. QED
  BY <1>1, <1>2, <1>4, <1>5, <1>6, PRest

\* A step within the exchange: only a GET of the caching proxy keeps chunks.
LEMMA PExchange ==
  ASSUME HInv, prog \in {"2", "cache"}, NEW f \in Pool, Home[f] \in up,
         UNCHANGED <<listVars, cvars>>, NEW q \in {"keep", "store", "loop", "done"},
         PWorked(f, q),
         prog = "cache" => IF task[f].method = "GET" THEN q # "done" ELSE q \in {"loop", "done"}
  PROVE  HInv'
<1>. DEFINE t == task[f]
            u == task'[f]
<1>1. /\ f \in Fetchers /\ HTaskOK /\ PTask(t, Buf(f)) /\ PDone(t)
      /\ filler' = filler /\ prog' = prog
  BY PBasics DEF cvars, listVars
<1>2. HTaskOK' /\ OthersStay(f) /\ PTask(u, buf'[Home[f]])
  BY DEF PWorked
<1>3. CASE Still
  <2>1. task' = task
    BY <1>3 DEF Still
  <2>2. PDone(task[f])'
    BY <1>1, <2>1 DEF PDone, Trusted, Response2, Size
  <2>. QED
    BY <1>2, <2>1, <2>2, PPlain
<1>4. CASE ~ Still
  <2>1. /\ Exchanged(t, u) /\ u.pc \in {"connect", "first", "size", "pass", "loop", "clear", "more", q}
        /\ u.pc = "done" => Delivered(u)
    BY <1>4 DEF PWorked
  <2>2. PDone(task[f])'
    BY <2>1 DEF PDone, Delivered, Response2, Size
  <2>3. /\ t.pc \in Exchanging /\ u.url = t.url /\ u.method = t.method /\ u.gone = t.gone
        /\ u.whole => t.whole
    BY <2>1 DEF Exchanged
  <2>. HIDE DEF t, u
  <2>4. IsCounted(u) <=> IsCounted(t)
    BY <2>1, <2>3, Zenon DEF IsCounted, Exchanging
  <2>5. ASSUME prog = "cache"
        PROVE  /\ IsFilling(u) <=> IsFilling(t)
               /\ t.pc \notin {"unlock", "done"}
               /\ u.pc \notin {"reserve", "miss", "hit", "answer", "stored", "unlock"}
               /\ u.pc \in {"visit", "find", "count", "visited", "lookup", "keep", "store"}
                    => u.method = "GET"
               /\ u.pc \notin {"find", "count", "visited"}
    BY <2>1, <2>3, <2>5 DEF IsFilling, FillPoints, Exchanging, t
  <2>. QED
    BY <1>2, <2>2, <2>3, <2>4, <2>5, PPlain DEF t, u
<1>. QED
  BY <1>3, <1>4

\* A step that does nothing but go on.
LEMMA PMovesTo ==
  ASSUME HInv, prog \in {"2", "cache"}, NEW f \in Pool, NEW q,
         Goes(f, [task[f] EXCEPT !.pc = q]),
         \/ /\ task[f].pc \in Early \ {"idle"} /\ q \in (Early \cup {"hit", "done"}) \ {"idle"}
            /\ q \notin {"request", "done"} => task[f].method \in Methods
         \/ task[f].pc = "store" /\ q = "stored"
         \/ task[f].pc = "stored" /\ q = "unlock"
         \/ task[f].pc = "unlock" /\ q = "done"
  PROVE  /\ HTaskOK' /\ OthersStay(f) /\ buf' = buf
         /\ \A g \in Fetchers \ {f} : task'[g] = task[g]
         /\ task'[f].pc = q /\ task'[f].url = task[f].url /\ task'[f].method = task[f].method
         /\ task'[f].kept = task[f].kept /\ task'[f].gone = task[f].gone
         /\ task'[f].whole = task[f].whole /\ task'[f].out = task[f].out
         /\ PTask(task'[f], buf'[Home[f]]) /\ PDone(task[f])'
<1>. DEFINE t == task[f]
            u == [t EXCEPT !.pc = q]
<1>1. /\ f \in Fetchers /\ HTaskOK /\ PTask(t, Buf(f)) /\ t \in Tasks
  BY PBasics, HTask
<1>2. /\ q \in Points
      /\ q \notin {"size", "hdr", "copy", "write1", "pass", "keep", "clear1", "back"}
      /\ t.pc \notin Between \cup {"done"} \/ q \in Between \cup {"done"}
  BY DEF Points, Early, Between
<1>3. /\ HTaskOK' /\ OthersStay(f) /\ buf' = buf
      /\ \A g \in Fetchers \ {f} : task'[g] = task[g]
      /\ task'[f] = u
  BY <1>1, <1>2, HMoveOn
<1>4. /\ u \in Tasks /\ u.pc = q /\ u.url = t.url /\ u.method = t.method
      /\ u.kept = t.kept /\ u.gone = t.gone /\ u.whole = t.whole /\ u.out = t.out
  BY <1>1, <1>2, Zenon DEF Tasks
<1>5. PTask(u, Buf(f)) /\ (q = "done" => Delivered(u))
  <2>. HIDE DEF t
  <2>. DEFINE v == [t EXCEPT !.pc = q]
  <2>1. /\ \/ /\ t.pc \in Early /\ q \in Early \cup {"hit", "done"}
              /\ q \notin {"idle", "request", "done"} => t.method \in Methods
              /\ t.pc # "idle"
           \/ t.pc = "store" /\ q = "stored"
           \/ t.pc = "stored" /\ q = "unlock"
           \/ t.pc = "unlock" /\ q = "done"
    BY DEF t
  <2>2. PTask(v, Buf(f)) /\ (q = "done" => Delivered(v))
    BY <1>1, <1>4, <2>1, PMoves
  <2>. QED
    BY <2>2
<1>6. PTask(task'[f], buf'[Home[f]]) /\ (task'[f].pc = "done" => Delivered(task'[f]))
  BY <1>3, <1>4, <1>5, HTask DEF Buf
<1>7. PDone(task[f])'
  BY <1>6 DEF PDone, Delivered, Response2, Size
<1>. HIDE DEF u, t
<1>. QED
  BY <1>3, <1>4, <1>6, <1>7 DEF t

\* The request.
LEMMA PAccept ==
  ASSUME HInv, prog \in {"2", "cache"}, NEW f \in Pool, UNCHANGED <<listVars, cvars>>, Accept(f)
  PROVE  HInv'
<1>. DEFINE t == task[f]
<1>1. /\ f \in Fetchers /\ HTaskOK /\ PTask(t, Buf(f)) /\ t \in Tasks /\ PDone(t)
      /\ t.pc = "idle" /\ Home[f] \in up /\ prog' = prog /\ filler' = filler
  BY PBasics, HTask, Zenon DEF Accept, At, listVars, cvars
<1>2. CASE Exit(f)
  <2>1. HTaskOK' /\ OthersStay(f) /\ task' = task /\ buf' = buf
    BY <1>1, <1>2, HExit, HStill DEF Still
  <2>2. PTask(task'[f], buf'[Home[f]]) /\ PDone(task[f])'
    BY <1>1, <2>1, HTask DEF PDone
  <2>. QED
    BY <1>1, <2>1, <2>2, PPlain
<1>3. ASSUME NEW r \in Requests, NEW o \in Urls,
             Goes(f, [t EXCEPT !.pc = "request", !.method = r.method, !.url = o])
      PROVE  HInv'
  <2>. DEFINE u == [t EXCEPT !.pc = "request", !.method = r.method, !.url = o]
  <2>1. u \in Tasks /\ Placed(u) /\ PTask(u, Buf(f))
    BY <1>1, PAccepts, Zenon
  <2>2. u.pc = "request" /\ u.whole = t.whole /\ u.gone = t.gone
    BY <1>1, Zenon DEF Tasks
  <2>. HIDE DEF u
  <2>3. HTaskOK' /\ OthersStay(f) /\ task'[f] = u /\ buf' = buf
    BY <1>1, <1>3, <2>1, HGoes DEF u
  <2>4. PTask(task'[f], buf'[Home[f]])
    BY <1>1, <2>1, <2>3, HTask
  <2>5. PDone(task[f])'
    BY <2>2, <2>3 DEF PDone
  <2>6. /\ ~ IsFilling(task[f]) /\ ~ IsCounted(task[f])
        /\ ~ IsFilling(task'[f]) /\ ~ IsCounted(task'[f])
    BY <1>1, <2>2, <2>3, Zenon DEF IsFilling, IsCounted, FillPoints
  <2>. QED
    BY <1>1, <2>2, <2>3, <2>4, <2>5, <2>6, PPlain
<1>4. \A r \in Requests : {r.url} \cup Stale(f) \subseteq Urls
  <2>1. \A g \in Fetchers : task[g].pc = "done" => task[g].url \in Urls
    BY DEF HInv, ProxyInv, PTask
  <2>. QED
    BY <2>1, InputsAssumption DEF Stale
<1>. QED
  BY <1>2, <1>3, <1>4, Zenon DEF Accept

\* The recv of threadMain.
LEMMA PReadRequest ==
  ASSUME HInv, prog \in {"2", "cache"}, NEW f \in Pool, UNCHANGED <<listVars, cvars>>,
         NEW q \in {"visit", "resolve"},
         prog = "cache" => (q = "visit" <=> task[f].method = "GET"), ReadRequest(f, q)
  PROVE  HInv'
<1>. DEFINE t == task[f]
<1>1. /\ f \in Fetchers /\ HTaskOK /\ PTask(t, Buf(f)) /\ t \in Tasks /\ PDone(t)
      /\ t.pc = "request" /\ Home[f] \in up /\ prog' = prog /\ filler' = filler
  BY PBasics, HTask DEF ReadRequest, At, listVars, cvars
<1>2. CASE Exit(f)
  <2>1. HTaskOK' /\ OthersStay(f) /\ task' = task /\ buf' = buf
    BY <1>1, <1>2, HExit, HStill DEF Still
  <2>2. PTask(task'[f], buf'[Home[f]]) /\ PDone(task[f])'
    BY <1>1, <2>1, HTask DEF PDone
  <2>. QED
    BY <1>1, <2>1, <2>2, PPlain
<1>3. CASE \/ Goes(f, [t EXCEPT !.pc = IF t.method \in Methods THEN q ELSE "done"])
           \/ t.method \in Methods /\ Goes(f, [t EXCEPT !.pc = "hang"])
  <2>1. PICK p : /\ Goes(f, [t EXCEPT !.pc = p]) /\ p \in {q, "hang", "done"}
                 /\ IF t.method \in Methods THEN p \in {q, "hang"} ELSE p = "done"
    BY <1>3
  <2>2. /\ t.pc \in Early \ {"idle"} /\ p \in (Early \cup {"hit", "done"}) \ {"idle"}
        /\ p \notin {"request", "done"} => t.method \in Methods
    BY <1>1, <2>1 DEF Early
  <2>3. /\ HTaskOK' /\ OthersStay(f) /\ buf' = buf
        /\ task'[f].pc = p /\ task'[f].url = t.url /\ task'[f].method = t.method
        /\ task'[f].gone = t.gone /\ task'[f].whole = t.whole
        /\ PTask(task'[f], buf'[Home[f]]) /\ PDone(task[f])'
    BY <2>1, <2>2, PMovesTo
  <2>4. ASSUME prog = "cache"
        PROVE  /\ ~ IsFilling(task[f]) /\ ~ IsCounted(task[f])
               /\ ~ IsFilling(task'[f]) /\ ~ IsCounted(task'[f])
               /\ task'[f].pc \in {"visit", "resolve", "hang", "done"}
               /\ task'[f].pc = "visit" => task'[f].method = "GET"
    BY <1>1, <2>1, <2>3, <2>4, Zenon DEF IsFilling, IsCounted, FillPoints, Methods
  <2>. QED
    BY <1>1, <2>3, <2>4, PPlain
<1>. QED
  BY <1>2, <1>3 DEF ReadRequest

\* The client closes its connection.
LEMMA PLeave ==
  ASSUME HInv, prog \in {"2", "cache"}, NEW f \in Pool, UNCHANGED <<listVars, cvars>>, Leave(f)
  PROVE  HInv'
<1>. DEFINE t == task[f]
            u == [t EXCEPT !.gone = TRUE]
<1>1. /\ f \in Fetchers /\ HTaskOK /\ PTask(t, Buf(f)) /\ t \in Tasks /\ Placed(t)
      /\ Home[f] \in up /\ Goes(f, u)
  BY PBasics, HTask DEF Leave
<1>2. /\ u \in Tasks /\ u.gone /\ u.pc = t.pc /\ u.kept = t.kept /\ u.url = t.url
      /\ u.method = t.method /\ u.whole = t.whole /\ u.n = t.n /\ u.bufD = t.bufD
  BY <1>1, Zenon DEF Tasks
<1>3. Placed(u)
  BY <1>1, <1>2 DEF Placed
<1>4. PTask(u, Buf(f))
  <2>. HIDE DEF t
  <2>. QED
    BY <1>1, <1>2, PLeaves
<1>. HIDE DEF u
<1>5. HTaskOK' /\ OthersStay(f) /\ task'[f] = u /\ buf' = buf
  BY <1>1, <1>2, <1>3, HGoes
<1>6. PTask(task'[f], buf'[Home[f]]) /\ PDone(task[f])'
  <2>1. PTask(task'[f], buf'[Home[f]])
    BY <1>1, <1>4, <1>5, HTask
  <2>2. PDone(task[f])'
    BY <1>2, <1>5 DEF PDone
  <2>. QED
    BY <2>1, <2>2
<1>7. /\ IsCounted(task'[f]) <=> IsCounted(task[f])
      /\ task'[f].pc \in {"find", "count", "visited"} => task'[f].pc = t.pc
  BY <1>2, <1>5, Zenon DEF IsCounted
<1>. QED
  BY <1>1, <1>2, <1>5, <1>6, <1>7, PPlain

-----------------------------------------------------------------------------
(* The counts of visits.                                                   *)

\* Inside the lock there is only its holder.
LEMMA PVisitStep ==
  ASSUME HInv, prog = "cache", prog' = prog, NEW f \in Pool, Home[f] \in up,
         HTaskOK', OthersStay(f), report' = report, visMtx \in {Free, f},
         task'[f].pc \in {"find", "count", "visited"} => visMtx' = f,
         task'[f].pc = "count" => seen'[f] = statsVis'[HostOf[task'[f].url]],
         \A h \in Hosts : statsVis'[h] = Cardinality(Counted(h)')
  PROVE  VisitInv'
<1>1. HTaskOK /\ VisitInv /\ f \in Fetchers /\ report = <<>> /\ Fetchers = {1, 2, 3, 4}
  BY PBasics, HConstants DEF HInv
<1>2. ASSUME NEW g \in Fetchers \ {f} PROVE task'[g].pc \notin {"find", "count", "visited"}
  <2>1. g # Free
    BY <1>1 DEF Free
  <2>2. task[g].pc \notin {"find", "count", "visited"}
    BY <1>1, <2>1 DEF VisitInv
  <2>. QED
    BY <1>1, <2>2, HOther DEF OthersStay
<1>. QED
  BY <1>1, <1>2 DEF VisitInv, Host, Url, Hosts

\* Visits can be counted.
LEMMA PCountsFinite ==
  ASSUME NEW h
  PROVE  IsFiniteSet(Counted(h)) /\ Cardinality(Counted(h)) \in Nat
<1>1. IsFiniteSet(Fetchers)
  <2>1. 1 \in Int /\ 4 \in Int
    OBVIOUS
  <2>2. IsFiniteSet(1 .. 4)
    BY <2>1, FS_Interval, Zenon
  <2>. QED
    BY <2>2, RolesAssumption
<1>2. IsFiniteSet(Counted(h))
  BY <1>1, FS_Subset, Zenon DEF Counted
<1>. QED
  BY <1>2, FS_CardinalityType

\* From one point of the count to the next.
LEMMA PCountVisit ==
  ASSUME HInv, prog = "cache", NEW f \in Pool, UNCHANGED listVars, task[f].method = "GET",
         CountVisit(f)
  PROVE  HInv'
<1>. DEFINE t == task[f]
            h == HostOf[t.url]
<1>0. Home[f] \in up
  BY DEF CountVisit, Step, At
<1>1. /\ f \in Fetchers /\ HTaskOK /\ PTask(t, Buf(f)) /\ report = <<>> /\ prog' = prog
      /\ cache \in [Urls -> Seq(Byte) \cup {NoEntry}] /\ filler \in [Urls -> SUBSET Pool]
      /\ statsVis \in [Hosts -> Nat] /\ seen \in [Fetchers -> Nat] /\ VisitInv
  BY <1>0, PBasics DEF listVars, HInv
<1>2. UNCHANGED <<cache, cacheMtx, filler, report>>
  BY DEF CountVisit
<1>3. PICK p, q : /\ Step(f, p, q)
                  /\ <<p, q>> \in {<<"visit", "find">>, <<"find", "count">>,
                                   <<"count", "visited">>, <<"visited", "lookup">>}
  BY DEF CountVisit
<1>4. /\ t.pc = p /\ Goes(f, [t EXCEPT !.pc = q])
      /\ p \in {"visit", "find", "count", "visited"}
      /\ q \in {"find", "count", "visited", "lookup"}
  BY <1>3 DEF Step, At
<1>5. /\ HTaskOK' /\ OthersStay(f) /\ buf' = buf
      /\ \A g \in Fetchers \ {f} : task'[g] = task[g]
      /\ task'[f].pc = q /\ task'[f].url = t.url /\ task'[f].method = t.method
      /\ task'[f].kept = t.kept /\ task'[f].gone = t.gone
      /\ task'[f].whole = t.whole
      /\ PTask(task'[f], buf'[Home[f]]) /\ PDone(task[f])'
  <2>1. /\ t.pc \in Early \ {"idle"} /\ q \in (Early \cup {"hit", "done"}) \ {"idle"}
        /\ q \notin {"request", "done"} => t.method \in Methods
    BY <1>4 DEF Early, Methods
  <2>. QED
    BY <1>4, <2>1, PMovesTo
<1>6. t.url \in Urls /\ h \in Hosts /\ t.url # ""
  BY <1>1, <1>4, UrlsAssumption, Zenon DEF PTask, Hosts
<1>. HIDE DEF t, h
<1>7. HRoles' /\ ProxyInv'
  <2>1. \A w \in Urls : filler[w] \subseteq filler'[w] /\ filler'[w] \subseteq Fetchers
    BY <1>1, <1>2, HConstants
  <2>. QED
    BY <1>1, <1>5, <2>1, PProxyKept DEF t
<1>8. CacheInv'
  <2>1. /\ ~ IsFilling(t) /\ ~ IsFilling(task'[f])
        /\ t.pc \notin {"unlock", "done"}
        /\ task'[f].pc \notin {"reserve", "miss", "hit", "answer", "stored", "unlock"}
        /\ task'[f].method = "GET"
    BY <1>4, <1>5 DEF IsFilling, FillPoints, t
  <2>. QED
    BY <1>1, <1>2, <1>5, <2>1, PCacheKept DEF t
<1>9. ASSUME p # "count", statsVis' = statsVis
      PROVE  \A i \in Hosts : statsVis'[i] = Cardinality(Counted(i)')
  <2>1. IsCounted(task'[f]) <=> IsCounted(t)
    BY <1>3, <1>4, <1>5, <1>9, Zenon DEF IsCounted
  <2>2. \A i \in Hosts : Counted(i)' = Counted(i)
    BY <1>1, <1>5, <2>1, PCountedKept DEF t
  <2>. QED
    BY <1>1, <1>9, <2>2 DEF VisitInv
<1>10. /\ p \in {"find", "count", "visited"} => visMtx = f
       /\ p = "count" => seen[f] = statsVis[h]
  BY <1>1, <1>4 DEF VisitInv, Host, Url, t, h
<1>11. Host(f) = h
  BY DEF Host, Url, t, h
<1>12. CASE p = "visit"
  <2>1. /\ q = "find" /\ visMtx = Free /\ visMtx' = f
        /\ UNCHANGED <<statsVis, seen>>
    BY <1>4, <1>3, <1>12 DEF CountVisit, Step, At, LockVisits, t
  <2>2. VisitInv'
    BY <1>0, <1>1, <1>2, <1>5, <1>9, <1>12, <2>1, PVisitStep
  <2>. QED
    BY <1>1, <1>2, <1>5, <1>7, <1>8, <2>1, <2>2, PRest
<1>13. CASE p = "find"
  <2>1. /\ q = "count" /\ visMtx' = visMtx /\ statsVis' = statsVis
        /\ seen' = [seen EXCEPT ![f] = statsVis[h]]
    BY <1>4, <1>3, <1>11, <1>13 DEF CountVisit, Step, At, t
  <2>2. seen' \in [Fetchers -> Nat] /\ seen'[f] = statsVis[h]
    BY <1>1, <1>6, <2>1, Zenon
  <2>3. HostOf[task'[f].url] = h
    BY <1>5 DEF h
  <2>4. VisitInv'
    BY <1>0, <1>1, <1>2, <1>5, <1>9, <1>10, <1>13, <2>1, <2>2, <2>3, PVisitStep
  <2>. QED
    BY <1>1, <1>2, <1>5, <1>7, <1>8, <2>1, <2>2, <2>4, PRest
<1>14. CASE p = "count"
  <2>1. /\ q = "visited" /\ visMtx' = visMtx /\ seen' = seen
        /\ statsVis' = [statsVis EXCEPT ![h] = seen[f] + 1]
    BY <1>4, <1>3, <1>11, <1>14 DEF CountVisit, Step, At, t
  <2>2. /\ statsVis' \in [Hosts -> Nat] /\ statsVis'[h] = statsVis[h] + 1
        /\ \A i \in Hosts \ {h} : statsVis'[i] = statsVis[i]
    <3>. DEFINE n == statsVis[h] + 1
    <3>1. n \in Nat /\ seen[f] + 1 = n
      <4>1. seen[f] = statsVis[h]
        BY <1>10, <1>14
      <4>2. statsVis[h] \in Nat
        BY <1>1, <1>6, Zenon
      <4>. QED
        BY <4>1, <4>2
    <3>2. statsVis' = [statsVis EXCEPT ![h] = n]
      BY <2>1, <3>1
    <3>. HIDE DEF n
    <3>3. /\ statsVis' \in [Hosts -> Nat] /\ statsVis'[h] = n
          /\ \A i \in Hosts \ {h} : statsVis'[i] = statsVis[i]
      BY <1>1, <1>6, <3>1, <3>2, Zenon
    <3>. QED
      BY <3>3 DEF n
  <2>3. ~ IsCounted(t) /\ IsCounted(task'[f])
    BY <1>4, <1>5, <1>6, <1>14, <2>1, Zenon DEF IsCounted, t
  <2>4. ASSUME NEW i \in Hosts
        PROVE  Counted(i)' = Counted(i) \cup (IF i = h THEN {f} ELSE {}) /\ f \notin Counted(i)
    <3>1. /\ Counted(i) = {g \in Fetchers : IsCounted(task[g]) /\ HostOf[task[g].url] = i}
          /\ Counted(i)' = {g \in Fetchers : IsCounted(task'[g]) /\ HostOf[task'[g].url] = i}
      BY Zenon DEF Counted, IsCounted, Host, Url
    <3>2. HostOf[task'[f].url] = h
      BY <1>5 DEF h
    <3>. QED
      BY <1>1, <1>5, <2>3, <3>1, <3>2 DEF t
  <2>5. \A i \in Hosts : statsVis'[i] = Cardinality(Counted(i)')
    <3>. SUFFICES ASSUME NEW i \in Hosts PROVE statsVis'[i] = Cardinality(Counted(i)')
      OBVIOUS
    <3>1. statsVis[i] = Cardinality(Counted(i))
      BY <1>1 DEF VisitInv
    <3>2. CASE i = h
      <4>1. Counted(i)' = Counted(i) \cup {f} /\ f \notin Counted(i)
        BY <2>4, <3>2
      <4>2. Cardinality(Counted(i) \cup {f}) = Cardinality(Counted(i)) + 1
        BY <4>1, PCountsFinite, FS_AddElement
      <4>. QED
        BY <2>2, <3>1, <3>2, <4>1, <4>2
    <3>3. CASE i # h
      BY <2>2, <2>4, <3>1, <3>3
    <3>. QED
      BY <3>2, <3>3
  <2>6. VisitInv'
    BY <1>0, <1>1, <1>2, <1>5, <1>10, <1>14, <2>1, <2>5, PVisitStep
  <2>. QED
    BY <1>1, <1>2, <1>5, <1>7, <1>8, <2>1, <2>2, <2>6, PRest
<1>15. CASE p = "visited"
  <2>1. q = "lookup" /\ UNCHANGED <<statsVis, seen>>
    BY <1>4, <1>3, <1>15 DEF CountVisit, Step, At, t
  <2>2. VisitInv'
    BY <1>0, <1>1, <1>2, <1>5, <1>9, <1>10, <1>15, <2>1, PVisitStep
  <2>. QED
    BY <1>1, <1>2, <1>5, <1>7, <1>8, <2>1, <2>2, PRest
<1>. QED
  BY <1>4, <1>12, <1>13, <1>14, <1>15

-----------------------------------------------------------------------------
(* The cache.                                                              *)

\* A step of a thread that has counted its visit: what is left to show.
LEMMA PCacheStep ==
  ASSUME HInv, prog = "cache", NEW f \in Pool, Home[f] \in up, UNCHANGED listVars,
         HTaskOK', OthersStay(f), PTask(task'[f], buf'[Home[f]]), PDone(task[f])',
         task'[f].whole => task[f].whole, task[f].gone => task'[f].gone,
         \A w \in Urls : filler[w] \subseteq filler'[w],
         cache' \in [Urls -> Seq(Byte) \cup {NoEntry}], filler' \in [Urls -> SUBSET Pool],
         CacheLocked', CacheFilled', UNCHANGED <<visMtx, statsVis, seen, report>>,
         task'[f].pc \notin {"find", "count", "visited"},
         IsCounted(task[f]), IsCounted(task'[f]), task'[f].url = task[f].url
  PROVE  HInv'
<1>1. /\ f \in Fetchers /\ report = <<>> /\ prog' = prog
      /\ statsVis' \in [Hosts -> Nat] /\ seen' \in [Fetchers -> Nat]
  BY PBasics DEF listVars
<1>2. HRoles' /\ ProxyInv'
  <2>1. \A w \in Urls : filler[w] \subseteq filler'[w] /\ filler'[w] \subseteq Fetchers
    BY HConstants
  <2>. QED
    BY <1>1, <2>1, PProxyKept
<1>3. CacheInv'
  BY DEF CacheInv
<1>4. VisitInv'
  BY <1>1, PVisitKept
<1>. QED
  BY <1>1, <1>2, <1>3, <1>4, PRest

\* What the lock says of thread f, and where it is counted.
LEMMA PHolds ==
  ASSUME HInv, prog = "cache", NEW f \in Pool, task[f].method = "GET",
         task[f].pc \in {"lookup", "reserve", "miss", "hit", "answer", "store", "stored", "unlock"}
  PROVE  /\ HeldRight(task[f], f, cacheMtx, cache) /\ IsCounted(task[f]) /\ task[f].url \in Urls
         /\ CacheLocked /\ CacheFilled
<1>1. f \in Fetchers /\ PTask(task[f], Buf(f)) /\ CacheLocked /\ CacheFilled
  BY PBasics DEF HInv, CacheInv
<1>2. HeldRight(task[f], f, cacheMtx, cache)
  BY <1>1 DEF CacheLocked, HeldRight, Url
<1>3. task[f].url \in Urls
  BY <1>1 DEF PTask
<1>4. IsCounted(task[f])
  BY <1>3, UrlsAssumption, Zenon DEF IsCounted
<1>. QED
  BY <1>1, <1>2, <1>3, <1>4

\* The lock is taken or released, and nothing else.
LEMMA PCacheMoves ==
  ASSUME HInv, prog = "cache", NEW f \in Pool, Home[f] \in up, UNCHANGED listVars,
         task[f].method = "GET", NEW p, NEW q, task[f].pc = p,
         <<p, q>> \in {<<"lookup", "reserve">>, <<"lookup", "hit">>, <<"miss", "resolve">>,
                       <<"store", "stored">>, <<"unlock", "done">>},
         Goes(f, [task[f] EXCEPT !.pc = q]),
         IF p \in {"lookup", "store"} THEN cacheMtx = Free /\ cacheMtx' = f ELSE cacheMtx' = Free,
         q = "reserve" => cache[task[f].url] = NoEntry, q = "hit" => cache[task[f].url] # NoEntry,
         UNCHANGED <<cache, visMtx, statsVis, seen, report, filler>>
  PROVE  HInv'
<1>. DEFINE t == task[f]
            u == task'[f]
<1>1. /\ f \in Fetchers /\ report = <<>> /\ prog' = prog
      /\ cache' \in [Urls -> Seq(Byte) \cup {NoEntry}] /\ filler' \in [Urls -> SUBSET Pool]
  BY PBasics DEF listVars
<1>2. /\ p \in {"lookup", "miss", "store", "unlock"}
      /\ q \in {"reserve", "hit", "resolve", "stored", "done"}
      /\ p = "miss" <=> q = "resolve"
      /\ p = "store" <=> q = "stored"
      /\ p = "unlock" <=> q = "done"
  OBVIOUS
<1>3. HeldRight(t, f, cacheMtx, cache) /\ IsCounted(t) /\ t.url \in Urls
  BY <1>2, PHolds
<1>4. /\ HTaskOK' /\ OthersStay(f)
      /\ u.pc = q /\ u.url = t.url /\ u.method = t.method
      /\ u.kept = t.kept /\ u.gone = t.gone /\ u.whole = t.whole
      /\ PTask(u, buf'[Home[f]]) /\ PDone(task[f])'
  <2>1. \/ /\ t.pc \in Early \ {"idle"} /\ q \in (Early \cup {"hit", "done"}) \ {"idle"}
           /\ q \notin {"request", "done"} => t.method \in Methods
        \/ t.pc = "store" /\ q = "stored"
        \/ t.pc = "stored" /\ q = "unlock"
        \/ t.pc = "unlock" /\ q = "done"
    BY DEF Early, Methods
  <2>. QED
    BY <2>1, PMovesTo
<1>. HIDE DEF t, u
<1>5. IsCounted(u)
  BY <1>2, <1>3, <1>4, Zenon DEF IsCounted, t
<1>6. HeldRight(u, f, cacheMtx', cache')
  BY <1>2, <1>4 DEF HeldRight, t
<1>7. CacheLocked'
  <2>1. cacheMtx' = cacheMtx \/ cacheMtx \in {Free, f}
    BY <1>2, <1>3 DEF HeldRight, t
  <2>. QED
    BY <1>1, <1>4, <1>6, <2>1, PLocked DEF u
<1>8. CacheFilled'
  <2>1. IsFilling(u) <=> IsFilling(t)
    BY <1>2, <1>4 DEF IsFilling, FillPoints, t
  <2>2. t.pc \in {"unlock", "done"} => u.pc \in {"unlock", "done"}
    BY <1>2, <1>4 DEF t
  <2>. QED
    BY <1>1, <1>4, <2>1, <2>2, PFilledKept DEF t, u
<1>9. u.pc \notin {"find", "count", "visited"}
  BY <1>2, <1>4
<1>. QED
  BY <1>1, <1>3, <1>4, <1>5, <1>7, <1>8, <1>9, PCacheStep DEF t, u

\* The entry is reserved.
LEMMA PReserve ==
  ASSUME HInv, prog = "cache", NEW f \in Pool, Home[f] \in up, UNCHANGED listVars,
         task[f].method = "GET", task[f].pc = "reserve",
         Goes(f, [task[f] EXCEPT !.pc = "miss"]), cache' = [cache EXCEPT ![task[f].url] = <<>>],
         UNCHANGED <<cacheMtx, visMtx, statsVis, seen, report, filler>>
  PROVE  HInv'
<1>. DEFINE t == task[f]
            u == task'[f]
            o == task[f].url
<1>1. /\ f \in Fetchers /\ HTaskOK /\ report = <<>> /\ prog' = prog
      /\ cache \in [Urls -> Seq(Byte) \cup {NoEntry}]
      /\ filler \in [Urls -> SUBSET Pool] /\ filler' \in [Urls -> SUBSET Pool]
  BY PBasics DEF listVars
<1>2. /\ HeldRight(t, f, cacheMtx, cache) /\ IsCounted(t) /\ o \in Urls /\ CacheFilled
  BY PHolds
<1>3. /\ HTaskOK' /\ OthersStay(f)
      /\ \A g \in Fetchers \ {f} : task'[g] = task[g]
      /\ u.pc = "miss" /\ u.url = o /\ u.method = "GET"
      /\ u.gone = t.gone /\ u.whole = t.whole
      /\ PTask(u, buf'[Home[f]]) /\ PDone(task[f])'
  <2>1. t.pc \in Early \ {"idle"} /\ t.method \in Methods
    BY DEF Early, Methods
  <2>2. "miss" \in (Early \cup {"hit", "done"}) \ {"idle"}
    BY DEF Early
  <2>. QED
    BY <2>1, <2>2, PMovesTo
<1>4. cacheMtx = f /\ cache[o] = NoEntry
  BY <1>2 DEF HeldRight
<1>. HIDE DEF o
<1>5. /\ cache' \in [Urls -> Seq(Byte) \cup {NoEntry}] /\ cache'[o] = <<>>
      /\ \A w \in Urls \ {o} : cache'[w] = cache[w]
  BY <1>1, <1>2, HEmpty DEF o
<1>6. IsCounted(u) /\ HeldRight(u, f, cacheMtx', cache')
  BY <1>2, <1>3, <1>4, UrlsAssumption, Zenon DEF IsCounted, HeldRight
<1>. HIDE DEF t, u
<1>7. CacheLocked'
  <2>1. \A w \in Urls : cache'[w] = cache[w] \/ (cacheMtx = f /\ cache[w] \in {NoEntry, <<>>})
    BY <1>4, <1>5
  <2>. QED
    BY <1>1, <1>3, <1>6, <2>1, PLocked DEF u
<1>8. Filling(o) = {} /\ filler[o] = {}
  <2>1. \A g \in Filling(o) : cache[o] = <<>>
    BY <1>2 DEF CacheFilled
  <2>2. \A g \in filler[o] : cache[o] = task[g].kept
    BY <1>2 DEF CacheFilled
  <2>3. \A g \in filler[o] : task[g].kept \in Seq(Byte)
    BY <1>1, <1>2, HConstants, HTask
  <2>. QED
    BY <1>4, <2>1, <2>2, <2>3, PNoEntry
<1>9. ASSUME NEW w \in Urls PROVE Filling(w)' = IF w = o THEN {f} ELSE Filling(w)
  <2>1. /\ Filling(w) = {g \in Fetchers : task[g].url = w /\ IsFilling(task[g])}
        /\ Filling(w)' = {g \in Fetchers : task'[g].url = w /\ IsFilling(task'[g])}
    BY DEF Filling, IsFilling, FillPoints, Url
  <2>2. ~ IsFilling(task[f]) /\ IsFilling(task'[f]) /\ task'[f].url = o
    BY <1>3 DEF IsFilling, FillPoints, u
  <2>3. CASE w = o
    <3>1. \A g \in Fetchers \ {f} : ~ (task[g].url = w /\ IsFilling(task[g]))
      BY <1>8, <2>1, <2>3
    <3>. QED
      BY <1>1, <1>3, <2>1, <2>2, <2>3, <3>1
  <2>4. CASE w # o
    BY <1>1, <1>3, <2>1, <2>2, <2>4
  <2>. QED
    BY <2>3, <2>4
<1>10. CacheFilled'
  <2>1. ASSUME NEW w \in Urls
        PROVE  /\ \A g \in Filling(w)' : cache'[w] = <<>> /\ filler'[w] = {}
               /\ \A g, h \in Filling(w)' : g = h
               /\ cache'[w] # NoEntry => Filling(w)' # {} \/ filler'[w] # {}
    <3>1. filler'[w] = filler[w]
      OBVIOUS
    <3>2. CASE w = o
      BY <1>5, <1>8, <1>9, <3>1, <3>2
    <3>3. CASE w # o
      <4>1. Filling(w)' = Filling(w) /\ cache'[w] = cache[w]
        BY <1>5, <1>9, <3>3
      <4>. QED
        BY <1>2, <3>1, <4>1 DEF CacheFilled
    <3>. QED
      BY <3>2, <3>3
  <2>2. ASSUME NEW w \in Urls, NEW g \in filler[w]
        PROVE  /\ task'[g].url = w /\ task'[g].method = "GET" /\ task'[g].pc \in {"unlock", "done"}
               /\ cache'[w] = task'[g].kept /\ filler[w] = {g}
               /\ task'[g].whole /\ ~ task'[g].gone => Response2(task'[g].kept, task'[g])
    <3>1. w # o /\ g \in Fetchers
      BY <1>1, <1>8, <2>2, HConstants
    <3>2. /\ task[g].url = w /\ task[g].method = "GET" /\ task[g].pc \in {"unlock", "done"}
          /\ cache[w] = task[g].kept /\ filler[w] = {g}
          /\ task[g].whole /\ ~ task[g].gone => Response2(task[g].kept, task[g])
      BY <1>2, <2>2 DEF CacheFilled, Url
    <3>3. task'[g] = task[g]
      BY <1>3, <3>1, <3>2
    <3>. QED
      BY <1>5, <3>1, <3>2, <3>3
  <2>. QED
    BY <1>1, <2>1, <2>2 DEF CacheFilled, Url, Response2, Size
<1>. QED
  BY <1>1, <1>2, <1>3, <1>5, <1>6, <1>7, <1>10, PCacheStep DEF t, u, o

\* The entry is stored.
LEMMA PStore ==
  ASSUME HInv, prog = "cache", NEW f \in Pool, Home[f] \in up, UNCHANGED listVars,
         task[f].method = "GET", task[f].pc = "stored",
         Goes(f, [task[f] EXCEPT !.pc = "unlock"]),
         cache' = [cache EXCEPT ![task[f].url] = task[f].kept],
         filler' = [filler EXCEPT ![task[f].url] = @ \cup {f}],
         UNCHANGED <<cacheMtx, visMtx, statsVis, seen, report>>
  PROVE  HInv'
<1>. DEFINE t == task[f]
            u == task'[f]
            o == task[f].url
            k == task[f].kept
<1>1. /\ f \in Fetchers /\ HTaskOK /\ report = <<>> /\ prog' = prog /\ PTask(t, Buf(f))
      /\ cache \in [Urls -> Seq(Byte) \cup {NoEntry}] /\ filler \in [Urls -> SUBSET Pool]
      /\ k \in Seq(Byte) /\ t \in Tasks
  BY PBasics, HTask DEF listVars
<1>2. /\ HeldRight(t, f, cacheMtx, cache) /\ IsCounted(t) /\ o \in Urls /\ CacheFilled
  BY PHolds
<1>3. /\ HTaskOK' /\ OthersStay(f)
      /\ \A g \in Fetchers \ {f} : task'[g] = task[g]
      /\ u.pc = "unlock" /\ u.url = o /\ u.method = "GET" /\ u.kept = k
      /\ u.gone = t.gone /\ u.whole = t.whole
      /\ PTask(u, buf'[Home[f]]) /\ PDone(task[f])'
  BY PMovesTo
<1>4. /\ cacheMtx = f /\ f \in Filling(o) /\ cache[o] = <<>> /\ filler[o] = {}
      /\ \A g \in Filling(o) : g = f
  <2>1. cacheMtx = f
    BY <1>2 DEF HeldRight
  <2>2. f \in Filling(o)
    BY <1>1 DEF Filling, Url
  <2>. QED
    BY <1>2, <2>1, <2>2 DEF CacheFilled
<1>. HIDE DEF o, k
<1>5. /\ cache' \in [Urls -> Seq(Byte) \cup {NoEntry}] /\ cache'[o] = k
      /\ \A w \in Urls \ {o} : cache'[w] = cache[w]
  BY <1>1, <1>2 DEF o, k
<1>6. /\ filler' \in [Urls -> SUBSET Pool] /\ filler'[o] = {f}
      /\ \A w \in Urls \ {o} : filler'[w] = filler[w]
  BY <1>1, <1>2, <1>4 DEF o
<1>7. IsCounted(u) /\ HeldRight(u, f, cacheMtx', cache')
  BY <1>2, <1>3, <1>4, UrlsAssumption, Zenon DEF IsCounted, HeldRight
<1>8. t.whole /\ ~ t.gone => Response2(u.kept, u)
  <2>. HIDE DEF t
  <2>1. t.whole /\ ~ t.gone => Response2(t.kept, t)
    BY <1>1, PStores DEF Caches, t
  <2>. QED
    BY <1>3, <2>1 DEF Response2, Size, t, o, k
<1>. HIDE DEF t, u
<1>9. CacheLocked'
  <2>1. \A w \in Urls : cache'[w] = cache[w] \/ (cacheMtx = f /\ cache[w] \in {NoEntry, <<>>})
    BY <1>4, <1>5
  <2>. QED
    BY <1>1, <1>3, <1>7, <2>1, PLocked DEF u
<1>10. ASSUME NEW w \in Urls PROVE Filling(w)' = IF w = o THEN {} ELSE Filling(w)
  <2>1. /\ Filling(w) = {g \in Fetchers : task[g].url = w /\ IsFilling(task[g])}
        /\ Filling(w)' = {g \in Fetchers : task'[g].url = w /\ IsFilling(task'[g])}
    BY DEF Filling, IsFilling, FillPoints, Url
  <2>2. ~ IsFilling(task'[f]) /\ task[f].url = o
    BY <1>3 DEF IsFilling, FillPoints, u, o
  <2>3. CASE w = o
    <3>1. \A g \in Fetchers \ {f} : ~ (task[g].url = w /\ IsFilling(task[g]))
      BY <1>4, <2>1, <2>3
    <3>. QED
      BY <1>1, <1>3, <2>1, <2>2, <2>3, <3>1
  <2>4. CASE w # o
    BY <1>1, <1>3, <2>1, <2>2, <2>4
  <2>. QED
    BY <2>3, <2>4
<1>11. CacheFilled'
  <2>1. ASSUME NEW w \in Urls
        PROVE  /\ \A g \in Filling(w)' : cache'[w] = <<>> /\ filler'[w] = {}
               /\ \A g, h \in Filling(w)' : g = h
               /\ cache'[w] # NoEntry => Filling(w)' # {} \/ filler'[w] # {}
    <3>1. CASE w = o
      BY <1>6, <1>10, <3>1
    <3>2. CASE w # o
      <4>1. Filling(w)' = Filling(w) /\ cache'[w] = cache[w] /\ filler'[w] = filler[w]
        BY <1>5, <1>6, <1>10, <3>2
      <4>. QED
        BY <1>2, <4>1 DEF CacheFilled
    <3>. QED
      BY <3>1, <3>2
  <2>2. ASSUME NEW w \in Urls, NEW g \in filler'[w]
        PROVE  /\ task'[g].url = w /\ task'[g].method = "GET" /\ task'[g].pc \in {"unlock", "done"}
               /\ cache'[w] = task'[g].kept /\ filler'[w] = {g}
               /\ task'[g].whole /\ ~ task'[g].gone => Response2(task'[g].kept, task'[g])
    <3>1. CASE w = o
      <4>1. g = f
        BY <1>6, <2>2, <3>1
      <4>. QED
        BY <1>3, <1>5, <1>6, <1>8, <3>1, <4>1 DEF u
    <3>2. CASE w # o
      <4>1. g \in Fetchers /\ g \in filler[w] /\ filler'[w] = filler[w] /\ cache'[w] = cache[w]
        BY <1>1, <1>5, <1>6, <2>2, <3>2, HConstants
      <4>2. /\ task[g].url = w /\ task[g].method = "GET" /\ task[g].pc \in {"unlock", "done"}
            /\ cache[w] = task[g].kept /\ filler[w] = {g}
            /\ task[g].whole /\ ~ task[g].gone => Response2(task[g].kept, task[g])
        BY <1>2, <4>1 DEF CacheFilled, Url
      <4>3. task'[g] = task[g]
        BY <1>3, <4>1, <4>2
      <4>. QED
        BY <4>1, <4>2, <4>3
    <3>. QED
      BY <3>1, <3>2
  <2>. QED
    BY <2>1, <2>2 DEF CacheFilled, Url, Response2, Size
<1>12. \A w \in Urls : filler[w] \subseteq filler'[w]
  BY <1>4, <1>6
<1>. QED
  BY <1>1, <1>2, <1>3, <1>5, <1>6, <1>7, <1>9, <1>11, <1>12, PCacheStep DEF t, u, o

\* The entry is copied.
LEMMA PCopies ==
  ASSUME HInv, prog = "cache", NEW f \in Pool, Home[f] \in up, UNCHANGED listVars,
         task[f].method = "GET", task[f].pc = "hit", cacheMtx' = Free,
         Goes(f, [task[f] EXCEPT !.pc = "answer", !.kept = cache[task[f].url]]),
         UNCHANGED <<cache, visMtx, statsVis, seen, report, filler>>
  PROVE  HInv'
<1>. DEFINE t == task[f]
            o == task[f].url
            e == cache[o]
            u == [t EXCEPT !.pc = "answer", !.kept = e]
<1>1. /\ f \in Fetchers /\ HTaskOK /\ report = <<>> /\ prog' = prog /\ PTask(t, Buf(f))
      /\ cache \in [Urls -> Seq(Byte) \cup {NoEntry}] /\ filler \in [Urls -> SUBSET Pool]
      /\ t \in Tasks /\ Placed(t)
  BY PBasics, HTask DEF listVars
<1>2. /\ HeldRight(t, f, cacheMtx, cache) /\ IsCounted(t) /\ o \in Urls
  BY PHolds
<1>3. e \in Seq(Byte) /\ cacheMtx = f
  BY <1>1, <1>2 DEF HeldRight
<1>. HIDE DEF e, t
<1>4. /\ u \in Tasks /\ u.pc = "answer" /\ u.kept = e /\ u.url = t.url /\ u.method = t.method
      /\ u.out = t.out /\ u.gone = t.gone /\ u.whole = t.whole
  BY <1>1, <1>3, Zenon DEF Tasks, Points
<1>5. Placed(u) /\ PTask(u, Buf(f))
  <2>1. t.pc = "hit" /\ t.method = "GET" /\ t.url \in Urls /\ t.out = <<>>
    BY <1>1, <1>2 DEF PTask, t
  <2>2. Placed(u)
    BY <1>4, <2>1 DEF Placed
  <2>3. PTask(u, Buf(f))
    BY <1>4, <2>1 DEF PTask, PWhole, Early, Passing, Methods
  <2>. QED
    BY <2>2, <2>3
<1>6. HTaskOK' /\ OthersStay(f) /\ task'[f] = u /\ buf' = buf
  <2>1. Goes(f, u)
    BY DEF t, e
  <2>. HIDE DEF u
  <2>. QED
    BY <1>1, <1>4, <1>5, <2>1, HGoes
<1>. HIDE DEF u
<1>7. PTask(task'[f], buf'[Home[f]])
  BY <1>1, <1>5, <1>6, HTask
<1>8. PDone(task[f])'
  BY <1>4, <1>6 DEF PDone
<1>9. IsCounted(task'[f])
  BY <1>2, <1>4, <1>6, Zenon DEF IsCounted, t
<1>10. HeldRight(task'[f], f, cacheMtx', cache')
  <2>1. task[f].url = o /\ t.method = "GET"
    BY DEF t
  <2>. QED
    BY <1>4, <1>6, <2>1 DEF HeldRight, e, t
<1>11. CacheLocked'
  BY <1>1, <1>3, <1>6, <1>10, PLocked
<1>12. CacheFilled'
  <2>1. t.pc = "hit"
    BY DEF t
  <2>2. ~ IsFilling(t) /\ ~ IsFilling(task'[f]) /\ t.pc \notin {"unlock", "done"}
    BY <1>4, <1>6, <2>1 DEF IsFilling, FillPoints
  <2>. QED
    BY <1>1, <1>6, <2>2, PFilledKept DEF t
<1>. QED
  BY <1>1, <1>2, <1>4, <1>6, <1>7, <1>8, <1>9, <1>11, <1>12, PCacheStep DEF t

\* The answer from the cache.
LEMMA PAnswer ==
  ASSUME HInv, prog = "cache", NEW f \in Pool, UNCHANGED <<listVars, cvars>>,
         task[f].method = "GET", At(f, "answer"),
         IF task[f].kept = <<>> THEN Exit(f)
         ELSE \/ Goes(f, [task[f] EXCEPT !.pc = "done",
                                         !.out = IF Left(f) THEN @ ELSE task[f].kept])
              \/ Left(f) /\ Exit(f)
  PROVE  HInv'
<1>. DEFINE t == task[f]
            o == task[f].url
            k == task[f].kept
            a == IF Left(f) THEN t.out ELSE k
            u == [t EXCEPT !.pc = "done", !.out = a]
<1>1. /\ f \in Fetchers /\ HTaskOK /\ PTask(t, Buf(f)) /\ PDone(t)
      /\ cache \in [Urls -> Seq(Byte) \cup {NoEntry}] /\ filler \in [Urls -> SUBSET Pool]
      /\ k \in Seq(Byte) /\ t \in Tasks /\ Placed(t) /\ t.out \in Seq(Byte)
      /\ t.pc = "answer" /\ Home[f] \in up /\ prog' = prog /\ filler' = filler
  BY PBasics, HTask DEF At, listVars, cvars
<1>2. /\ HeldRight(t, f, cacheMtx, cache) /\ IsCounted(t) /\ o \in Urls /\ CacheFilled
  BY <1>1, PHolds
<1>3. CASE Exit(f)
  <2>1. HTaskOK' /\ OthersStay(f) /\ task' = task /\ buf' = buf
    BY <1>1, <1>3, HExit, HStill DEF Still
  <2>2. PTask(task'[f], buf'[Home[f]]) /\ PDone(task[f])'
    BY <1>1, <2>1, HTask DEF PDone
  <2>. QED
    BY <1>1, <2>1, <2>2, PPlain
<1>4. ASSUME k # <<>>, Goes(f, u)
      PROVE  HInv'
  <2>0. a \in Seq(Byte) /\ (a = t.out \/ a = k)
    BY <1>1
  <2>. HIDE DEF t, a
  <2>1. /\ u \in Tasks /\ u.pc = "done" /\ u.out = a /\ u.url = t.url /\ u.method = t.method
        /\ u.kept = t.kept /\ u.gone = t.gone /\ u.whole = t.whole
    BY <1>1, <2>0, Zenon DEF Tasks, Points
  <2>2. Placed(u) /\ PTask(u, Buf(f))
    BY <1>1, <1>2, <2>1 DEF Placed, PTask, PWhole, Early, Passing, t
  <2>. HIDE DEF u
  <2>3. HTaskOK' /\ OthersStay(f) /\ task'[f] = u /\ buf' = buf
    BY <1>1, <1>4, <2>1, <2>2, HGoes
  <2>4. PTask(task'[f], buf'[Home[f]])
    BY <1>1, <2>2, <2>3, HTask
  <2>5. PDone(task[f])'
    <3>. SUFFICES ASSUME u.whole, u.out # <<>>,
                         \A g \in filler[o] : task'[g].whole /\ ~ task'[g].gone
                  PROVE  Response2(u.out, u)
      BY <1>1, <2>1, <2>3 DEF PDone, Trusted, Response2, Size, t
    <3>1. t.out = <<>> /\ u.out = k
      BY <1>1, <2>0, <2>1 DEF PTask
    <3>2. cache[o] = k /\ k # NoEntry
      BY <1>1, <1>2, <1>4, PNoEntry DEF HeldRight, t
    <3>3. PICK g \in filler[o] : TRUE
      BY <1>2, <1>4, <3>2 DEF CacheFilled
    <3>4. /\ g \in Fetchers /\ task[g].url = o /\ task[g].method = "GET"
          /\ task[g].pc \in {"unlock", "done"} /\ cache[o] = task[g].kept
          /\ task[g].whole /\ ~ task[g].gone => Response2(task[g].kept, task[g])
      BY <1>1, <1>2, <3>3, HConstants DEF CacheFilled, Url
    <3>5. g # f
      BY <1>1, <3>4 DEF t
    <3>6. (task'[g].whole => task[g].whole) /\ task'[g].gone = task[g].gone
      BY <1>1, <2>3, <3>4, <3>5, HOther DEF OthersStay
    <3>7. Response2(task[g].kept, task[g])
      BY <3>3, <3>4, <3>6
    <3>. QED
      BY <2>1, <3>1, <3>2, <3>4, <3>7 DEF Response2, Size, t
  <2>6. ~ IsFilling(t) /\ ~ IsFilling(task'[f]) /\ IsCounted(task'[f])
    BY <1>1, <1>2, <2>1, <2>3, Zenon DEF IsFilling, FillPoints, IsCounted
  <2>. QED
    BY <1>1, <1>2, <2>1, <2>3, <2>4, <2>5, <2>6, PPlain DEF t
<1>. QED
  BY <1>3, <1>4

\* The steps of a connection of 8/cache.cpp.
LEMMA PConnection ==
  ASSUME HInv, prog = "cache", NEW f \in Pool, UNCHANGED listVars, Connection(f)
  PROVE  HInv'
<1>. DEFINE t == task[f]
<1>1. /\ f \in Fetchers /\ HTaskOK /\ PTask(t, Buf(f)) /\ (Home[f] \in up => report = <<>>)
  BY PBasics
<1>2. CASE main(f)
  BY <1>2, PAccept DEF main
<1>3. CASE threadMain(f)
  <2>1. PICK q \in {"visit", "resolve"} : ReadRequest(f, q) /\ (q = "visit" <=> t.method = "GET")
    BY <1>3 DEF threadMain
  <2>. QED
    BY <1>3, <2>1, PReadRequest DEF threadMain
<1>4. CASE Leave(f) /\ UNCHANGED cvars
  BY <1>4, PLeave
<1>5. ASSUME UNCHANGED cvars, NEW q \in {"keep", "store", "loop", "done"}, PWorked(f, q),
             Home[f] \in up, IF t.method = "GET" THEN q # "done" ELSE q \in {"loop", "done"}
      PROVE  HInv'
  BY <1>5, PExchange
<1>6. CASE parseReqHEAD(f)
  <2>1. /\ UNCHANGED cvars /\ t.method = "HEAD"
        /\ Relay(f, getHeaderLen(Buf(f)), "loop") \/ Loop(f, "done")
    BY <1>6 DEF parseReqHEAD
  <2>2. Home[f] \in up
    BY <2>1, Zenon DEF Relay, Loop, Resolve, Connect, FirstChunk, Measure, SendOn, Again, Clear,
       NextChunk,
                Lose, Enough, At
  <2>3. CASE Relay(f, getHeaderLen(Buf(f)), "loop")
    <3>1. ~ Caches(t) /\ Sizes(t, Buf(f)) = getHeaderLen(Buf(f))
      BY <2>1 DEF Caches, Sizes
    <3>2. PWorked(f, "loop")
      BY <1>1, <2>3, <3>1, PRelay
    <3>. QED
      BY <1>5, <2>1, <2>2, <3>2
  <2>4. CASE Loop(f, "done")
    <3>1. PWorked(f, "done")
      BY <1>1, <2>4, PLoop
    <3>. QED
      BY <1>5, <2>1, <2>2, <3>1
  <2>. QED
    BY <2>1, <2>3, <2>4
<1>7. ASSUME t.method = "GET", UNCHANGED cvars,
             \/ Relay(f, parseHeader(Buf(f)) + getHeaderLen(Buf(f)), "keep")
             \/ Loop(f, "store") \/ Keep(f)
      PROVE  HInv'
  <2>2. Home[f] \in up
    BY <1>7, Zenon DEF Relay, Loop, Resolve, Connect, FirstChunk, Measure, SendOn, Again, Clear,
       NextChunk,
                Lose, Enough, At, Keep
  <2>3. CASE Relay(f, parseHeader(Buf(f)) + getHeaderLen(Buf(f)), "keep")
    <3>1. Sizes(t, Buf(f)) = parseHeader(Buf(f)) + getHeaderLen(Buf(f))
      BY <1>7 DEF Sizes, parseHeader
    <3>2. PWorked(f, "keep")
      BY <1>1, <2>3, <3>1, PRelay
    <3>. QED
      BY <1>5, <1>7, <2>2, <3>2
  <2>4. CASE Loop(f, "store")
    <3>1. PWorked(f, "store")
      BY <1>1, <2>4, PLoop
    <3>. QED
      BY <1>5, <1>7, <2>2, <3>1
  <2>5. CASE Keep(f)
    <3>1. PWorked(f, "keep")
      BY <1>1, <2>5, PKeep
    <3>. QED
      BY <1>5, <1>7, <2>2, <3>1
  <2>. QED
    BY <1>7, <2>3, <2>4, <2>5
<1>8. ASSUME t.method = "GET", CountVisit(f) \/ Lookup(f) \/ Hit(f) \/ Store(f)
      PROVE  HInv'
  <2>1. CASE CountVisit(f)
    BY <1>8, <2>1, PCountVisit
  <2>2. CASE Lookup(f)
    <3>1. ASSUME At(f, "lookup"), LockCache(f),
                 Step(f, "lookup", IF cache[Url(f)] = NoEntry THEN "reserve" ELSE "hit"),
                 UNCHANGED <<cache, visMtx, statsVis, seen, report, filler>>
          PROVE  HInv'
      <4>1. PICK q \in {"reserve", "hit"} :
              /\ Step(f, "lookup", q)
              /\ IF cache[Url(f)] = NoEntry THEN q = "reserve" ELSE q = "hit"
        BY <3>1
      <4>2. /\ Home[f] \in up /\ t.pc = "lookup" /\ Goes(f, [t EXCEPT !.pc = q])
            /\ <<"lookup", q>> \in {<<"lookup", "reserve">>, <<"lookup", "hit">>}
        BY <4>1 DEF Step, At
      <4>. QED
        BY <1>8, <3>1, <4>1, <4>2, PCacheMoves DEF LockCache, Url
    <3>2. ASSUME Step(f, "reserve", "miss"), cache' = [cache EXCEPT ![Url(f)] = <<>>],
                 UNCHANGED <<cacheMtx, visMtx, statsVis, seen, report, filler>>
          PROVE  HInv'
      BY <1>8, <3>2, PReserve DEF Step, At, Url
    <3>3. ASSUME Step(f, "miss", "resolve"), cacheMtx' = Free,
                 UNCHANGED <<cache, visMtx, statsVis, seen, report, filler>>
          PROVE  HInv'
      BY <1>8, <3>3, PCacheMoves DEF Step, At
    <3>. QED
      BY <2>2, <3>1, <3>2, <3>3 DEF Lookup
  <2>3. CASE Hit(f)
    <3>1. ASSUME At(f, "hit"), cacheMtx' = Free,
                 Goes(f, [task[f] EXCEPT !.pc = "answer", !.kept = cache[Url(f)]]),
                 UNCHANGED <<cache, visMtx, statsVis, seen, report, filler>>
          PROVE  HInv'
      BY <1>8, <3>1, PCopies, Zenon DEF At, Url
    <3>. QED
      BY <1>8, <2>3, <3>1, PAnswer, Zenon DEF Hit
  <2>4. CASE Store(f)
    <3>1. ASSUME Step(f, "store", "stored"), LockCache(f),
                 UNCHANGED <<cache, visMtx, statsVis, seen, report, filler>>
          PROVE  HInv'
      BY <1>8, <3>1, PCacheMoves DEF Step, At, LockCache
    <3>2. ASSUME Step(f, "stored", "unlock"), cache' = [cache EXCEPT ![Url(f)] = ToBeCached(f)],
                 filler' = [filler EXCEPT ![Url(f)] = @ \cup {f}],
                 UNCHANGED <<cacheMtx, visMtx, statsVis, seen, report>>
          PROVE  HInv'
      BY <1>8, <3>2, PStore DEF Step, At, Url, ToBeCached
    <3>3. ASSUME Step(f, "unlock", "done"), cacheMtx' = Free,
                 UNCHANGED <<cache, visMtx, statsVis, seen, report, filler>>
          PROVE  HInv'
      BY <1>8, <3>3, PCacheMoves DEF Step, At
    <3>. QED
      BY <2>4, <3>1, <3>2, <3>3 DEF Store
  <2>. QED
    BY <1>8, <2>1, <2>2, <2>3, <2>4
<1>9. CASE parseReqGET(f)
  BY <1>7, <1>8, <1>9 DEF parseReqGET, Keep
<1>. QED
  BY <1>2, <1>3, <1>4, <1>6, <1>9 DEF Connection

\* The steps of a connection of 7/2.cpp.
LEMMA PConnectionTwo ==
  ASSUME HInv, prog = "2", NEW f \in Pool, UNCHANGED <<listVars, cvars>>, Connection2(f)
  PROVE  HInv'
<1>. DEFINE t == task[f]
<1>1. /\ f \in Fetchers /\ HTaskOK /\ PTask(t, Buf(f)) /\ ~ Caches(t)
  BY PBasics DEF Caches
<1>2. CASE main2(f)
  BY <1>2, PAccept DEF main2
<1>3. CASE threadMain2(f)
  BY <1>3, PReadRequest DEF threadMain2
<1>4. CASE Leave(f)
  BY <1>4, PLeave
<1>5. CASE parseReq2(f)
  <2>1. \/ \E s : Relay(f, s, "loop") /\ s = Sizes(t, Buf(f))
        \/ Loop(f, "done")
    BY <1>5 DEF parseReq2, parseReqGET2, parseReqHEAD2, Sizes, parseHeader2
  <2>2. Home[f] \in up
    BY <2>1, Zenon DEF Relay, Loop, Resolve, Connect, FirstChunk, Measure, SendOn, Again, Clear,
       NextChunk,
                Lose, Enough, At
  <2>3. \E q \in {"loop", "done"} : PWorked(f, q)
    BY <1>1, <2>1, PRelay, PLoop
  <2>. QED
    BY <2>2, <2>3, PExchange
<1>. QED
  BY <1>2, <1>3, <1>4, <1>5 DEF Connection2

-----------------------------------------------------------------------------
(* 7/1.cpp: its exchange with the server, in front of its client c.        *)

QSide(t, b, a, c, x, y) == QPair(t, c) /\ QServer(t, a) /\ QProxy(t, b, x, y)

\* A client that is done has finished, and one that has finished rightly is done.
QEnding(c, x, y) == (c.pc = "done" => x) /\ (x /\ y => c.pc = "done" /\ c.whole)

\* Client and proxy stay together while nothing is sent.
LEMMA QPairOn ==
  ASSUME NEW t \in Tasks, NEW u \in Tasks, NEW c, QPair(t, c), t.pc # "idle",
         u.pc \notin Between \cup {"request", "hang", "resolve", "connect"},
         u.url = t.url, u.method = t.method, u.gone = t.gone, u.out = t.out
  PROVE  QPair(u, c) /\ Size(u) = Size(t)
<1>1. Size(u) = Size(t)
  BY DEF Size
<1>. QED
  BY <1>1 DEF QPair, Between

\* The host is looked up.
LEMMA QResolves ==
  ASSUME NEW t \in Tasks, NEW u \in Tasks, NEW b, NEW d, NEW c, NEW a, NEW h, NEW x, NEW y,
         QSide(t, b, a, c, x, y), t.pc = "resolve", u = [t EXCEPT !.pc = "connect"],
         h = HostOf[t.url]
  PROVE  QSide(u, d, h, c, x, y) /\ u.out = t.out /\ u.pc # "idle"
<1>1. /\ u.pc = "connect" /\ u.url = t.url /\ u.method = t.method /\ u.gone = t.gone
      /\ u.con = t.con /\ u.srv = t.srv /\ u.inp = t.inp /\ u.out = t.out
  BY Zenon DEF Tasks
<1>2. Size(u) = Size(t)
  BY <1>1 DEF Size
<1>. QED
  BY <1>1, <1>2 DEF QSide, QPair, QServer, QProxy, QPassing, Between

\* connect, for the thread that does it.
LEMMA QConnects ==
  ASSUME NEW t \in Tasks, NEW u \in Tasks, NEW b, NEW d, NEW c, NEW a, NEW h, NEW x, NEW y,
         QSide(t, b, a, c, x, y), t.url \in Urls, t.pc = "connect",
         u = [t EXCEPT !.pc = "first", !.inp = u.inp, !.srv = u.srv, !.whole = u.whole],
         ~ t.con => u.srv = a, t.inp = <<>> /\ u.srv = HostOf[t.url] => OnItsWay(u)
  PROVE  QSide(u, d, h, c, x, y) /\ u.out = t.out /\ u.pc # "idle"
<1>1. /\ u.pc = "first" /\ u.url = t.url /\ u.method = t.method /\ u.gone = t.gone
      /\ u.out = t.out /\ u.con = t.con
  BY Zenon DEF Tasks
<1>2. QPair(u, c) /\ u.out = <<>> /\ t.inp = <<>>
  BY <1>1, QPairOn DEF QSide, QPair, Between
<1>3. u.srv = HostOf[u.url] /\ ~ u.con
  BY <1>1 DEF QSide, QServer
<1>4. OnItsWay(u) /\ Size(u) \in Nat
  BY <1>1, <1>2, <1>3, HSizes
<1>. QED
  BY <1>1, <1>2, <1>3, <1>4 DEF QSide, QServer, QProxy, OnItsWay, QPassing

\* The first chunk.
LEMMA QFirst ==
  ASSUME NEW t \in Tasks, NEW u \in Tasks, NEW b, NEW d, NEW c, NEW a, NEW h, NEW x, NEW y,
         QSide(t, b, a, c, x, y), t.pc = "first",
         u = [t EXCEPT !.pc = "size", !.n = u.n, !.inp = u.inp, !.whole = u.whole],
         u.n + Len(u.inp) = Len(t.inp),
         Span(t.inp, t.url, 0) => Span(u.inp, t.url, u.n) /\ Holds(d, t.url, 0, u.n),
         u.whole => t.whole /\ HeaderLen[t.url] <= u.n /\ NotMisled(u, d)
  PROVE  QSide(u, d, h, c, x, y) /\ u.out = t.out /\ u.pc # "idle"
<1>1. /\ u.pc = "size" /\ u.url = t.url /\ u.method = t.method /\ u.gone = t.gone
      /\ u.con = t.con /\ u.srv = t.srv
      /\ u.out = t.out
  BY Zenon DEF Tasks
<1>2. QPair(u, c) /\ Size(u) = Size(t)
  BY <1>1, QPairOn DEF QSide, Between
<1>3. /\ Len(t.inp) <= Size(t) /\ Span(t.inp, t.url, 0) /\ t.out = <<>>
      /\ t.whole => Len(t.inp) = Size(t)
  BY DEF QSide, QProxy
<1>4. u.whole => HeaderIsIn(u, d) /\ NotMisled(u, d)
  BY <1>1, <1>2, <1>3 DEF HeaderIsIn
<1>. QED
  BY <1>1, <1>2, <1>3, <1>4 DEF QSide, QServer, QProxy, QPassing

\* What the proxy reads from a whole header.
LEMMA QSizes ==
  ASSUME NEW t \in Tasks, t.url \in Urls, t.n <= BufSize, NEW b \in [1 .. BufSize -> Byte],
         HeaderIsIn(t, b), NotMisled(t, b)
  PROVE  /\ getHeaderLen(b) = HeaderLen[t.url]
         /\ HasLength(b) <=> t.url \notin NoLength
         /\ t.url \notin NoLength => Length(b) = BodyLen[t.url]
<1>1. /\ HeaderLen[t.url] <= t.n /\ t.n \in Nat /\ Holds(b, t.url, 0, t.n)
  BY Zenon DEF HeaderIsIn, Tasks
<1>. QED
  BY <1>1, HReadHeader DEF NotMisled

\* sz is the size of the response.
LEMMA QMeasures ==
  ASSUME NEW t \in Tasks, NEW u \in Tasks, NEW b \in [1 .. BufSize -> Byte], NEW c,
         NEW a, NEW h, NEW x, NEW y, QSide(t, b, a, c, x, y), t.url \in Urls, t.n <= BufSize,
         t.pc = "size", t.method \in Methods,
         NEW s, s = (IF t.method = "GET" THEN Length(b) + getHeaderLen(b) ELSE getHeaderLen(b)),
         t.method = "GET" => HasLength(b), u = [t EXCEPT !.pc = "pass", !.sz = s, !.got = t.n]
  PROVE  QSide(u, b, h, c, x, y) /\ u.out = t.out /\ u.pc # "idle"
<1>1. /\ u.pc = "pass" /\ u.url = t.url /\ u.method = t.method /\ u.gone = t.gone
      /\ u.con = t.con /\ u.srv = t.srv
      /\ u.out = t.out /\ u.inp = t.inp /\ u.n = t.n /\ u.sz = s /\ u.got = t.n
      /\ u.whole = t.whole
  BY Zenon DEF Tasks
<1>2. QPair(u, c) /\ Size(u) = Size(t)
  BY <1>1, QPairOn DEF QSide, Between
<1>3. /\ t.n + Len(t.inp) <= Size(t) /\ Span(t.inp, t.url, t.n) /\ t.out = <<>>
      /\ Holds(b, t.url, 0, t.n)
      /\ t.whole => HeaderIsIn(t, b) /\ NotMisled(t, b)
      /\ t.n \in Nat
  BY Zenon DEF QSide, QProxy, Tasks
<1>4. t.whole => s = Size(t)
  <2>. SUFFICES ASSUME t.whole PROVE s = Size(t)
    OBVIOUS
  <2>1. /\ getHeaderLen(b) = HeaderLen[t.url]
        /\ HasLength(b) <=> t.url \notin NoLength
        /\ t.url \notin NoLength => Length(b) = BodyLen[t.url]
    BY <1>3, QSizes
  <2>2. CASE t.method = "GET"
    <3>1. Size(t) = HeaderLen[t.url] + BodyLen[t.url] /\ HeaderLen[t.url] \in Nat /\ BodyLen[t.url] \in Nat
      BY <2>2, HSizes, HLengths
    <3>2. s = BodyLen[t.url] + HeaderLen[t.url]
      BY <2>1, <2>2
    <3>. QED
      BY <3>1, <3>2
  <2>3. CASE t.method = "HEAD"
    <3>1. Size(t) = HeaderLen[t.url]
      BY <2>3, HSizes
    <3>2. s = HeaderLen[t.url]
      BY <2>1, <2>3
    <3>. QED
      BY <3>1, <3>2
  <2>. QED
    BY <2>2, <2>3 DEF Methods
<1>5. t.whole => t.n + Len(t.inp) = Size(t)
  BY <1>3 DEF HeaderIsIn
<1>6. u.got - u.n = 0 /\ Len(u.out) = 0
  BY <1>1, <1>3, HEmpty
<1>. QED
  BY <1>1, <1>2, <1>3, <1>4, <1>5, <1>6 DEF QSide, QServer, QProxy, QPassing

\* The next chunk.
LEMMA QReceives ==
  ASSUME NEW t \in Tasks, NEW u \in Tasks, NEW b, NEW d, NEW c, NEW a, NEW h, NEW x, NEW y,
         QSide(t, b, a, c, x, y), t.pc = "more",
         u = [t EXCEPT !.pc = "pass", !.n = u.n, !.inp = u.inp, !.got = u.got],
         u.n + Len(u.inp) = Len(t.inp), u.got = t.got + u.n,
         \A i \in Int : Span(t.inp, t.url, i) =>
           Span(u.inp, t.url, i + u.n) /\ Holds(d, t.url, i, u.n)
  PROVE  QSide(u, d, h, c, x, y) /\ u.out = t.out /\ u.pc # "idle"
<1>1. /\ u.pc = "pass" /\ u.url = t.url /\ u.method = t.method /\ u.gone = t.gone
      /\ u.con = t.con /\ u.srv = t.srv
      /\ u.out = t.out /\ u.sz = t.sz /\ u.whole = t.whole
  BY Zenon DEF Tasks
<1>2. QPair(u, c) /\ Size(u) = Size(t)
  BY <1>1, QPairOn DEF QSide, Between
<1>3. /\ t.got + Len(t.inp) <= Size(t) /\ Span(t.inp, t.url, t.got)
      /\ t.whole => t.sz = Size(t) /\ t.got + Len(t.inp) = Size(t)
      /\ ~ x => Len(t.out) = t.got
  BY DEF QSide, QServer, QProxy, QPassing
<1>4. t.got \in Int /\ u.n \in Int /\ Len(t.inp) \in Int /\ Len(u.inp) \in Int
  <2>1. t.got \in Int /\ t.inp \in Seq(Byte)
    BY Zenon DEF Tasks
  <2>2. u.n \in Nat
    BY Zenon DEF Tasks
  <2>3. u.inp \in Seq(Byte)
    BY Zenon DEF Tasks
  <2>. QED
    BY <2>1, <2>2, <2>3, HEmpty
<1>5. u.got + Len(u.inp) = t.got + Len(t.inp) /\ u.got - u.n = t.got
  BY <1>4
<1>6. Span(u.inp, t.url, u.got) /\ Holds(d, t.url, u.got - u.n, u.n)
  BY <1>3, <1>4, <1>5
<1>. QED
  BY <1>1, <1>2, <1>3, <1>5, <1>6 DEF QSide, QServer, QProxy, QPassing

\* The rest of the response is lost.
LEMMA QLoses ==
  ASSUME NEW t \in Tasks, NEW u \in Tasks, NEW b, NEW d, NEW c, NEW a, NEW h, NEW x, NEW y,
         QSide(t, b, a, c, x, y),
         t.url \in Urls, t.pc \in {"first", "more"}, u = [t EXCEPT !.inp = <<>>, !.whole = FALSE]
  PROVE  QSide(u, d, h, c, x, y) /\ u.out = t.out /\ u.pc # "idle"
<1>1. /\ u.pc = t.pc /\ u.url = t.url /\ u.method = t.method /\ u.gone = t.gone
      /\ u.con = t.con /\ u.srv = t.srv
      /\ u.out = t.out /\ u.sz = t.sz /\ u.got = t.got /\ ~ u.whole /\ u.inp = <<>>
  BY Zenon DEF Tasks
<1>2. QPair(u, c) /\ Size(u) = Size(t) /\ Size(t) \in Nat
  BY <1>1, QPairOn, HSizes DEF QSide, Between
<1>3. t.got \in Int /\ Len(t.inp) \in Nat /\ Len(u.inp) = 0 /\ \A i : Span(u.inp, t.url, i)
  <2>1. t.got \in Int /\ t.inp \in Seq(Byte)
    BY Zenon DEF Tasks
  <2>. QED
    BY <1>1, <2>1, HEmpty
<1>4. CASE t.pc = "first"
  BY <1>1, <1>2, <1>3, <1>4 DEF QSide, QServer, QProxy, QPassing
<1>5. CASE t.pc = "more"
  <2>1. /\ t.got + Len(t.inp) <= Size(t)
        /\ ~ x => Len(t.out) = t.got
    BY <1>5 DEF QSide, QServer, QProxy, QPassing
  <2>2. u.got + Len(u.inp) <= Size(u)
    BY <1>1, <1>2, <1>3, <2>1
  <2>. QED
    BY <1>1, <1>2, <1>3, <1>5, <2>1, <2>2 DEF QSide, QServer, QProxy, QPassing
<1>. QED
  BY <1>4, <1>5

\* Once round the loop, and out of it.
LEMMA QTurns ==
  ASSUME NEW t \in Tasks, NEW u \in Tasks, NEW b, NEW d, NEW c, NEW a, NEW h, NEW x, NEW y,
         QSide(t, b, a, c, x, y),
         \/ t.pc = "loop" /\ u = [t EXCEPT !.pc = "clear"]
         \/ t.pc = "clear" /\ u = [t EXCEPT !.pc = "more"]
         \/ t.pc = "pass" /\ x /\ u = [t EXCEPT !.pc = "loop"]
  PROVE  QSide(u, d, h, c, x, y) /\ u.out = t.out /\ u.pc # "idle"
<1>1. /\ u.url = t.url /\ u.method = t.method /\ u.gone = t.gone
      /\ u.con = t.con /\ u.srv = t.srv
      /\ u.out = t.out /\ u.sz = t.sz /\ u.got = t.got /\ u.whole = t.whole /\ u.inp = t.inp
      /\ u.pc \in {"clear", "more", "loop"} /\ t.pc \in {"loop", "clear", "pass"}
      /\ t.pc = "pass" => x
  BY Zenon DEF Tasks
<1>2. QPair(u, c) /\ Size(u) = Size(t)
  BY <1>1, QPairOn DEF QSide, Between
<1>. QED
  BY <1>1, <1>2 DEF QSide, QServer, QProxy, QPassing

\* At the end the client has been sent all of the response.
LEMMA QEnds ==
  ASSUME NEW t \in Tasks, NEW u \in Tasks, NEW b, NEW d, NEW c \in Tasks, NEW e, NEW a, NEW h,
         NEW x, NEW y, QEnding(c, x, y), QSide(t, b, a, c, x, y),
         QClient(c, e, Len(t.out)), t.url \in Urls, t.pc = "loop", t.got >= t.sz,
         u = [t EXCEPT !.pc = "close"]
  PROVE  QSide(u, d, h, c, x, y) /\ u.out = t.out /\ u.pc # "idle"
<1>1. /\ u.url = t.url /\ u.method = t.method /\ u.gone = t.gone /\ u.pc = "close"
      /\ u.con = t.con /\ u.srv = t.srv
      /\ u.out = t.out /\ u.sz = t.sz /\ u.got = t.got /\ u.whole = t.whole /\ u.inp = t.inp
  BY Zenon DEF Tasks
<1>2. QPair(u, c) /\ Size(u) = Size(t) /\ Size(t) \in Nat
  BY <1>1, QPairOn, HSizes DEF QSide, Between
<1>3. /\ t.got + Len(t.inp) <= Size(t) /\ Span(t.inp, t.url, t.got)
      /\ t.whole => t.sz = Size(t) /\ t.got + Len(t.inp) = Size(t)
      /\ ~ x => Len(t.out) = t.got
      /\ Len(t.out) <= Size(t)
  BY DEF QSide, QPair, QProxy, QPassing
<1>4. t.got \in Int /\ Len(t.inp) \in Nat /\ Len(t.out) \in Nat
  <2>1. t.got \in Int /\ t.inp \in Seq(Byte) /\ t.out \in Seq(Byte)
    BY Zenon DEF Tasks
  <2>. QED
    BY <2>1, HEmpty
<1>5. t.whole /\ (y \/ ~ x) => Len(t.out) = Size(t)
  <2>. SUFFICES ASSUME t.whole, y \/ ~ x PROVE Len(t.out) = Size(t)
    OBVIOUS
  <2>1. CASE ~ x
    BY <1>2, <1>3, <1>4, <2>1
  <2>2. CASE x
    <3>1. Skipped(c) + c.sz = Size(c) /\ Skipped(c) + c.got + Len(c.inp) = Len(t.out) /\ c.got >= c.sz
      BY <2>2 DEF QClient, QEnding
    <3>2. Size(c) = Size(t)
      BY DEF QSide, QPair, Size
    <3>3. c.got \in Int /\ c.sz \in Int /\ Len(c.inp) \in Nat /\ Skipped(c) \in Nat
      <4>1. c.got \in Int /\ c.sz \in Int /\ c.inp \in Seq(Byte)
        BY Zenon DEF Tasks
      <4>2. c.url \in Urls
        BY DEF QSide, QPair
      <4>3. Skipped(c) \in Nat
        BY <4>2, HLengths DEF Skipped
      <4>. QED
        BY <4>1, <4>3, HEmpty
    <3>4. Len(t.out) >= Size(t)
      BY <1>2, <1>4, <3>1, <3>2, <3>3
    <3>. QED
      BY <1>2, <1>3, <1>4, <3>4
  <2>. QED
    BY <2>1, <2>2
<1>. QED
  BY <1>1, <1>2, <1>3, <1>5 DEF QSide, QServer, QProxy, QPassing

-----------------------------------------------------------------------------
(* The steps of 7/1.cpp, thread 4.                                         *)

\* A step of one program does nothing to the other one.
LEMMA QFar ==
  ASSUME HTaskOK, NEW f \in Fetchers, NEW g \in Fetchers, Home[f] # Home[g],
         \/ Resolve(f)
         \/ \E t : Goes(f, t)
         \/ \E t, b : Writes(f, t, b)
         \/ Exit(f)
  PROVE  /\ task'[g] = task[g] /\ buf'[Home[g]] = buf[Home[g]]
         /\ addr'[Home[g]] = addr[Home[g]]
         /\ Home[g] \in up' <=> Home[g] \in up
         /\ up' \subseteq up
<1>0. Home[g] \in Programs \ {Home[f]} /\ g # f
  BY HConstants
<1>1. ASSUME NEW t, Goes(f, t)
      PROVE  /\ task'[g] = task[g] /\ buf'[Home[g]] = buf[Home[g]] /\ addr' = addr /\ up' = up
  BY <1>0, <1>1, HGoes DEF Goes
<1>2. ASSUME NEW t, NEW b, Writes(f, t, b)
      PROVE  /\ task'[g] = task[g] /\ buf'[Home[g]] = buf[Home[g]] /\ addr' = addr /\ up' = up
  <2>1. g \notin Others(f)
    BY DEF Others
  <2>. QED
    BY <1>0, <1>2, <2>1, HWrites
<1>3. CASE Exit(f)
  BY <1>0, <1>3 DEF Exit
<1>4. CASE Resolve(f) /\ ~ Exit(f)
  <2>1. /\ addr' = [addr EXCEPT ![Home[f]] = HostOf[task[f].url]]
        /\ task' = [task EXCEPT ![f].pc = "connect"] /\ UNCHANGED <<buf, up>>
    BY <1>4 DEF Resolve
  <2>. QED
    BY <1>0, <2>1, Zenon DEF HTaskOK
<1>. QED
  BY <1>1, <1>2, <1>3, <1>4

\* An exchange of one program does nothing to the other one.
LEMMA QExchangeFar ==
  ASSUME HTaskOK, NEW f \in Fetchers, NEW g \in Fetchers, Home[f] # Home[g],
         \/ Resolve(f) \/ Connect(f, "first") \/ FirstChunk(f) \/ (\E s, q : Measure(f, s, q)) \/ NextChunk(f)
         \/ Again(f) \/ Clear(f) \/ (\E q : Enough(f, q)) \/ Lose(f)
  PROVE  /\ task'[g] = task[g] /\ buf'[Home[g]] = buf[Home[g]]
         /\ addr'[Home[g]] = addr[Home[g]]
         /\ Home[g] \in up' <=> Home[g] \in up
         /\ up' \subseteq up
<1>1. \/ Resolve(f)
      \/ \E t : Goes(f, t)
      \/ \E t, b : Writes(f, t, b)
      \/ Exit(f)
  BY Zenon DEF Connect, FirstChunk, Measure, NextChunk, Again, Clear, Enough, Lose
<1>. QED
  BY <1>1, QFar

\* 7/1.cpp and its client: what is left to show of the invariant.
LEMMA QRest ==
  ASSUME HInv, prog = "1", UNCHANGED <<listVars, cvars>>, HTaskOK',
         task'[1] = task[1], task'[2] = task[2], OneInv'
  PROVE  HInv'
<1>1. UNCHANGED <<prog, line, eof, mtx, files, fetched, cache, filler, statsVis, seen>>
  BY DEF listVars, cvars
<1>2. HTypeOK'
  BY <1>1 DEF HInv, HTypeOK, Hosts
<1>3. prog \notin Lists /\ prog # "cache" /\ prog # "2"
  BY DEF Lists
<1>4. ListInv' /\ ServerInv' /\ ProxyInv' /\ CacheInv' /\ VisitInv'
  BY <1>1, <1>3 DEF ListInv, ServerInv, ProxyInv, CacheInv, VisitInv
<1>5. LineInv'
  <2>1. LineInv
    BY DEF HInv
  <2>. QED
    BY <1>1, <1>3, <2>1 DEF LineInv, InOrder
<1>6. HRoles'
  <2>1. HRoles /\ \A f \in Fetchers : Runs(f) <=> f \in {3, 4}
    BY DEF HInv, Runs
  <2>2. \A f \in Fetchers : f \notin {3, 4} => f = 1 \/ f = 2
    BY HConstants
  <2>3. prog' = "1"
    BY <1>1
  <2>. QED
    BY <2>1, <2>2, <2>3, Zenon DEF HRoles, Runs, Idle
<1>. QED
  BY <1>2, <1>4, <1>5, <1>6 DEF HInv

\* What is known of the two when a step begins.
LEMMA QBasics ==
  ASSUME HInv, prog = "1"
  PROVE  /\ 3 \in Fetchers /\ 4 \in Fetchers /\ HTaskOK /\ Home[3] # Home[4]
         /\ QSide(task[4], Buf(4), addr[Home[4]], task[3], Finished, Rightly)
         /\ QEnding(task[3], Finished, Rightly) /\ QClient(task[3], Buf(3), Len(task[4].out))
         /\ task[4].pc = "idle" => task[3].inp = <<>>
         /\ task[4].pc \notin {"idle", "done"} =>
              task[4].url \in Urls /\ task[4].method \in Methods
         /\ \A f \in {3, 4} : OthersStay(f) => task'[1] = task[1] /\ task'[2] = task[2]
<1>1. HTaskOK /\ OneInv /\ HRoles
  BY DEF HInv, HTypeOK
<1>2. /\ QSide(task[4], Buf(4), addr[Home[4]], task[3], Finished, Rightly)
      /\ QEnding(task[3], Finished, Rightly)
  BY <1>1 DEF OneInv, QSide, QEnding, Finished, Rightly
<1>3. task[4].pc \notin {"idle", "done"} => task[4].url \in Urls /\ task[4].method \in Methods
  <2>1. QPair(task[4], task[3])
    BY <1>2 DEF QSide
  <2>. QED
    BY <1>1, <2>1, HConstants, HTask DEF QPair, Placed, Between
<1>4. ASSUME NEW f \in {3, 4}, OthersStay(f) PROVE task'[1] = task[1] /\ task'[2] = task[2]
  <2>1. ASSUME NEW g \in {1, 2} PROVE task'[g] = task[g]
    <3>1. g \in Fetchers \ {f} /\ ~ Runs(g)
      BY HConstants DEF Runs
    <3>2. task[g].pc = "idle"
      BY <1>1, <3>1, HIdle, Zenon DEF HRoles
    <3>3. ~ Relies(g)
      BY <3>2 DEF Relies
    <3>. QED
      BY <1>1, <1>4, <3>1, <3>3, HOther DEF OthersStay
  <2>. QED
    BY <2>1
<1>. QED
  BY <1>1, <1>2, <1>3, <1>4, HConstants DEF OneInv

\* The parts of OneInv after a step.
LEMMA QOneInv ==
  ASSUME prog' = "1",
         QSide(task'[4], buf'[Home[4]], addr'[Home[4]], task'[3], Finished', Rightly'),
         task'[4].pc = "idle" => task'[3].inp = <<>>,
         QClient(task'[3], buf'[Home[3]], Len(task'[4].out))
  PROVE  OneInv'
<1>. QED
  BY DEF OneInv, QSide, QPair, QServer, QProxy, QClient, Buf, Size, HeaderIsIn, NotMisled, Skipped

\* A step of the proxy that sends nothing.
LEMMA QProxyStep ==
  ASSUME HInv, prog = "1", UNCHANGED <<listVars, cvars>>, HTaskOK', OthersStay(4),
         task'[3] = task[3], buf'[Home[3]] = buf[Home[3]], Home[3] \in up' <=> Home[3] \in up,
         QSide(task'[4], buf'[Home[4]], addr'[Home[4]], task[3], Finished, Rightly),
         task'[4].out = task[4].out, task'[4].pc # "idle"
  PROVE  HInv'
<1>1. task'[1] = task[1] /\ task'[2] = task[2] /\ prog' = prog
  BY QBasics DEF listVars
<1>2. QClient(task[3], buf[Home[3]], Len(task[4].out))
  BY QBasics DEF Buf
<1>3. (Finished' <=> Finished) /\ (Rightly' <=> Rightly)
  BY DEF Finished, Rightly
<1>4. QSide(task'[4], buf'[Home[4]], addr'[Home[4]], task'[3], Finished', Rightly')
  BY <1>3 DEF QSide, QProxy
<1>5. OneInv'
  BY <1>1, <1>2, <1>4, QOneInv
<1>. QED
  BY <1>1, <1>5, QRest

\* Nothing moves, but a program may end.
LEMMA QStill ==
  ASSUME HInv, prog = "1", UNCHANGED <<listVars, cvars>>, Still, up' \subseteq up
  PROVE  HInv'
<1>1. HTaskOK' /\ task' = task /\ buf' = buf /\ addr' = addr /\ prog' = prog
  BY QBasics, HStill DEF Still, listVars
<1>2. (Finished => Finished') /\ (Rightly' => Rightly)
  BY <1>1 DEF Finished, Rightly
<1>3. /\ QSide(task[4], Buf(4), addr[Home[4]], task[3], Finished, Rightly)
      /\ QClient(task[3], Buf(3), Len(task[4].out))
      /\ task[4].pc = "idle" => task[3].inp = <<>>
  BY QBasics
<1>4. QSide(task[4], Buf(4), addr[Home[4]], task[3], Finished', Rightly')
  BY <1>2, <1>3 DEF QSide, QProxy
<1>5. OneInv'
  BY <1>1, <1>3, <1>4, QOneInv DEF Buf
<1>. QED
  BY <1>1, <1>5, QRest

\* The exchange with the server.
LEMMA QProxyWork ==
  ASSUME HInv, prog = "1", UNCHANGED <<listVars, cvars>>,
         \/ Resolve(4) \/ Connect(4, "first") \/ FirstChunk(4) \/ NextChunk(4) \/ Lose(4)
         \/ Again(4) \/ Clear(4) \/ Enough(4, "close")
  PROVE  HInv'
<1>. DEFINE t == task[4]
            c == task[3]
            u == task'[4]
            b == Buf(4)
            d == buf'[Home[4]]
            a == addr[Home[4]]
            h == addr'[Home[4]]
            x == Finished
            y == Rightly
<1>1. /\ 3 \in Fetchers /\ 4 \in Fetchers /\ HTaskOK /\ Home[4] # Home[3]
      /\ QSide(t, b, a, c, x, y) /\ QEnding(c, x, y) /\ QClient(c, Buf(3), Len(t.out))
      /\ t.pc \notin {"idle", "done"} => t.url \in Urls /\ t.method \in Methods
      /\ t \in Tasks /\ c \in Tasks
  BY QBasics, HTask
<1>2. /\ task'[3] = task[3] /\ buf'[Home[3]] = buf[Home[3]]
      /\ Home[3] \in up' <=> Home[3] \in up
  BY <1>1, QExchangeFar
<1>3. CASE Still
  <2>1. task'[4] = t /\ buf'[Home[4]] = b /\ h = a /\ HTaskOK' /\ OthersStay(4)
    BY <1>1, <1>3, HStill, HTask DEF Still
  <2>2. t.pc # "idle"
    BY Zenon DEF Resolve, Connect, FirstChunk, NextChunk, Lose, Again, Clear, Enough, At
  <2>. QED
    BY <1>1, <1>2, <2>1, <2>2, QProxyStep
<1>4. ASSUME HTaskOK', OthersStay(4), QSide(u, d, h, c, x, y) /\ u.out = t.out /\ u.pc # "idle"
      PROVE  HInv'
  BY <1>2, <1>4, QProxyStep
<1>5. ASSUME HTaskOK' PROVE u \in Tasks
  BY <1>1, <1>5, Zenon DEF HTaskOK
<1>6. CASE Connect(4, "first")
  <2>. SUFFICES ASSUME ~ Still PROVE HInv'
    BY <1>3
  <2>1. /\ HTaskOK' /\ OthersStay(4) /\ t.pc = "connect"
        /\ u = [t EXCEPT !.pc = "first", !.inp = u.inp, !.srv = u.srv, !.whole = u.whole]
        /\ ~ t.con => u.srv = a
        /\ t.inp = <<>> /\ u.srv = HostOf[t.url] => OnItsWay(u)
    BY <1>1, <1>6, HConnect, Zenon DEF Reached
  <2>2. u \in Tasks /\ t.url \in Urls
    BY <1>1, <1>5, <2>1
  <2>. HIDE DEF t, u, c, b, d, a, h, x, y
  <2>3. QSide(u, d, h, c, x, y) /\ u.out = t.out /\ u.pc # "idle"
    BY <1>1, <2>1, <2>2, QConnects, Zenon
  <2>. QED
    BY <1>4, <2>1, <2>3
<1>7. CASE FirstChunk(4)
  <2>. SUFFICES ASSUME ~ Still PROVE HInv'
    BY <1>3
  <2>1. /\ HTaskOK' /\ OthersStay(4) /\ t.pc = "first"
        /\ u = [t EXCEPT !.pc = "size", !.n = u.n, !.inp = u.inp, !.whole = u.whole]
        /\ u.n + Len(u.inp) = Len(t.inp)
        /\ Span(t.inp, t.url, 0) => Span(u.inp, t.url, u.n) /\ Holds(d, t.url, 0, u.n)
        /\ u.whole => t.whole /\ HeaderLen[t.url] <= u.n /\ NotMisled(u, d)
    BY <1>1, <1>7, HFirstChunk, Zenon
  <2>2. u \in Tasks /\ t.url \in Urls
    BY <1>1, <1>5, <2>1
  <2>. HIDE DEF t, u, c, b, d, a, h, x, y
  <2>3. QSide(u, d, h, c, x, y) /\ u.out = t.out /\ u.pc # "idle"
    BY <1>1, <2>1, <2>2, QFirst, Zenon
  <2>. QED
    BY <1>4, <2>1, <2>3
<1>8. CASE NextChunk(4)
  <2>. SUFFICES ASSUME ~ Still PROVE HInv'
    BY <1>3
  <2>1. /\ HTaskOK' /\ OthersStay(4) /\ t.pc = "more"
        /\ u = [t EXCEPT !.pc = "pass", !.n = u.n, !.inp = u.inp, !.got = u.got]
        /\ u.n + Len(u.inp) = Len(t.inp) /\ u.got = t.got + u.n
        /\ \A i \in Int : Span(t.inp, t.url, i) =>
             Span(u.inp, t.url, i + u.n) /\ Holds(d, t.url, i, u.n)
    BY <1>1, <1>8, HNextChunk, Zenon
  <2>2. u \in Tasks /\ t.url \in Urls
    BY <1>1, <1>5, <2>1
  <2>. HIDE DEF t, u, c, b, d, a, h, x, y
  <2>3. QSide(u, d, h, c, x, y) /\ u.out = t.out /\ u.pc # "idle"
    BY <1>1, <2>1, <2>2, QReceives, Zenon
  <2>. QED
    BY <1>4, <2>1, <2>3
<1>9. CASE Lose(4)
  <2>1. /\ HTaskOK' /\ OthersStay(4) /\ t.pc \in {"first", "more"}
        /\ u = [t EXCEPT !.inp = <<>>, !.whole = FALSE]
    BY <1>1, <1>9, HLose, Zenon
  <2>2. u \in Tasks /\ t.url \in Urls
    BY <1>1, <1>5, <2>1
  <2>. HIDE DEF t, u, c, b, d, a, h, x, y
  <2>3. QSide(u, d, h, c, x, y) /\ u.out = t.out /\ u.pc # "idle"
    BY <1>1, <2>1, <2>2, QLoses, Zenon
  <2>. QED
    BY <1>4, <2>1, <2>3
<1>10. CASE Again(4) \/ Clear(4)
  <2>1. /\ HTaskOK' /\ OthersStay(4)
        /\ \/ t.pc = "loop" /\ u = [t EXCEPT !.pc = "clear"]
           \/ t.pc = "clear" /\ u = [t EXCEPT !.pc = "more"]
    BY <1>1, <1>10, HAgain, HClear
  <2>2. u \in Tasks
    BY <1>5, <2>1
  <2>. HIDE DEF t, u, c, b, d, a, h, x, y
  <2>3. QSide(u, d, h, c, x, y) /\ u.out = t.out /\ u.pc # "idle"
    BY <1>1, <2>1, <2>2, QTurns
  <2>. QED
    BY <1>4, <2>1, <2>3
<1>11. CASE Enough(4, "close")
  <2>1. /\ HTaskOK' /\ OthersStay(4) /\ t.pc = "loop" /\ t.got >= t.sz
        /\ u = [t EXCEPT !.pc = "close"]
    BY <1>1, <1>11, HEnough
  <2>2. u \in Tasks /\ t.url \in Urls
    BY <1>1, <1>5, <2>1
  <2>. HIDE DEF t, u, c, b, d, a, h, x, y
  <2>3. QSide(u, d, h, c, x, y) /\ u.out = t.out /\ u.pc # "idle"
    BY <1>1, <2>1, <2>2, QEnds, Zenon
  <2>. QED
    BY <1>4, <2>1, <2>3
<1>12. CASE Resolve(4)
  <2>. SUFFICES ASSUME ~ Still PROVE HInv'
    BY <1>3
  <2>1. /\ HTaskOK' /\ OthersStay(4) /\ t.pc = "resolve" /\ u = [t EXCEPT !.pc = "connect"]
        /\ h = HostOf[t.url]
    BY <1>1, <1>12, HResolve, HTask
  <2>2. u \in Tasks
    BY <1>5, <2>1
  <2>. HIDE DEF t, u, c, b, d, a, h, x, y
  <2>3. QSide(u, d, h, c, x, y) /\ u.out = t.out /\ u.pc # "idle"
    BY <1>1, <2>1, <2>2, QResolves
  <2>. QED
    BY <1>4, <2>1, <2>3
<1>. QED
  BY <1>12, <1>6, <1>7, <1>8, <1>9, <1>10, <1>11

\* The size, as an action.
LEMMA QProxyMeasures ==
  ASSUME HInv, prog = "1", UNCHANGED <<listVars, cvars>>, NEW s,
         s = (IF task[4].method = "GET" THEN Length(Buf(4)) + getHeaderLen(Buf(4))
                                        ELSE getHeaderLen(Buf(4))),
         At(4, "size") /\ task[4].method = "GET" => HasLength(Buf(4)), Measure(4, s, "pass")
  PROVE  HInv'
<1>. DEFINE t == task[4]
            c == task[3]
            u == task'[4]
            b == Buf(4)
            h == addr'[Home[4]]
            a == addr[Home[4]]
            x == Finished
            y == Rightly
<1>1. /\ 3 \in Fetchers /\ 4 \in Fetchers /\ HTaskOK /\ Home[4] # Home[3]
      /\ QSide(t, b, a, c, x, y) /\ t.url \in Urls /\ t.method \in Methods /\ At(4, "size")
      /\ t \in Tasks /\ Placed(t) /\ b \in [1 .. BufSize -> Byte] /\ b = buf[Home[4]]
      /\ t.pc = "size"
  BY QBasics, HTask DEF Measure, At
<1>2. /\ task'[3] = task[3] /\ buf'[Home[3]] = buf[Home[3]]
      /\ Home[3] \in up' <=> Home[3] \in up
  BY <1>1, QExchangeFar
<1>3. s \in Int
  <2>1. getHeaderLen(b) \in Nat /\ (HasLength(b) => Length(b) \in Nat)
    BY <1>1, HReadTypes
  <2>2. t.method = "GET" => s = Length(b) + getHeaderLen(b) /\ HasLength(b)
    BY <1>1
  <2>3. t.method # "GET" => s = getHeaderLen(b)
    OBVIOUS
  <2>. HIDE DEF b, t
  <2>. QED
    BY <2>1, <2>2, <2>3
<1>4. /\ HTaskOK' /\ OthersStay(4) /\ buf' = buf
      /\ u = [t EXCEPT !.pc = "pass", !.sz = s, !.got = t.n]
  BY <1>1, <1>3, HMeasure, Zenon
<1>5. u \in Tasks /\ t.n <= BufSize
  BY <1>1, <1>4, Zenon DEF HTaskOK, Placed
<1>6. t.method = "GET" => HasLength(b)
  BY <1>1
<1>7. s = (IF t.method = "GET" THEN Length(b) + getHeaderLen(b) ELSE getHeaderLen(b))
  OBVIOUS
<1>. HIDE DEF t, u, c, b, a, h, x, y
<1>8. QSide(u, b, h, c, x, y) /\ u.out = t.out /\ u.pc # "idle"
  BY <1>1, <1>4, <1>5, <1>6, <1>7, QMeasures, Zenon
<1>. QED
  BY <1>1, <1>2, <1>4, <1>8, QProxyStep DEF t, u, c, h, x, y

\* The client has been sent r.
Fed(c, r) == [c EXCEPT !.inp = @ \o r]

\* The proxy passes its chunk on.
LEMMA QSends ==
  ASSUME NEW t \in Tasks, Placed(t), t.url \in Urls, NEW b \in [1 .. BufSize -> Byte],
         NEW c \in Tasks, NEW a, NEW x, NEW y,
         QSide(t, b, a, c, x, y), t.pc = "pass", ~ x, NEW u,
         u = PassedOn(t, b, "loop")
  PROVE  /\ u \in Tasks /\ Placed(u) /\ QSide(u, b, a, c, x, y) /\ u.pc # "idle" /\ u.url = t.url
         /\ SubSeq(b, 1, t.n) \in Seq(Byte) /\ Len(t.out) \in Nat
         /\ Span(SubSeq(b, 1, t.n), t.url, Len(t.out))
         /\ Len(u.out) = Len(t.out) + Len(SubSeq(b, 1, t.n))
<1>. DEFINE r == SubSeq(b, 1, t.n)
            s == t.out \o r
            m == Len(t.out)
<1>1. /\ t.n \in Nat /\ t.n <= BufSize /\ t.got \in Int /\ t.out \in Seq(Byte)
  BY Zenon DEF Placed, Tasks
<1>2. /\ t.got + Len(t.inp) <= Size(t) /\ Span(t.inp, t.url, t.got)
      /\ t.whole => t.sz = Size(t) /\ t.got + Len(t.inp) = Size(t)
      /\ Holds(b, t.url, t.got - t.n, t.n) /\ m = t.got - t.n
      /\ Span(t.out, t.url, 0)
  BY DEF QSide, QPair, QProxy, QPassing
<1>3. r \in Seq(Byte) /\ Len(r) = t.n /\ m \in Nat /\ Len(t.inp) \in Nat
  <2>1. t.inp \in Seq(Byte)
    BY Zenon DEF Tasks
  <2>. QED
    BY <1>1, <2>1, HFront, HEmpty
<1>4. Span(r, t.url, m)
  BY <1>1, <1>2, HFront
<1>5. u = [t EXCEPT !.pc = "loop", !.out = s]
  BY DEF PassedOn
<1>. HIDE DEF r, m
<1>6. s \in Seq(Byte) /\ Len(s) = m + Len(r) /\ Span(s, t.url, 0)
  <2>1. 0 \in Int /\ m = 0 + Len(t.out) /\ m \in Int
    BY <1>3 DEF m
  <2>2. s \in Seq(Byte) /\ Len(s) = Len(t.out) + Len(r) /\ Span(s, t.url, 0)
    BY <1>1, <1>2, <1>3, <1>4, <2>1, HSpanCat
  <2>. QED
    BY <2>2 DEF m
<1>7. Len(s) = t.got /\ Len(s) <= Size(t)
  <2>1. Size(t) \in Nat
    BY HSizes
  <2>. QED
    BY <1>1, <1>2, <1>3, <1>6, <2>1
<1>. HIDE DEF s
<1>8. /\ u \in Tasks /\ u.pc = "loop" /\ u.method = t.method /\ u.url = t.url
      /\ u.whole = t.whole /\ u.inp = t.inp /\ u.sz = t.sz /\ u.got = t.got
      /\ u.out = s /\ u.gone = t.gone /\ u.con = t.con /\ u.srv = t.srv
  BY <1>5, <1>6, Zenon DEF Tasks, Points
<1>9. Size(u) = Size(t) /\ Placed(u)
  BY <1>8 DEF Size, Placed
<1>10. QPair(u, c)
  BY <1>6, <1>7, <1>8, <1>9 DEF QSide, QPair, Between
<1>11. QProxy(u, b, x, y) /\ QServer(u, a)
  BY <1>2, <1>7, <1>8, <1>9 DEF QSide, QServer, QProxy, QPassing
<1>. QED
  BY <1>3, <1>4, <1>6, <1>8, <1>9, <1>10, <1>11 DEF QSide, r, m

\* The client is sent what continues what it was sent before.
LEMMA QFeeds ==
  ASSUME NEW c \in Tasks, NEW b, NEW m \in Nat, QClient(c, b, m), NEW r \in Seq(Byte),
         c.pc \notin {"idle", "done"}, Span(r, c.url, m), NEW d, d = Fed(c, r), Placed(c), c.url \in Urls
  PROVE  /\ d \in Tasks /\ Placed(d) /\ QClient(d, b, m + Len(r))
         /\ d.pc = c.pc /\ d.url = c.url /\ d.method = c.method /\ d.gone = c.gone
         /\ d.whole = c.whole /\ d.out = c.out
<1>. DEFINE s == c.inp \o r
<1>1. c.inp \in Seq(Byte) /\ Len(c.inp) \in Nat /\ Len(r) \in Nat
  <2>1. c.inp \in Seq(Byte)
    BY Zenon DEF Tasks
  <2>. QED
    BY <2>1, HEmpty
<1>2. /\ s \in Seq(Byte) /\ Len(s) = Len(c.inp) + Len(r)
      /\ \A i \in Int : Span(c.inp, c.url, i) /\ m = i + Len(c.inp) => Span(s, c.url, i)
  <2>1. ASSUME NEW i \in Int, Span(c.inp, c.url, i), m = i + Len(c.inp) PROVE Span(s, c.url, i)
    <3>1. m \in Int
      OBVIOUS
    <3>. QED
      BY <1>1, <2>1, <3>1, HSpanCat
  <2>2. s \in Seq(Byte) /\ Len(s) = Len(c.inp) + Len(r)
    BY <1>1
  <2>. HIDE DEF s
  <2>. QED
    BY <2>1, <2>2
<1>3. Len(s) = Len(c.inp) + Len(r)
  BY <1>2
<1>4. d = [c EXCEPT !.inp = s]
  BY DEF Fed
<1>. HIDE DEF s
<1>5. /\ d \in Tasks /\ d.pc = c.pc /\ d.url = c.url /\ d.method = c.method /\ d.gone = c.gone
      /\ d.whole = c.whole /\ d.out = c.out /\ d.n = c.n /\ d.sz = c.sz /\ d.got = c.got
      /\ d.inp = s /\ d.bufD = c.bufD
  BY <1>2, <1>4, Zenon DEF Tasks
<1>6. Placed(d) /\ Size(d) = Size(c) /\ Skipped(d) = Skipped(c)
  BY <1>5 DEF Placed, Size, Skipped
<1>7. c.n \in Nat /\ c.got \in Int /\ Skipped(c) \in Nat
  <2>1. c.n \in Nat /\ c.got \in Int
    BY Zenon DEF Tasks
  <2>2. Skipped(c) \in Nat
    BY HLengths DEF Skipped
  <2>. QED
    BY <2>1, <2>2
<1>8. c.pc = "first" => Len(s) = m + Len(r) /\ Span(s, c.url, 0)
  <2>. SUFFICES ASSUME c.pc = "first" PROVE Len(s) = m + Len(r) /\ Span(s, c.url, 0)
    OBVIOUS
  <2>1. Len(c.inp) = m /\ Span(c.inp, c.url, 0) /\ 0 \in Int /\ m = 0 + Len(c.inp)
    BY DEF QClient
  <2>. QED
    BY <1>2, <2>1
<1>9. c.pc = "size" => c.n + Len(s) = m + Len(r) /\ Span(s, c.url, c.n)
  <2>. SUFFICES ASSUME c.pc = "size" PROVE c.n + Len(s) = m + Len(r) /\ Span(s, c.url, c.n)
    OBVIOUS
  <2>1. c.n + Len(c.inp) = m /\ Span(c.inp, c.url, c.n)
    BY DEF QClient
  <2>2. c.n \in Int
    BY <1>7
  <2>3. Span(s, c.url, c.n)
    BY <1>2, <2>1, <2>2
  <2>4. c.n + Len(s) = m + Len(r)
    <3>1. c.n + Len(c.inp) = m /\ c.n \in Nat
      BY <1>7, <2>1
    <3>. DEFINE n == c.n
                k == Len(c.inp)
                l == Len(r)
    <3>2. n \in Nat /\ k \in Nat /\ l \in Nat /\ n + k = m /\ Len(s) = k + l
      BY <1>1, <1>3, <3>1
    <3>. HIDE DEF n, k, l
    <3>3. n + Len(s) = m + l
      BY <3>2
    <3>. QED
      BY <3>3 DEF n, l
  <2>. QED
    BY <2>3, <2>4
<1>10. c.whole /\ c.pc \in {"pass", "loop", "clear", "more"} =>
        /\ Skipped(c) + c.got + Len(s) = m + Len(r) /\ Span(s, c.url, Skipped(c) + c.got)
  <2>. SUFFICES ASSUME c.whole, c.pc \in {"pass", "loop", "clear", "more"}
                PROVE  /\ Skipped(c) + c.got + Len(s) = m + Len(r)
                       /\ Span(s, c.url, Skipped(c) + c.got)
    OBVIOUS
  <2>. DEFINE i == Skipped(c) + c.got
  <2>1. i + Len(c.inp) = m /\ Span(c.inp, c.url, i)
    BY DEF QClient
  <2>2. i \in Int
    BY <1>7
  <2>. HIDE DEF i
  <2>3. Span(s, c.url, i)
    BY <1>2, <2>1, <2>2
  <2>4. i + Len(s) = m + Len(r)
    BY <1>1, <1>3, <2>1, <2>2
  <2>. QED
    BY <2>3, <2>4 DEF i
<1>11. QClient(d, b, m + Len(r))
  BY <1>5, <1>6, <1>8, <1>9, <1>10 DEF QClient, NotMisled
<1>. QED
  BY <1>5, <1>6, <1>11

\* send, as an action of both.
LEMMA QProxySends ==
  ASSUME HInv, prog = "1", UNCHANGED <<listVars, cvars>>, SendOn(4, "loop")
  PROVE  HInv'
<1>. DEFINE t == task[4]
            c == task[3]
            b == Buf(4)
            r == SubSeq(b, 1, t.n)
            a == addr[Home[4]]
            x == Finished
            y == Rightly
            u == PassedOn(t, b, "loop")
            d == Fed(c, r)
<1>1. /\ 3 \in Fetchers /\ 4 \in Fetchers /\ HTaskOK /\ Home[4] # Home[3]
      /\ QSide(t, b, a, c, x, y) /\ QEnding(c, x, y) /\ t.url \in Urls /\ t.method \in Methods
      /\ t \in Tasks /\ Placed(t) /\ b \in [1 .. BufSize -> Byte] /\ b = buf[Home[4]]
      /\ c \in Tasks /\ Placed(c) /\ QClient(c, buf[Home[3]], Len(t.out))
      /\ t.pc = "pass" /\ Client[4] = 3
  BY QBasics, HTask, HConstants DEF SendOn, At, Buf
<1>2. ~ t.gone /\ c.pc # "idle" /\ c.url = t.url
  BY <1>1 DEF QSide, QPair
<1>3. Left(4) <=> x
  BY <1>1, <1>2 DEF Left, Finished
<1>4. CASE Left(4) /\ Exit(4)
  BY <1>4, HExit, QStill DEF Exit
<1>5. CASE Left(4) /\ Goes(4, [t EXCEPT !.pc = "loop"])
  <2>1. /\ "loop" \in Points /\ t.pc \notin Between \cup {"done"}
        /\ "loop" \notin {"size", "hdr", "copy", "write1", "pass", "keep", "clear1", "back"}
    BY <1>1 DEF Points, Between
  <2>2. /\ HTaskOK' /\ OthersStay(4) /\ buf' = buf /\ addr' = addr /\ up' = up
        /\ \A g \in Fetchers \ {4} : task'[g] = task[g]
        /\ task'[4] = [t EXCEPT !.pc = "loop"]
    BY <1>1, <1>5, <2>1, HMoveOn DEF Goes
  <2>3. task'[4] \in Tasks
    BY <1>1, <2>2, Zenon DEF HTaskOK
  <2>4. QSide(task'[4], b, a, c, x, y) /\ task'[4].out = t.out /\ task'[4].pc # "idle"
    BY <1>1, <1>3, <1>5, <2>2, <2>3, QTurns
  <2>. QED
    BY <1>1, <2>2, <2>4, QProxyStep
<1>6. ASSUME ~ Left(4),
             task' = [g \in Fetchers |->
                        CASE g = 4 -> [task[4] EXCEPT !.pc = "loop", !.out = @ \o Sent(4)]
                          [] g # 4 /\ g = Client[4] -> [task[g] EXCEPT !.inp = @ \o Sent(4)]
                          [] OTHER -> task[g]],
             UNCHANGED <<buf, addr, up>>
      PROVE  HInv'
  <2>1. /\ u \in Tasks /\ Placed(u) /\ QSide(u, b, a, c, x, y) /\ u.pc # "idle"
        /\ r \in Seq(Byte) /\ Len(t.out) \in Nat
        /\ Span(r, t.url, Len(t.out)) /\ Len(u.out) = Len(t.out) + Len(r)
    <3>1. ~ x
      BY <1>3, <1>6
    <3>. HIDE DEF t, c, b, u, a, x, y
    <3>2. u = PassedOn(t, b, "loop")
      BY DEF u
    <3>. QED
      BY <1>1, <3>1, <3>2, QSends
  <2>2. /\ d \in Tasks /\ Placed(d) /\ QClient(d, buf[Home[3]], Len(t.out) + Len(r))
        /\ d.pc = c.pc /\ d.url = c.url /\ d.method = c.method /\ d.gone = c.gone
        /\ d.whole = c.whole /\ d.out = c.out
    <3>1. c.pc \notin {"idle", "done"}
      BY <1>1, <1>2, <1>3, <1>6 DEF QEnding
    <3>. HIDE DEF t, c, r, d, x, y, a
    <3>2. d = Fed(c, r)
      BY DEF d
    <3>. QED
      BY <1>1, <1>2, <2>1, <3>1, <3>2, QFeeds
  <2>3. /\ task'[4] = u /\ task'[3] = d /\ \A g \in Fetchers \ {3, 4} : task'[g] = task[g]
        /\ 1 \in Fetchers \ {3, 4} /\ 2 \in Fetchers \ {3, 4}
    BY <1>1, <1>6, HConstants DEF PassedOn, Fed, Sent
  <2>. HIDE DEF u, d, t, c, r, b, a, x, y
  <2>4. HTaskOK'
    <3>1. \A g \in Fetchers : task[g] \in Tasks /\ Placed(task[g])
      BY <1>1, Zenon DEF HTaskOK
    <3>2. DOMAIN task' = Fetchers /\ task' = [g \in Fetchers |-> task'[g]]
      BY <1>6
    <3>3. \A g \in Fetchers : task'[g] \in Tasks /\ Placed(task'[g])
      BY <2>1, <2>2, <2>3, <3>1
    <3>. QED
      BY <1>1, <1>6, <3>2, <3>3, Zenon DEF HTaskOK
  <2>5. QSide(u, b, a, d, Finished', Rightly')
    <3>1. QSide(u, b, a, d, x, y)
      BY <2>1, <2>2 DEF QSide, QPair
    <3>2. (Finished' <=> x) /\ (Rightly' <=> y)
      BY <1>6, <2>2, <2>3 DEF Finished, Rightly, c, x, y
    <3>. QED
      BY <3>1, <3>2 DEF QSide, QProxy
  <2>6. OneInv'
    <3>1. prog' = prog /\ buf'[Home[4]] = b /\ buf' = buf /\ addr'[Home[4]] = a
      BY <1>1, <1>6 DEF listVars, a
    <3>. QED
      BY <1>1, <2>1, <2>2, <2>3, <2>5, <3>1, QOneInv
  <2>. QED
    BY <2>3, <2>4, <2>6, QRest
<1>. QED
  BY <1>4, <1>5, <1>6 DEF SendOn

\* main of 7/1.cpp.
LEMMA QMain ==
  ASSUME HInv, prog = "1", UNCHANGED <<listVars, cvars>>, main1(4)
  PROVE  HInv'
<1>. DEFINE t == task[4]
            c == task[3]
            b == Buf(4)
            a == addr[Home[4]]
            x == Finished
            y == Rightly
<1>1. /\ 3 \in Fetchers /\ 4 \in Fetchers /\ HTaskOK /\ Home[4] # Home[3]
      /\ QSide(t, b, a, c, x, y) /\ t \in Tasks /\ Placed(t) /\ b = buf[Home[4]]
      /\ c \in Tasks /\ Placed(c) /\ Client[4] = 3
      /\ t.pc \notin {"idle", "done"} => t.url \in Urls /\ t.method \in Methods
  BY QBasics, HTask, HConstants
<1>2. CASE Exit(4)
  BY <1>2, HExit, QStill DEF Exit
<1>3. ASSUME At(4, "idle"), c.pc = "first",
             Goes(4, [t EXCEPT !.pc = "request", !.method = c.method, !.url = c.url])
      PROVE  HInv'
  <2>. DEFINE m == c.method
              o == c.url
              u == [t EXCEPT !.pc = "request", !.method = m, !.url = o]
  <2>1. m \in AnyMethod /\ o \in Urls /\ t.pc = "idle"
    BY <1>1, <1>3, Zenon DEF Placed, Between, Tasks, At
  <2>. HIDE DEF m, o
  <2>2. /\ u \in Tasks /\ u.pc = "request" /\ u.method = m /\ u.url = o /\ u.inp = t.inp
        /\ u.out = t.out /\ u.gone = t.gone /\ u.con = t.con
    BY <1>1, <2>1, Zenon DEF Tasks, Points
  <2>3. Placed(u)
    BY <2>1, <2>2 DEF Placed
  <2>4. Goes(4, u)
    BY <1>3 DEF m, o
  <2>. HIDE DEF u, t, x, y, a
  <2>5. HTaskOK' /\ OthersStay(4) /\ buf' = buf /\ addr' = addr /\ up' = up /\ task'[4] = u /\ task'[3] = c
    BY <1>1, <2>2, <2>3, <2>4, HGoes DEF Goes
  <2>6. Size(u) \in Nat
    BY <2>1, <2>2, HSizes
  <2>7. t.inp = <<>> /\ t.out = <<>> /\ ~ t.gone /\ ~ c.gone
    BY <1>1, <2>1 DEF QSide, QPair
  <2>8. QSide(u, b, a, c, x, y)
    <3>1. Len(u.out) = 0 /\ Span(u.out, u.url, 0)
      BY <2>2, <2>7, HEmpty
    <3>2. Len(u.out) <= Size(u)
      BY <2>6, <3>1
    <3>. QED
      BY <1>1, <1>3, <2>2, <2>7, <3>1, <3>2 DEF QSide, QPair, QServer, QProxy, QPassing, Between, m, o
  <2>. QED
    BY <1>1, <2>2, <2>5, <2>8, QProxyStep DEF t, a, x, y
<1>4. ASSUME At(4, "request"), NEW q \in {"resolve", "hang"}, Goes(4, [t EXCEPT !.pc = q])
      PROVE  HInv'
  <2>1. t.pc = "request"
    BY <1>4 DEF At
  <2>2. /\ q \in Points /\ t.pc \notin Between \cup {"done"}
        /\ q \notin {"size", "hdr", "copy", "write1", "pass", "keep", "clear1", "back"}
    BY <2>1 DEF Points, Between
  <2>3. /\ HTaskOK' /\ OthersStay(4) /\ buf' = buf /\ addr' = addr /\ up' = up
        /\ \A g \in Fetchers \ {4} : task'[g] = task[g]
        /\ task'[4] = [t EXCEPT !.pc = q]
    BY <1>1, <1>4, <2>2, HMoveOn DEF Goes
  <2>. DEFINE u == [t EXCEPT !.pc = q]
  <2>4. /\ u.pc = q /\ u.method = t.method /\ u.url = t.url /\ u.inp = t.inp
        /\ u.out = t.out /\ u.gone = t.gone /\ u.con = t.con
    BY <1>1, Zenon DEF Tasks
  <2>. HIDE DEF u, x, y, a
  <2>5. QSide(u, b, a, c, x, y)
    BY <1>1, <2>1, <2>4 DEF QSide, QPair, QServer, QProxy, QPassing, Between, Size
  <2>. QED
    BY <1>1, <2>3, <2>4, <2>5, QProxyStep DEF u, x, y, a
<1>5. ASSUME At(4, "close"), task' = [task EXCEPT ![4].pc = "done"],
             UNCHANGED <<buf, addr>>, up' = up \ {Home[4]}
      PROVE  HInv'
  <2>. DEFINE u == [t EXCEPT !.pc = "done"]
  <2>1. t.pc = "close" /\ task' = [task EXCEPT ![4] = u]
    BY <1>5 DEF At
  <2>2. /\ u \in Tasks /\ u.pc = "done" /\ u.method = t.method /\ u.url = t.url /\ u.inp = t.inp
        /\ u.out = t.out /\ u.gone = t.gone /\ u.whole = t.whole
        /\ u.con = t.con /\ u.srv = t.srv
    BY <1>1, Zenon DEF Tasks, Points
  <2>3. Placed(u)
    BY <2>2 DEF Placed
  <2>. HIDE DEF u, x, y, a
  <2>4. task'[4] = u /\ \A g \in Fetchers \ {4} : task'[g] = task[g]
    BY <1>1, <2>1, Zenon DEF HTaskOK
  <2>5. HTaskOK' /\ OthersStay(4)
    <3>1. \A g \in Fetchers : task[g] \in Tasks /\ Placed(task[g])
      BY <1>1, Zenon DEF HTaskOK
    <3>2. \A g \in Fetchers : task'[g] \in Tasks /\ Placed(task'[g])
      BY <2>2, <2>3, <2>4, <3>1
    <3>3. task' \in [Fetchers -> Tasks]
      BY <1>1, <2>1, <2>2, Zenon DEF HTaskOK
    <3>. QED
      BY <1>1, <1>5, <2>4, <3>2, <3>3, Zenon DEF HTaskOK, OthersStay, Undisturbed
  <2>6. QSide(u, b, a, c, x, y)
    BY <1>1, <2>1, <2>2 DEF QSide, QPair, QServer, QProxy, QPassing, Between, Size
  <2>7. Home[3] \in up' <=> Home[3] \in up
    BY <1>1, <1>5
  <2>. QED
    BY <1>1, <1>5, <2>2, <2>4, <2>5, <2>6, <2>7, QProxyStep DEF x, y, a
<1>6. CASE ReadRequest(4, "resolve")
  <2>1. At(4, "request") => t.method \in Methods
    BY <1>1 DEF At
  <2>. QED
    BY <1>2, <1>4, <1>6, <2>1 DEF ReadRequest
<1>. QED
  BY <1>1, <1>2, <1>3, <1>5, <1>6 DEF main1

\* All that thread 4 does keeps the invariant.
LEMMA QProxyActs ==
  ASSUME HInv, prog = "1", UNCHANGED <<listVars, cvars>>, main1(4) \/ parseReq1(4)
  PROVE  HInv'
<1>. DEFINE t == task[4]
            b == Buf(4)
<1>1. CASE NoContentLength(4)
  BY <1>1, HExit, QStill DEF NoContentLength, Exit
<1>2. ASSUME NEW s, Relay(4, s, "loop"), At(4, "size") /\ t.method = "GET" => HasLength(b),
             s = (IF t.method = "GET" THEN Length(b) + getHeaderLen(b) ELSE getHeaderLen(b))
      PROVE  HInv'
  BY <1>2, QProxyWork, QProxyMeasures, QProxySends DEF Relay
<1>3. CASE Loop(4, "close")
  BY <1>3, QProxyWork DEF Loop
<1>4. CASE parseReqGET1(4)
  <2>1. t.method = "GET" /\ (At(4, "size") => HasLength(b)) /\
          Relay(4, Length(b) + getHeaderLen(b), "loop") => HInv'
    BY <1>2
  <2>. QED
    BY <1>1, <1>3, <1>4, <2>1 DEF parseReqGET1, parseHeader1
<1>5. CASE parseReqHEAD1(4)
  <2>1. t.method = "HEAD" /\ Relay(4, getHeaderLen(b), "loop") => HInv'
    BY <1>2
  <2>. QED
    BY <1>3, <1>5, <2>1 DEF parseReqHEAD1
<1>. QED
  BY <1>4, <1>5, QMain DEF parseReq1

-----------------------------------------------------------------------------
(* The client of 7/1.cpp, thread 3.                                        *)

\* The first chunk.
LEMMA CFirst ==
  ASSUME NEW c \in Tasks, NEW u \in Tasks, NEW b, NEW d, NEW m, QClient(c, b, m), c.pc = "first",
         u = [c EXCEPT !.pc = "size", !.n = u.n, !.inp = u.inp, !.whole = u.whole],
         u.n + Len(u.inp) = Len(c.inp),
         Span(c.inp, c.url, 0) => Span(u.inp, c.url, u.n) /\ Holds(d, c.url, 0, u.n),
         u.whole => c.whole /\ HeaderLen[c.url] <= u.n /\ NotMisled(u, d)
  PROVE  QClient(u, d, m)
<1>1. u.pc = "size" /\ u.url = c.url /\ u.method = c.method /\ u.out = c.out
  BY Zenon DEF Tasks
<1>. QED
  BY <1>1 DEF QClient

\* The next chunk.
LEMMA CReceives ==
  ASSUME NEW c \in Tasks, NEW u \in Tasks, c.url \in Urls, NEW b, NEW d, NEW m, QClient(c, b, m),
         c.pc = "more",
         u = [c EXCEPT !.pc = "pass", !.n = u.n, !.inp = u.inp, !.got = u.got],
         u.n + Len(u.inp) = Len(c.inp), u.got = c.got + u.n,
         \A i \in Int : Span(c.inp, c.url, i) =>
           Span(u.inp, c.url, i + u.n) /\ Holds(d, c.url, i, u.n)
  PROVE  QClient(u, d, m)
<1>1. /\ u.pc = "pass" /\ u.url = c.url /\ u.method = c.method /\ u.out = c.out
      /\ u.sz = c.sz /\ u.whole = c.whole
  BY Zenon DEF Tasks
<1>2. Size(u) = Size(c) /\ Skipped(u) = Skipped(c)
  BY <1>1 DEF Size, Skipped
<1>. SUFFICES ASSUME c.whole
              PROVE  /\ Skipped(c) + c.sz = Size(c) /\ Skipped(c) + u.got + Len(u.inp) = m
                     /\ Span(c.out, c.url, Skipped(c)) /\ Span(u.inp, c.url, Skipped(c) + u.got)
                     /\ Len(c.out) + u.n = u.got
                     /\ Holds(d, c.url, Skipped(c) + Len(c.out), u.n)
  BY <1>1, <1>2 DEF QClient
<1>3. /\ Skipped(c) + c.sz = Size(c) /\ Skipped(c) + c.got + Len(c.inp) = m
      /\ Span(c.out, c.url, Skipped(c)) /\ Span(c.inp, c.url, Skipped(c) + c.got)
      /\ Len(c.out) = c.got
  BY DEF QClient
<1>4. c.got \in Int /\ Skipped(c) \in Int /\ Len(c.inp) \in Int
  <2>1. c.got \in Int /\ c.inp \in Seq(Byte)
    BY Zenon DEF Tasks
  <2>2. Skipped(c) \in Int
    BY HLengths DEF Skipped
  <2>. QED
    BY <2>1, <2>2, HEmpty
<1>5. u.n \in Int /\ Len(u.inp) \in Int
  <2>1. u.n \in Nat
    BY Zenon DEF Tasks
  <2>2. u.inp \in Seq(Byte)
    BY Zenon DEF Tasks
  <2>. QED
    BY <2>1, <2>2, HEmpty
<1>6. /\ Skipped(c) + u.got + Len(u.inp) = m
      /\ Skipped(c) + u.got = (Skipped(c) + c.got) + u.n
      /\ Len(c.out) + u.n = u.got
  <2>. DEFINE k == Skipped(c)
              g == c.got
              n == u.n
              x == Len(c.inp)
              y == Len(u.inp)
  <2>1. /\ k \in Int /\ g \in Int /\ n \in Int /\ x \in Int /\ y \in Int
        /\ n + y = x /\ k + g + x = m /\ u.got = g + n /\ Len(c.out) = g
    BY <1>3, <1>4, <1>5
  <2>. HIDE DEF k, g, n, x, y
  <2>2. k + u.got + y = m
    BY <2>1
  <2>3. k + u.got = (k + g) + n
    BY <2>1
  <2>4. Len(c.out) + n = u.got
    BY <2>1
  <2>. QED
    BY <2>2, <2>3, <2>4 DEF k, g, n, y
<1>7. /\ Span(u.inp, c.url, (Skipped(c) + c.got) + u.n)
      /\ Holds(d, c.url, Skipped(c) + c.got, u.n)
  BY <1>3, <1>4
<1>. QED
  BY <1>3, <1>6, <1>7

\* Once round the loop, or out of it.
LEMMA CTurns ==
  ASSUME NEW c \in Tasks, NEW u \in Tasks, NEW b, NEW d, NEW m, QClient(c, b, m),
         \/ c.pc = "loop" /\ u = [c EXCEPT !.pc = "clear"]
         \/ c.pc = "clear" /\ u = [c EXCEPT !.pc = "more"]
         \/ c.pc = "loop" /\ c.got >= c.sz /\ u = [c EXCEPT !.pc = "done"]
  PROVE  QClient(u, d, m)
<1>1. /\ u.url = c.url /\ u.method = c.method /\ u.out = c.out /\ u.inp = c.inp
      /\ u.sz = c.sz /\ u.got = c.got /\ u.whole = c.whole
      /\ u.pc \in {"clear", "more", "done"} /\ c.pc \in {"loop", "clear"}
      /\ u.pc = "done" => c.got >= c.sz
  BY Zenon DEF Tasks
<1>2. Size(u) = Size(c) /\ Skipped(u) = Skipped(c)
  BY <1>1 DEF Size, Skipped
<1>. QED
  BY <1>1, <1>2 DEF QClient

\* oFile.write
LEMMA CWrites ==
  ASSUME NEW c \in Tasks, Placed(c), NEW b \in [1 .. BufSize -> Byte], NEW m, QClient(c, b, m),
         c.pc = "pass", NEW u, u = PassedOn(c, b, "loop")
  PROVE  u \in Tasks /\ Placed(u) /\ QClient(u, b, m) /\ u.pc = "loop" /\ u.url = c.url
         /\ u.method = c.method /\ u.gone = c.gone /\ u.whole = c.whole /\ u.inp = c.inp
<1>. DEFINE r == SubSeq(b, 1, c.n)
            s == c.out \o r
<1>1. /\ c.n \in Nat /\ c.n <= BufSize /\ c.got \in Int /\ c.out \in Seq(Byte)
      /\ Skipped(c) \in Int
  <2>1. c.n \in Nat /\ c.n <= BufSize /\ c.got \in Int /\ c.out \in Seq(Byte)
    BY Zenon DEF Placed, Tasks
  <2>2. c.url \in Urls
    BY DEF Placed, Between
  <2>3. Skipped(c) \in Int
    BY <2>2, HLengths DEF Skipped
  <2>. QED
    BY <2>1, <2>3
<1>2. r \in Seq(Byte) /\ Len(r) = c.n /\ Len(c.out) \in Nat
  BY <1>1, HFront, HEmpty
<1>3. u = [c EXCEPT !.pc = "loop", !.out = s]
  BY DEF PassedOn
<1>4. ASSUME c.whole PROVE Len(s) = c.got /\ Span(s, c.url, Skipped(c))
  <2>1. /\ Len(c.out) + c.n = c.got /\ Holds(b, c.url, Skipped(c) + Len(c.out), c.n)
        /\ Span(c.out, c.url, Skipped(c))
    BY <1>4 DEF QClient
  <2>. DEFINE i == Skipped(c) + Len(c.out)
  <2>2. i \in Int /\ i = Skipped(c) + Len(c.out)
    BY <1>1, <1>2
  <2>. HIDE DEF i
  <2>3. Span(r, c.url, i)
    BY <1>1, <2>1, <2>2, HFront
  <2>. HIDE DEF r
  <2>4. Len(s) = Len(c.out) + Len(r) /\ Span(s, c.url, Skipped(c))
    BY <1>1, <1>2, <2>1, <2>2, <2>3, HSpanCat
  <2>. QED
    BY <1>2, <2>1, <2>4
<1>5. s \in Seq(Byte)
  <2>. HIDE DEF r
  <2>. QED
    BY <1>1, <1>2
<1>. HIDE DEF s
<1>6. /\ u \in Tasks /\ u.pc = "loop" /\ u.method = c.method /\ u.url = c.url
      /\ u.whole = c.whole /\ u.inp = c.inp /\ u.sz = c.sz /\ u.got = c.got
      /\ u.out = s /\ u.gone = c.gone
  BY <1>3, <1>5, Zenon DEF Tasks, Points
<1>7. Placed(u) /\ Size(u) = Size(c) /\ Skipped(u) = Skipped(c)
  <2>1. c.url \in Urls
    BY DEF Placed, Between
  <2>2. Placed(u)
    BY <1>6, <2>1 DEF Placed
  <2>3. Size(u) = Size(c) /\ Skipped(u) = Skipped(c)
    BY <1>6 DEF Size, Skipped
  <2>. QED
    BY <2>2, <2>3
<1>8. QClient(u, b, m)
  BY <1>4, <1>6, <1>7 DEF QClient
<1>. QED
  BY <1>6, <1>7, <1>8

\* What getReq and headReq make of the first chunk.
GotFirst(c, b) ==
  LET h == getHeaderLen(b)
      t == [c EXCEPT !.sz = Length(b) + h, !.hdr = h]
  IN  [t EXCEPT !.pc = "loop", !.sz = Rest(t), !.got = t.n - h,
                !.out = SubSeq(b, h + 1, t.n)]

HeadGot(c, b) ==
  LET h == getHeaderLen(b)
  IN  [c EXCEPT !.pc = "loop", !.sz = h, !.got = c.n,
                !.out = [i \in 1 .. c.n |-> IF i <= h THEN b[i] ELSE Zero]]

\* getReq: the bytes behind the header go to the file.
LEMMA CGets ==
  ASSUME NEW c \in Tasks, Placed(c), NEW b \in [1 .. BufSize -> Byte], NEW m, QClient(c, b, m),
         c.pc = "size", c.method = "GET", HasLength(b), getHeaderLen(b) <= c.n,
         NEW u, u = GotFirst(c, b)
  PROVE  u \in Tasks /\ Placed(u) /\ QClient(u, b, m) /\ u.pc = "loop" /\ u.url = c.url
         /\ u.method = c.method /\ u.gone = c.gone /\ u.whole = c.whole /\ u.inp = c.inp
<1>. DEFINE h == getHeaderLen(b)
            k == Length(b) + h
            t == [c EXCEPT !.sz = k, !.hdr = h]
            z == Rest(t)
            g == t.n - h
            s == SubSeq(b, h + 1, t.n)
<1>1. c.n \in Nat /\ c.n <= BufSize /\ c.url \in Urls /\ c.inp \in Seq(Byte)
  <2>1. c.n \in Nat /\ c.n <= BufSize /\ c.inp \in Seq(Byte)
    BY Zenon DEF Placed, Tasks
  <2>2. c.url \in Urls
    BY DEF Placed, Between
  <2>. QED
    BY <2>1, <2>2
<1>2. h \in Nat /\ h <= c.n /\ Length(b) \in Nat
  BY HReadTypes
<1>3. u = [t EXCEPT !.pc = "loop", !.sz = z, !.got = g, !.out = s]
  BY DEF GotFirst
<1>4. c.whole => h = HeaderLen[c.url] /\ Length(b) = BodyLen[c.url] /\ HeaderLen[c.url] <= c.n
                 /\ Holds(b, c.url, 0, c.n)
  <2>. SUFFICES ASSUME c.whole
                PROVE  h = HeaderLen[c.url] /\ Length(b) = BodyLen[c.url] /\ HeaderLen[c.url] <= c.n
                       /\ Holds(b, c.url, 0, c.n)
    OBVIOUS
  <2>1. HeaderLen[c.url] <= c.n /\ NotMisled(c, b) /\ Holds(b, c.url, 0, c.n)
    BY DEF QClient
  <2>. QED
    BY <1>1, <2>1, HReadHeader DEF NotMisled
<1>. HIDE DEF h
<1>5. k \in Int /\ k - h = Length(b)
  BY <1>2
<1>. HIDE DEF k
<1>6. /\ t \in Tasks /\ t.sz = k /\ t.hdr = h /\ t.n = c.n /\ t.url = c.url /\ t.inp = c.inp
      /\ t.method = c.method /\ t.gone = c.gone /\ t.whole = c.whole
  BY <1>2, <1>5, Zenon DEF Tasks
<1>. HIDE DEF t
<1>7. z \in Int /\ z = Length(b)
  BY <1>2, <1>5, <1>6 DEF Rest
<1>8. g \in Int /\ g + h = c.n
  BY <1>1, <1>2, <1>6
<1>9. s \in Seq(Byte) /\ Len(s) = g
  BY <1>1, <1>2, <1>6, HPart
<1>10. c.whole => Span(s, c.url, HeaderLen[c.url])
  <2>. SUFFICES ASSUME c.whole PROVE Span(s, c.url, HeaderLen[c.url])
    OBVIOUS
  <2>1. Span(SubSeq(b, h + 1, c.n), c.url, 0 + h)
    BY <1>1, <1>2, <1>4, HPartSpan
  <2>2. 0 + h = HeaderLen[c.url]
    BY <1>2, <1>4
  <2>. QED
    BY <1>6, <2>1, <2>2
<1>. HIDE DEF s, g, z
<1>11. /\ u \in Tasks /\ u.pc = "loop" /\ u.method = c.method /\ u.url = c.url
       /\ u.whole = c.whole /\ u.inp = c.inp /\ u.gone = c.gone
       /\ u.sz = z /\ u.got = g /\ u.out = s
  <2>1. z \in Int /\ g \in Int /\ s \in Seq(Byte)
    BY <1>7, <1>8, <1>9
  <2>2. /\ t \in Tasks /\ t.url = c.url /\ t.inp = c.inp
        /\ t.method = c.method /\ t.gone = c.gone /\ t.whole = c.whole
    BY <1>6
  <2>3. /\ u \in Tasks /\ u.pc = "loop" /\ u.method = t.method /\ u.url = t.url
        /\ u.whole = t.whole /\ u.inp = t.inp /\ u.gone = t.gone
        /\ u.sz = z /\ u.got = g /\ u.out = s
    <3>1. t \in Tasks /\ "loop" \in Points
      BY <2>2 DEF Points
    <3>. QED
      BY <1>3, <2>1, <3>1, Zenon DEF Tasks
  <2>. QED
    BY <2>2, <2>3
<1>12. Placed(u)
  BY <1>1, <1>11 DEF Placed
<1>13. Size(u) = HeaderLen[c.url] + BodyLen[c.url] /\ Skipped(u) = HeaderLen[c.url]
       /\ HeaderLen[c.url] \in Nat /\ BodyLen[c.url] \in Nat
  BY <1>1, <1>11, HLengths DEF Size, Skipped
<1>14. c.n + Len(c.inp) = m /\ Span(c.inp, c.url, c.n) /\ Len(c.inp) \in Nat
  <2>1. c.n + Len(c.inp) = m /\ Span(c.inp, c.url, c.n)
    BY DEF QClient
  <2>. QED
    BY <1>1, <2>1, HEmpty
<1>15. c.whole => /\ HeaderLen[c.url] + z = Size(u) /\ HeaderLen[c.url] + g = c.n
                  /\ HeaderLen[c.url] + g + Len(c.inp) = m
  <2>. SUFFICES ASSUME c.whole
                PROVE  /\ HeaderLen[c.url] + z = Size(u) /\ HeaderLen[c.url] + g = c.n
                       /\ HeaderLen[c.url] + g + Len(c.inp) = m
    OBVIOUS
  <2>1. HeaderLen[c.url] + z = Size(u)
    BY <1>4, <1>7, <1>13
  <2>2. HeaderLen[c.url] + g = c.n
    BY <1>4, <1>8, <1>13
  <2>3. HeaderLen[c.url] + g + Len(c.inp) = m
    BY <1>14, <2>2
  <2>. QED
    BY <2>1, <2>2, <2>3
<1>16. QClient(u, b, m)
  BY <1>9, <1>10, <1>11, <1>13, <1>14, <1>15 DEF QClient
<1>. QED
  BY <1>11, <1>12, <1>16

\* A function on 1 .. n is a sequence of length n.
LEMMA HSequence ==
  ASSUME NEW n \in Nat, NEW s \in [1 .. n -> Byte]
  PROVE  s \in Seq(Byte) /\ Len(s) = n
<1>. QED
  OBVIOUS

\* headReq: the header is all it was sent.
LEMMA CHeads ==
  ASSUME NEW c \in Tasks, Placed(c), NEW b \in [1 .. BufSize -> Byte], NEW m, QClient(c, b, m),
         m <= Size(c), c.pc = "size", c.method = "HEAD", NEW u, u = HeadGot(c, b)
  PROVE  u \in Tasks /\ Placed(u) /\ QClient(u, b, m) /\ u.pc = "loop" /\ u.url = c.url
         /\ u.method = c.method /\ u.gone = c.gone /\ u.whole = c.whole /\ u.inp = c.inp
<1>. DEFINE h == getHeaderLen(b)
            s == [i \in 1 .. c.n |-> IF i <= h THEN b[i] ELSE Zero]
<1>1. c.n \in Nat /\ c.n <= BufSize /\ c.url \in Urls /\ c.inp \in Seq(Byte)
  <2>1. c.n \in Nat /\ c.n <= BufSize /\ c.inp \in Seq(Byte)
    BY Zenon DEF Placed, Tasks
  <2>2. c.url \in Urls
    BY DEF Placed, Between
  <2>. QED
    BY <2>1, <2>2
<1>2. h \in Nat /\ h \in Int /\ c.n \in Int
  BY <1>1, HReadTypes
<1>3. u = [c EXCEPT !.pc = "loop", !.sz = h, !.got = c.n, !.out = s]
  BY DEF HeadGot
<1>4. /\ c.n + Len(c.inp) = m /\ Span(c.inp, c.url, c.n) /\ Holds(b, c.url, 0, c.n)
      /\ c.whole => HeaderLen[c.url] <= c.n /\ NotMisled(c, b)
  BY DEF QClient
<1>5. c.whole => h = HeaderLen[c.url]
  <2>. HIDE DEF s
  <2>. QED
    BY <1>1, <1>4, HReadHeader DEF NotMisled
<1>. HIDE DEF h
<1>6. Size(c) = HeaderLen[c.url] /\ HeaderLen[c.url] \in Nat /\ Len(c.inp) \in Nat
  BY <1>1, HSizes, HLengths, HEmpty
<1>7. c.whole => c.n = HeaderLen[c.url]
  <2>. HIDE DEF s
  <2>. QED
    BY <1>1, <1>4, <1>6
<1>8. s \in Seq(Byte) /\ Len(s) = c.n
  <2>1. \A i \in 1 .. c.n : s[i] \in Byte
    <3>1. \A i \in 1 .. c.n : i \in 1 .. BufSize
      BY <1>1, HLengths
    <3>. QED
      BY <3>1, HZero
  <2>2. s \in [1 .. c.n -> Byte]
    BY <2>1
  <2>. HIDE DEF s
  <2>. QED
    BY <1>1, <2>2, HSequence
<1>9. c.whole => Span(s, c.url, 0)
  <2>. SUFFICES ASSUME c.whole, NEW i \in 1 .. c.n PROVE s[i] = <<c.url, 0 + i>>
    BY <1>8 DEF Span
  <2>1. i <= h
    BY <1>1, <1>5, <1>7
  <2>. QED
    BY <1>4, <2>1 DEF Holds
<1>. HIDE DEF s
<1>10. /\ u \in Tasks /\ u.pc = "loop" /\ u.method = c.method /\ u.url = c.url
       /\ u.whole = c.whole /\ u.inp = c.inp /\ u.gone = c.gone
       /\ u.sz = h /\ u.got = c.n /\ u.out = s
  BY <1>2, <1>3, <1>8, Zenon DEF Tasks, Points
<1>11. Placed(u) /\ Size(u) = Size(c) /\ Skipped(u) = 0
  BY <1>1, <1>10 DEF Placed, Size, Skipped
<1>12. c.whole => 0 + h = Size(c) /\ 0 + c.n + Len(c.inp) = m /\ 0 + c.n = c.n
  BY <1>1, <1>2, <1>4, <1>5, <1>6
<1>13. QClient(u, b, m)
  BY <1>4, <1>8, <1>9, <1>10, <1>11, <1>12 DEF QClient
<1>. QED
  BY <1>10, <1>11, <1>13

\* A step of the client.
LEMMA QClientStep ==
  ASSUME HInv, prog = "1", UNCHANGED <<listVars, cvars>>, HTaskOK', OthersStay(3),
         task'[4] = task[4], buf'[Home[4]] = buf[Home[4]], addr'[Home[4]] = addr[Home[4]],
         up' \subseteq up,
         NEW c, NEW u, c = task[3], u = task'[3], c.pc \notin {"idle", "done"},
         u.pc \in {"first", "size", "pass", "loop", "clear", "more", "done"}, u.url = c.url,
         u.method = c.method, u.gone = c.gone, u.whole => c.whole, c.inp = <<>> => u.inp = <<>>,
         QClient(u, buf'[Home[3]], Len(task[4].out))
  PROVE  HInv'
<1>1. task'[1] = task[1] /\ task'[2] = task[2] /\ prog' = prog
  BY QBasics DEF listVars
<1>2. /\ QSide(task[4], buf[Home[4]], addr[Home[4]], c, Finished, Rightly)
      /\ task[4].pc = "idle" => c.inp = <<>>
  BY QBasics DEF Buf
<1>3. (Finished => Finished') /\ (Rightly' => Rightly)
  BY DEF Finished, Rightly
<1>4. QPair(task[4], u) /\ QServer(task[4], addr[Home[4]])
  BY <1>2 DEF QSide, QPair, Between, Size
<1>5. QProxy(task[4], buf[Home[4]], Finished', Rightly')
  BY <1>2, <1>3 DEF QSide, QProxy
<1>6. QSide(task'[4], buf'[Home[4]], addr'[Home[4]], task'[3], Finished', Rightly')
  BY <1>4, <1>5 DEF QSide
<1>7. OneInv'
  BY <1>1, <1>2, <1>6, QOneInv
<1>. QED
  BY <1>1, <1>7, QRest

\* The request is sent to the proxy.
LEMMA QAsks ==
  ASSUME HInv, prog = "1", UNCHANGED <<listVars, cvars>>, Ask(3)
  PROVE  HInv'
<1>. DEFINE p == task[4]
            c == task[3]
<1>1. /\ 3 \in Fetchers /\ 4 \in Fetchers /\ HTaskOK /\ c \in Tasks /\ c.pc = "idle"
      /\ QPair(p, c) /\ QServer(p, addr[Home[4]])
  BY QBasics, HTask, Zenon DEF Ask, At, QSide
<1>0. CASE Exit(3)
  BY <1>0, HExit, QStill DEF Exit
<1>. SUFFICES ASSUME ~ Exit(3) PROVE HInv'
  BY <1>0
<1>2. PICK r \in Requests : /\ r.method \in Methods
                            /\ Goes(3, [c EXCEPT !.pc = "first", !.method = r.method,
                                                 !.url = r.url])
  BY Zenon DEF Ask
<1>. DEFINE m == r.method
            o == r.url
            u == [c EXCEPT !.pc = "first", !.method = m, !.url = o]
<1>3. m \in Methods /\ m \in AnyMethod /\ o \in Urls /\ Goes(3, u)
  BY <1>2, InputsAssumption DEF AnyMethod
<1>4. p.pc = "idle" /\ p.out = <<>> /\ c.inp = <<>> /\ c.out = <<>>
  BY <1>1 DEF QPair
<1>. HIDE DEF m, o
<1>5. /\ u \in Tasks /\ u.pc = "first" /\ u.method = m /\ u.inp = <<>> /\ u.out = <<>>
      /\ u.gone = c.gone /\ u.url = o
  BY <1>1, <1>3, <1>4, Zenon DEF Tasks, Points
<1>. HIDE DEF u
<1>6. Placed(u)
  BY <1>3, <1>5 DEF Placed
<1>7. /\ HTaskOK' /\ OthersStay(3) /\ buf' = buf /\ addr' = addr /\ task'[3] = u /\ task'[4] = p
      /\ prog' = prog
  <2>1. Goes(3, u) /\ u \in Tasks /\ Placed(u)
    BY <1>3, <1>5, <1>6
  <2>2. /\ HTaskOK' /\ OthersStay(3) /\ buf' = buf /\ task'[3] = u /\ task'[4] = p
    BY <1>1, <2>1, HGoes
  <2>. QED
    BY <2>1, <2>2 DEF listVars, Goes
<1>8. QPair(p, u)
  BY <1>1, <1>3, <1>4, <1>5 DEF QPair, Between
<1>9. QSide(p, buf[Home[4]], addr[Home[4]], u, Finished', Rightly')
  BY <1>1, <1>4, <1>8 DEF QSide, QProxy, QPassing
<1>10. QClient(u, buf[Home[3]], Len(p.out))
  <2>1. Len(u.inp) = 0 /\ Len(p.out) = 0 /\ Span(u.inp, u.url, 0)
    BY <1>4, <1>5, HEmpty
  <2>. QED
    BY <1>5, <2>1 DEF QClient
<1>11. OneInv'
  BY <1>5, <1>7, <1>9, <1>10, QOneInv
<1>. QED
  BY <1>7, <1>11, QBasics, QRest

\* What the clients have in common with the other programs.
LEMMA QClientWorks ==
  ASSUME HInv, prog = "1", UNCHANGED <<listVars, cvars>>,
         FirstChunk(3) \/ NextChunk(3) \/ Again(3) \/ Clear(3) \/ Enough(3, "done")
  PROVE  HInv'
<1>. DEFINE c == task[3]
            u == task'[3]
            b == buf[Home[3]]
            d == buf'[Home[3]]
            m == Len(task[4].out)
<1>1. /\ 3 \in Fetchers /\ 4 \in Fetchers /\ HTaskOK /\ Home[4] # Home[3]
      /\ c \in Tasks /\ Placed(c) /\ QClient(c, b, m)
  BY QBasics, HTask DEF Buf
<1>2. /\ task'[4] = task[4] /\ buf'[Home[4]] = buf[Home[4]] /\ addr'[Home[4]] = addr[Home[4]]
      /\ up' \subseteq up
  BY <1>1, QExchangeFar
<1>3. CASE Still
  BY <1>2, <1>3, QStill
<1>4. ASSUME HTaskOK' PROVE u \in Tasks
  BY <1>1, <1>4, Zenon DEF HTaskOK
<1>5. CASE FirstChunk(3)
  <2>. SUFFICES ASSUME ~ Still PROVE HInv'
    BY <1>3
  <2>1. /\ HTaskOK' /\ OthersStay(3) /\ c.pc = "first"
        /\ u = [c EXCEPT !.pc = "size", !.n = u.n, !.inp = u.inp, !.whole = u.whole]
        /\ u.n + Len(u.inp) = Len(c.inp)
        /\ Span(c.inp, c.url, 0) => Span(u.inp, c.url, u.n) /\ Holds(d, c.url, 0, u.n)
        /\ u.whole => c.whole /\ HeaderLen[c.url] <= u.n /\ NotMisled(u, d)
    BY <1>1, <1>5, HFirstChunk, Zenon
  <2>2. u \in Tasks
    BY <1>4, <2>1
  <2>. HIDE DEF u, c, b, d, m
  <2>3. QClient(u, d, m)
    BY <1>1, <2>1, <2>2, CFirst, Zenon
  <2>4. u.pc = "size" /\ u.url = c.url /\ u.method = c.method /\ u.gone = c.gone
    BY <1>1, <2>1, Zenon DEF Tasks
  <2>5. c.inp = <<>> => u.inp = <<>>
    <3>1. u.n \in Nat /\ u.inp \in Seq(Byte)
      BY <2>2, Zenon DEF Tasks
    <3>. QED
      BY <2>1, <3>1, HEmpty
  <2>. QED
    BY <1>2, <2>1, <2>3, <2>4, <2>5, QClientStep DEF u, c, d, m, Between
<1>6. CASE NextChunk(3)
  <2>. SUFFICES ASSUME ~ Still PROVE HInv'
    BY <1>3
  <2>1. /\ HTaskOK' /\ OthersStay(3) /\ c.pc = "more"
        /\ u = [c EXCEPT !.pc = "pass", !.n = u.n, !.inp = u.inp, !.got = u.got]
        /\ u.n + Len(u.inp) = Len(c.inp) /\ u.got = c.got + u.n
        /\ \A i \in Int : Span(c.inp, c.url, i) =>
             Span(u.inp, c.url, i + u.n) /\ Holds(d, c.url, i, u.n)
    BY <1>1, <1>6, HNextChunk, Zenon
  <2>2. u \in Tasks /\ c.url \in Urls
    BY <1>1, <1>4, <2>1 DEF Placed, Between
  <2>. HIDE DEF u, c, b, d, m
  <2>3. QClient(u, d, m)
    BY <1>1, <2>1, <2>2, CReceives, Zenon
  <2>4. u.pc = "pass" /\ u.url = c.url /\ u.method = c.method /\ u.gone = c.gone
        /\ u.whole = c.whole
    BY <1>1, <2>1, Zenon DEF Tasks
  <2>5. c.inp = <<>> => u.inp = <<>>
    <3>1. u.n \in Nat /\ u.inp \in Seq(Byte)
      BY <2>2, Zenon DEF Tasks
    <3>. QED
      BY <2>1, <3>1, HEmpty
  <2>. QED
    BY <1>2, <2>1, <2>3, <2>4, <2>5, QClientStep DEF u, c, d, m, Between
<1>7. CASE Again(3) \/ Clear(3) \/ Enough(3, "done")
  <2>1. /\ HTaskOK' /\ OthersStay(3)
        /\ \/ c.pc = "loop" /\ u = [c EXCEPT !.pc = "clear"]
           \/ c.pc = "clear" /\ u = [c EXCEPT !.pc = "more"]
           \/ c.pc = "loop" /\ c.got >= c.sz /\ u = [c EXCEPT !.pc = "done"]
    BY <1>1, <1>7, HAgain, HClear, HEnough
  <2>2. u \in Tasks
    BY <1>4, <2>1
  <2>. HIDE DEF u, c, b, d, m
  <2>3. QClient(u, d, m)
    BY <1>1, <2>1, <2>2, CTurns
  <2>4. /\ u.pc \in {"clear", "more", "done"} /\ u.url = c.url /\ u.method = c.method
        /\ u.gone = c.gone /\ u.whole = c.whole /\ u.inp = c.inp /\ c.pc \in {"loop", "clear"}
    BY <1>1, <2>1, Zenon DEF Tasks
  <2>. QED
    BY <1>2, <2>1, <2>3, <2>4, QClientStep DEF u, c, d, m, Between
<1>. QED
  BY <1>5, <1>6, <1>7

\* What they write, and how they count it.
LEMMA QClientWrites ==
  ASSUME HInv, prog = "1", UNCHANGED <<listVars, cvars>>,
         GetFirst(3) \/ HeadFirst(3) \/ Write(3)
  PROVE  HInv'
<1>. DEFINE p == task[4]
            c == task[3]
            b == Buf(3)
            m == Len(p.out)
<1>1. /\ 3 \in Fetchers /\ 4 \in Fetchers /\ HTaskOK /\ Home[4] # Home[3]
      /\ c \in Tasks /\ Placed(c) /\ QClient(c, b, m) /\ b \in [1 .. BufSize -> Byte]
      /\ b = buf[Home[3]] /\ QPair(p, c)
  BY QBasics, HTask DEF QSide
<1>2. ASSUME NEW u, Goes(3, u), u \in Tasks, Placed(u), QClient(u, b, m), u.pc = "loop",
             c.pc \notin {"idle", "done"}, u.url = c.url, u.method = c.method,
             u.gone = c.gone, u.whole = c.whole, u.inp = c.inp
      PROVE  HInv'
  <2>1. HTaskOK' /\ OthersStay(3) /\ task'[3] = u /\ buf' = buf /\ task'[4] = p /\ addr' = addr /\ up' = up
    BY <1>1, <1>2, HGoes
  <2>. QED
    BY <1>1, <1>2, <2>1, QClientStep DEF Between
<1>3. CASE GetFirst(3)
  <2>1. c.pc = "size" /\ c.method = "GET"
    BY <1>3 DEF GetFirst, At
  <2>2. CASE Exit(3)
    BY <2>2, HExit, QStill DEF Exit
  <2>3. ASSUME HasLength(b), ~ (c.n < getHeaderLen(b)), Goes(3, GotFirst(c, b)) PROVE HInv'
    <3>1. getHeaderLen(b) <= c.n
      <4>1. c.n \in Nat
        BY <1>1, Zenon DEF Tasks
      <4>. QED
        BY <1>1, <2>3, <4>1, HReadTypes
    <3>. DEFINE u == GotFirst(c, b)
    <3>2. u = GotFirst(c, b)
      OBVIOUS
    <3>. HIDE DEF p, c, b, m, u
    <3>3. u \in Tasks /\ Placed(u) /\ QClient(u, b, m) /\ u.pc = "loop" /\ u.url = c.url
          /\ u.method = c.method /\ u.gone = c.gone /\ u.whole = c.whole /\ u.inp = c.inp
      BY <1>1, <2>1, <2>3, <3>1, <3>2, CGets
    <3>. QED
      BY <1>2, <2>1, <2>3, <3>2, <3>3
  <2>. QED
    BY <1>3, <2>2, <2>3 DEF GetFirst, GotFirst
<1>4. CASE HeadFirst(3)
  <2>1. c.pc = "size" /\ c.method = "HEAD" /\ Goes(3, HeadGot(c, b))
    BY <1>4 DEF HeadFirst, At, HeadGot
  <2>2. m <= Size(c)
    <3>1. CASE p.pc = "idle"
      <4>1. m = 0 /\ c.url \in Urls
        BY <1>1, <2>1, <3>1, HEmpty DEF QPair, Placed, Between
      <4>2. Size(c) \in Nat
        BY <1>1, <4>1, HSizes
      <4>. QED
        BY <4>1, <4>2
    <3>2. CASE p.pc # "idle"
      BY <1>1, <3>2 DEF QPair, Size
    <3>. QED
      BY <3>1, <3>2
  <2>. DEFINE u == HeadGot(c, b)
  <2>3. u = HeadGot(c, b)
    OBVIOUS
  <2>. HIDE DEF p, c, b, m, u
  <2>4. u \in Tasks /\ Placed(u) /\ QClient(u, b, m) /\ u.pc = "loop" /\ u.url = c.url
        /\ u.method = c.method /\ u.gone = c.gone /\ u.whole = c.whole /\ u.inp = c.inp
    BY <1>1, <2>1, <2>2, <2>3, CHeads
  <2>. QED
    BY <1>2, <2>1, <2>3, <2>4
<1>5. CASE Write(3)
  <2>. DEFINE u == PassedOn(c, b, "loop")
  <2>1. c.pc = "pass" /\ Goes(3, u)
    BY <1>5 DEF Write, At, Sent, PassedOn
  <2>2. u = PassedOn(c, b, "loop")
    OBVIOUS
  <2>. HIDE DEF p, c, b, m, u
  <2>3. u \in Tasks /\ Placed(u) /\ QClient(u, b, m) /\ u.pc = "loop" /\ u.url = c.url
        /\ u.method = c.method /\ u.gone = c.gone /\ u.whole = c.whole /\ u.inp = c.inp
    BY <1>1, <2>1, <2>2, CWrites
  <2>. QED
    BY <1>2, <2>1, <2>3
<1>. QED
  BY <1>3, <1>4, <1>5

\* All that thread 3 does keeps the invariant.
LEMMA QClientActs ==
  ASSUME HInv, prog = "1", UNCHANGED <<listVars, cvars>>, Ask(3) \/ getReq(3) \/ headReq(3)
  PROVE  HInv'
<1>. QED
  BY QAsks, QClientWorks, QClientWrites DEF getReq, headReq, Receive, Repeat

-----------------------------------------------------------------------------
(* The invariant holds at the start, and every step keeps it.              *)

\* Nothing of the invariant moves, but what the handler prints.
LEMMA HUnmoved ==
  ASSUME HInv, Still, UNCHANGED <<listVars, cache, cacheMtx, visMtx, statsVis, seen, filler>>,
         \/ UNCHANGED <<report, up>>
         \/ prog = "cache" /\ up' = up \ {Home[1]} /\ (report' = statsVis \/ UNCHANGED report)
  PROVE  HInv'
<1>1. /\ task' = task /\ buf' = buf /\ addr' = addr /\ prog' = prog /\ line' = line /\ eof' = eof /\ mtx' = mtx
      /\ files' = files /\ fetched' = fetched /\ cache' = cache /\ cacheMtx' = cacheMtx
      /\ prog = "1" => up' = up
      /\ visMtx' = visMtx /\ statsVis' = statsVis /\ seen' = seen /\ filler' = filler
  BY DEF Still, listVars
<1>2. /\ HTypeOK /\ HRoles /\ ListInv /\ LineInv /\ ServerInv /\ ProxyInv /\ CacheInv /\ VisitInv /\ OneInv
  BY DEF HInv
<1>3. HTypeOK' /\ HRoles'
  BY <1>1, <1>2, Zenon DEF HTypeOK, HTaskOK, HRoles, Runs, Idle, Hosts, DL!Names
<1>4. ListInv'
  <2>1. ASSUME prog \in Lists, NEW f \in Fetchers
        PROVE  LTask(task[f], Buf(f))' /\ LFile(task[f])'
    <3>1. LTask(task[f], Buf(f)) /\ LFile(task[f])
      BY <1>2, <2>1 DEF ListInv
    <3>2. LTask(task[f], Buf(f))'
      BY <1>1, <3>1 DEF LTask, LWhole, LBody, OnItsWay, HeaderIsIn, NotMisled, Size, Buf
    <3>3. LFile(task[f])'
      BY <1>1, <3>1, Zenon DEF LFile, InFile, DL!Alone, Body
    <3>. QED
      BY <3>2, <3>3
  <2>. QED
    BY <1>1, <2>1 DEF ListInv
<1>5. LineInv'
  <2>1. PoolLines => PoolLines'
    BY <1>1 DEF PoolLines, InHand
  <2>2. PoolUrls => PoolUrls'
    BY <1>1, Zenon DEF PoolUrls, DL!Alone
  <2>3. InOrder => InOrder'
    BY <1>1 DEF InOrder
  <2>. QED
    BY <1>1, <1>2, <2>1, <2>2, <2>3 DEF LineInv
<1>10. ServerInv'
  BY <1>1, <1>2, Zenon DEF ServerInv, Addresses, Named, Listed, DL!OneHost
<1>6. ProxyInv'
  BY <1>1, <1>2 DEF ProxyInv, PTask, PWhole, PDone, Trusted, Response2, Complete, Caches,
                    OnItsWay, HeaderIsIn, NotMisled, Size, Buf
<1>7. CacheInv'
  BY <1>1, <1>2 DEF CacheInv, CacheLocked, CacheFilled, Filling, Url, Response2, Size
<1>8. VisitInv'
  <2>1. \A h \in Hosts : Counted(h)' = Counted(h)
    BY <1>1 DEF Counted, Url, Host
  <2>. QED
    BY <1>1, <1>2, <2>1 DEF VisitInv, Url, Host, Hosts
<1>9. OneInv'
  BY <1>1, <1>2 DEF OneInv, QPair, QServer, QProxy, Finished, Rightly, QClient, Buf, Size,
     HeaderIsIn, NotMisled, Skipped
<1>. QED
  BY <1>3, <1>4, <1>5, <1>6, <1>7, <1>8, <1>9, <1>10 DEF HInv

\* Every thread of every program keeps the invariant.
LEMMA HThread ==
  ASSUME HInv, NEW f \in Fetchers, Thread(f)
  PROVE  HInv'
<1>1. CASE /\ prog \in Lists /\ f \in (IF prog = "d" THEN Pool ELSE {1})
           /\ DL!Download(f) /\ UNCHANGED cvars
  <2>1. Runs(f)
    BY <1>1 DEF Runs, Lists
  <2>. QED
    BY <1>1, <2>1, LDownload
<1>2. CASE prog = "1" /\ f = 4 /\ (main1(f) \/ parseReq1(f)) /\ UNCHANGED <<listVars, cvars>>
  BY <1>2, QProxyActs
<1>3. CASE prog = "1" /\ f = 3 /\ (Ask(f) \/ getReq(f) \/ headReq(f))
           /\ UNCHANGED <<listVars, cvars>>
  BY <1>3, QClientActs
<1>4. CASE prog = "2" /\ f \in Pool /\ Connection2(f) /\ UNCHANGED <<listVars, cvars>>
  BY <1>4, PConnectionTwo
<1>5. CASE prog = "cache" /\ f \in Pool /\ Connection(f) /\ UNCHANGED listVars
  BY <1>5, PConnection
<1>. QED
  BY <1>1, <1>2, <1>3, <1>4, <1>5 DEF Thread

\* So does every step,
LEMMA HStep ==
  ASSUME HInv, [Next]_vars
  PROVE  HInv'
<1>1. CASE Interrupt
  BY <1>1, HUnmoved DEF Interrupt, sigIntHandler, Exit, Still
<1>2. CASE UNCHANGED vars
  BY <1>2, HUnmoved DEF vars, tvars, cvars, Still
<1>. QED
  BY <1>1, <1>2, HThread DEF Next, Over

\* and it holds at the start.
LEMMA HStart ==
  ASSUME Init
  PROVE  HInv
<1>1. /\ prog \in Lists \cup {"1", "2", "cache"}
      /\ task = [f \in Fetchers |-> Idle]
      /\ buf = [h \in Programs |-> [i \in 1 .. BufSize |-> Zero]]
      /\ addr = [h \in Programs |-> ""]
      /\ line = 1 /\ eof = FALSE /\ fetched = <<>> /\ files = [n \in DL!Names |-> <<Zero>>]
  BY Zenon DEF Init, TransferInit, DL!ListInit, DL!NoFile, DL!Zero, Zero
<1>2. /\ cache = [u \in Urls |-> NoEntry] /\ statsVis = [h \in Hosts |-> 0]
      /\ seen = [f \in Fetchers |-> 0] /\ report = <<>> /\ filler = [u \in Urls |-> {}]
  BY DEF Init, CacheInit
<1>3. \A f \in Fetchers : task[f] = Idle
  BY <1>1, Zenon
<1>4. HTaskOK
  BY <1>1, HIdle, HZero, Zenon DEF HTaskOK
<1>5. HTypeOK
  <2>1. fetched \in Seq(Nat) /\ line \in Nat \ {0} /\ eof \in BOOLEAN
    <3>1. <<>> \in Seq(Nat) /\ 1 \in Nat \ {0}
      OBVIOUS
    <3>2. fetched = <<>> /\ line = 1 /\ eof = FALSE
      BY <1>1, Zenon
    <3>3. eof \in BOOLEAN
      BY <3>2
    <3>. QED
      BY <3>1, <3>2, <3>3, Zenon
  <2>2. files \in [DL!Names -> Seq(Byte)]
    <3>1. <<Zero>> \in Seq(Byte)
      BY HZero
    <3>. QED
      BY <1>1, <3>1, Zenon
  <2>3. /\ cache \in [Urls -> Seq(Byte) \cup {NoEntry}] /\ filler \in [Urls -> SUBSET Pool]
        /\ statsVis \in [Hosts -> Nat] /\ seen \in [Fetchers -> Nat]
    BY <1>2
  <2>. QED
    BY <1>1, <1>4, <2>1, <2>2, <2>3, Zenon DEF HTypeOK
<1>6. HRoles
  BY <1>3 DEF HRoles
<1>7. ListInv
  BY <1>3, HIdle, Zenon DEF ListInv, LTask, LFile, LWhole, Between
<1>8. LineInv
  <2>1. fetched = <<>> /\ line = 1
    BY <1>1, Zenon
  <2>5. DOMAIN fetched = {} /\ Len(fetched) = 0 /\ Len(fetched) = line - 1
    BY <2>1
  <2>2. \A f \in Pool : task[f].pc = "idle" /\ task[f].url = ""
    BY <1>3, HIdle, HConstants, Zenon
  <2>3. PoolLines /\ PoolUrls
    BY <2>5, <2>2, Zenon DEF PoolLines, PoolUrls, InHand
  <2>4. InOrder
    BY <2>1, <2>5 DEF InOrder
  <2>. QED
    BY <2>3, <2>4 DEF LineInv
<1>13. ServerInv
  <2>1. \A f \in Fetchers : addr[Home[f]] = ""
    BY <1>1, HConstants, Zenon
  <2>2. ~ Idle.con /\ Idle.pc = "idle" /\ Idle.url = "" /\ Idle.srv = ""
    BY DEF Idle
  <2>. QED
    BY <1>3, <2>1, <2>2, Zenon DEF ServerInv, Addresses, Named
<1>9. ProxyInv
  BY <1>3, HIdle, Zenon DEF ProxyInv, PTask, PWhole, PDone, Early, Passing
<1>10. CacheInv
  <2>1. CacheLocked
    BY <1>3, HIdle, Zenon DEF CacheLocked
  <2>2. \A u \in Urls : Filling(u) = {} /\ filler[u] = {} /\ cache[u] = NoEntry
    BY <1>2, <1>3, HIdle, Zenon DEF Filling
  <2>. QED
    BY <2>1, <2>2 DEF CacheInv, CacheFilled
<1>11. VisitInv
  <2>1. \A h \in Hosts : Counted(h) = {} /\ statsVis[h] = 0
    BY <1>2, <1>3, HIdle, Zenon DEF Counted
  <2>2. Cardinality({}) = 0
    BY FS_EmptySet
  <2>3. \A f \in Fetchers : task[f].pc = "idle"
    BY <1>3, HIdle, Zenon
  <2>. QED
    BY <1>2, <2>1, <2>2, <2>3 DEF VisitInv
<1>12. OneInv
  <2>1. task[3] = Idle /\ task[4] = Idle
    BY <1>3, HConstants
  <2>2. QPair(Idle, Idle)
    BY HIdle, HEmpty, Zenon DEF QPair, Between
  <2>3. \A b, e, r : QProxy(Idle, b, e, r)
    BY HIdle, Zenon DEF QProxy, QPassing
  <2>4. \A b, m : QClient(Idle, b, m)
    BY HIdle, Zenon DEF QClient
  <2>5. \A a : QServer(Idle, a)
    BY DEF QServer, Idle
  <2>. QED
    BY <2>1, <2>2, <2>3, <2>4, <2>5, HIdle, Zenon DEF OneInv
<1>. QED
  BY <1>5, <1>6, <1>7, <1>8, <1>9, <1>10, <1>11, <1>12, <1>13 DEF HInv

-----------------------------------------------------------------------------
(* What the invariant says about responses.                                *)

\* The beginning of a response, of a header or of a body.
LEMMA SPrefix ==
  ASSUME NEW t \in Tasks, t.url \in Urls, NEW s \in Seq(Byte), Span(s, t.url, 0), Len(s) <= Size(t)
  PROVE  /\ Prefix(s, Response(t.method, t.url))
         /\ Len(s) = Size(t) => s = Response(t.method, t.url)
<1>. DEFINE r == Response(t.method, t.url)
<1>1. r \in Seq(Byte) /\ Len(r) = Size(t) /\ Span(r, t.url, 0)
  BY HResponse
<1>. HIDE DEF r
<1>2. 0 \in Int /\ Len(s) <= Len(r)
  BY <1>1
<1>3. s = SubSeq(r, 1, Len(s)) /\ (Len(s) = Len(r) => s = r)
  BY <1>1, <1>2, HSame
<1>. QED
  BY <1>1, <1>2, <1>3 DEF Prefix, r

\* The same for a body.
LEMMA SPrefixOfBody ==
  ASSUME NEW u \in Urls, NEW s \in Seq(Byte), Span(s, u, HeaderLen[u]), Len(s) <= BodyLen[u]
  PROVE  Prefix(s, Body(u)) /\ (Len(s) = BodyLen[u] => s = Body(u))
<1>. DEFINE n == BodyLen[u]
            r == Body(u)
<1>1. n \in Nat /\ HeaderLen[u] \in Nat /\ HeaderLen[u] \in Int
  BY HLengths
<1>2. r = [i \in 1 .. n |-> <<u, HeaderLen[u] + i>>]
  BY DEF Body
<1>3. \A i \in 1 .. n : <<u, HeaderLen[u] + i>> \in Byte
  BY <1>1, HZero
<1>. HIDE DEF r, n
<1>4. r \in [1 .. n -> Byte]
  BY <1>2, <1>3
<1>5. r \in Seq(Byte) /\ Len(r) = n
  BY <1>1, <1>4, HSequence
<1>6. Span(r, u, HeaderLen[u])
  BY <1>2, <1>5 DEF Span
<1>7. Len(s) <= Len(r)
  BY <1>5 DEF n
<1>8. s = SubSeq(r, 1, Len(s)) /\ (Len(s) = Len(r) => s = r)
  BY <1>1, <1>5, <1>6, <1>7, HSame
<1>. QED
  BY <1>5, <1>7, <1>8 DEF Prefix, r, n

\* What a proxy with threads has sent a client that stayed.
LEMMA SPassed ==
  ASSUME NEW t \in Tasks, NEW b, PTask(t, b), t.whole, ~ t.gone, t.out # <<>>,
         t.pc = "done" => Response2(t.out, t)
  PROVE  /\ t.url \in Urls /\ Span(t.out, t.url, 0) /\ Len(t.out) <= Size(t)
         /\ t.pc = "done" /\ t.url \notin NoLength => Len(t.out) = Size(t)
<1>1. t.pc \in Passing \cup {"done"}
  BY Zenon DEF PTask, Early, Passing, Tasks, Points
<1>2. t.url \in Urls
  BY <1>1 DEF PTask, Passing
<1>3. CASE t.pc = "done"
  BY <1>2, <1>3 DEF Response2
<1>4. CASE t.pc \in Passing
  <2>1. /\ t.got + Len(t.inp) = Size(t)
        /\ Complete(t.out, t, IF t.pc = "pass" THEN t.got - t.n ELSE t.got)
    BY <1>4 DEF PTask, PWhole
  <2>2. Span(t.out, t.url, 0) /\ (Len(t.out) = t.got \/ Len(t.out) = t.got - t.n)
    BY <2>1 DEF Complete
  <2>3. t.got \in Int /\ t.n \in Nat /\ Len(t.inp) \in Nat /\ Size(t) \in Nat
    <3>1. t.got \in Int /\ t.n \in Nat /\ t.inp \in Seq(Byte)
      BY Zenon DEF Tasks
    <3>. QED
      BY <1>2, <3>1, HEmpty, HSizes
  <2>4. Len(t.out) <= Size(t)
    BY <2>1, <2>2, <2>3
  <2>. QED
    BY <1>2, <1>4, <2>2, <2>4 DEF Passing
<1>. QED
  BY <1>1, <1>3, <1>4

\* What a client program has written, and what it still waits for.
LEMMA SWritten ==
  ASSUME NEW c \in Tasks, NEW b, NEW m \in Nat, QClient(c, b, m), c.url \in Urls, m <= Size(c),
         c.whole, c.pc \in {"pass", "loop", "clear", "more", "done"}
  PROVE  /\ Span(c.out, c.url, Skipped(c)) /\ Skipped(c) + Len(c.out) <= Size(c)
         /\ c.pc = "done" => Skipped(c) + Len(c.out) = Size(c)
         /\ c.pc # "pass" => c.sz - c.got = Len(c.inp) + (Size(c) - m)
<1>. DEFINE k == Skipped(c)
            z == Size(c)
            i == Len(c.inp)
            o == Len(c.out)
            g == c.got
            w == c.sz
<1>1. g \in Int /\ w \in Int /\ c.n \in Nat /\ i \in Nat /\ o \in Nat /\ k \in Int /\ z \in Nat
  <2>1. g \in Int /\ w \in Int /\ c.n \in Nat /\ c.inp \in Seq(Byte) /\ c.out \in Seq(Byte)
    BY Zenon DEF Tasks
  <2>2. k \in Int
    BY HLengths DEF Skipped
  <2>. QED
    BY <2>1, <2>2, HEmpty, HSizes
<1>2. /\ k + w = z /\ k + g + i = m /\ Span(c.out, c.url, k)
      /\ IF c.pc = "pass" THEN o + c.n = g ELSE o = g
      /\ c.pc = "done" => g >= w
  BY DEF QClient
<1>. HIDE DEF k, z, i, o, g, w
<1>3. k + o <= z
  <2>1. o <= g /\ k + g <= m /\ m <= z
    <3>1. o <= g
      BY <1>1, <1>2
    <3>2. k + g <= m
      BY <1>1, <1>2
    <3>. QED
      BY <3>1, <3>2 DEF z
  <2>. QED
    BY <1>1, <2>1
<1>4. c.pc = "done" => k + o = z
  <2>. SUFFICES ASSUME c.pc = "done" PROVE k + o = z
    OBVIOUS
  <2>1. o = g /\ g >= w
    BY <1>2
  <2>2. k + o >= z
    BY <1>1, <1>2, <2>1
  <2>. QED
    BY <1>1, <1>3, <2>2
<1>5. w - g = i + (z - m)
  BY <1>1, <1>2
<1>. QED
  BY <1>2, <1>3, <1>4, <1>5 DEF k, z, i, o, g, w

\* What is known of a thread of each program.
LEMMA SRoles ==
  ASSUME HInv, NEW f \in Fetchers
  PROVE  /\ HTaskOK /\ task[f] \in Tasks /\ Placed(task[f])
         /\ ~ Runs(f) => task[f] = Idle /\ task[f].pc = "idle" /\ task[f].out = <<>>
         /\ prog = "1" /\ Runs(f) => f \in {3, 4}
         /\ prog \in {"2", "cache"} /\ Runs(f) =>
              f \in Pool /\ PTask(task[f], Buf(f)) /\ PDone(task[f])
         /\ prog \in {"1", "2", "cache"} \/ prog \in Lists
<1>1. HTaskOK /\ HRoles /\ ProxyInv /\ (prog \in {"1", "2", "cache"} \/ prog \in Lists)
  BY DEF HInv, HTypeOK
<1>. QED
  BY <1>1, HTask, HIdle, Zenon DEF HRoles, Runs, ProxyInv

\* What the client of 7/1.cpp was sent is part of the response it asked for.
LEMMA SClient ==
  ASSUME HInv, prog = "1", task[3].pc # "idle"
  PROVE  /\ task[3] \in Tasks /\ task[3].url \in Urls /\ task[3].method \in Methods
         /\ QClient(task[3], Buf(3), Len(task[4].out))
         /\ Len(task[4].out) \in Nat /\ Len(task[4].out) <= Size(task[3])
         /\ task[3].pc \in {"first", "size", "pass", "loop", "clear", "more", "done"}
<1>. DEFINE p == task[4]
            c == task[3]
<1>1. /\ HTaskOK /\ 3 \in Fetchers /\ 4 \in Fetchers /\ QPair(p, c)
      /\ QClient(c, Buf(3), Len(p.out))
  BY QBasics DEF QSide
<1>2. c \in Tasks /\ Placed(c) /\ p.out \in Seq(Byte)
  BY <1>1, HTask
<1>3. Len(p.out) \in Nat
  BY <1>2, HEmpty
<1>4. /\ c.pc \in {"first", "size", "pass", "loop", "clear", "more", "done"}
      /\ c.method \in Methods /\ c.url \in Urls
  BY <1>1 DEF QPair
<1>5. Len(p.out) <= Size(c)
  <2>1. CASE p.pc = "idle"
    <3>1. Len(p.out) = 0 /\ Size(c) \in Nat
      BY <1>1, <1>2, <1>4, <2>1, HEmpty, HSizes DEF QPair
    <3>. QED
      BY <3>1
  <2>2. CASE p.pc # "idle"
    BY <1>1, <2>2 DEF QPair, Size
  <2>. QED
    BY <2>1, <2>2
<1>. QED
  BY <1>1, <1>2, <1>3, <1>4, <1>5

\* The responses arrive.
LEMMA SResponses ==
  ASSUME HInv
  PROVE  ResponsesArrive
<1>. SUFFICES ASSUME NEW f \in Fetchers, prog \notin Lists, task[f].out # <<>>, Faultless(f)
              PROVE  LET wanted == IF f # 3 THEN Response(task[f].method, task[f].url)
                                   ELSE IF task[f].method = "GET" THEN Body(task[f].url)
                                   ELSE Header(task[f].url)
                     IN  /\ Prefix(task[f].out, wanted)
                         /\ task[f].pc = "done" /\ task[f].url \notin NoLength
                              => task[f].out = wanted
  BY DEF ResponsesArrive
<1>. DEFINE t == task[f]
<1>1. /\ HTaskOK /\ t \in Tasks /\ t.out \in Seq(Byte) /\ Runs(f)
      /\ t.whole /\ ~ t.gone /\ task[Client[f]].whole
      /\ f = Client[f] \/ Home[Client[f]] \in up
      /\ prog = "cache" => \A g \in filler[t.url] : task[g].whole /\ ~ task[g].gone
  BY SRoles, HTask DEF Faultless
<1>2. CASE prog \in {"2", "cache"}
  <2>1. f \in Pool /\ PTask(t, Buf(f)) /\ PDone(t) /\ Trusted(t.url) /\ f # 3
    BY <1>1, <1>2, SRoles, HConstants DEF Trusted
  <2>2. t.pc = "done" => Response2(t.out, t)
    BY <1>1, <2>1 DEF PDone
  <2>3. /\ t.url \in Urls /\ Span(t.out, t.url, 0) /\ Len(t.out) <= Size(t)
        /\ t.pc = "done" /\ t.url \notin NoLength => Len(t.out) = Size(t)
    BY <1>1, <2>1, <2>2, SPassed
  <2>. QED
    BY <1>1, <2>1, <2>3, SPrefix
<1>3. CASE prog = "1" /\ f = 4
  <2>1. QPair(t, task[3]) /\ QProxy(t, Buf(4), Finished, Rightly) /\ Rightly
    BY <1>1, <1>3, QBasics, HConstants DEF QSide, Rightly
  <2>2. t.pc # "idle" /\ task[3].pc # "idle" /\ t.url = task[3].url
    BY <2>1 DEF QPair
  <2>3. t.url \in Urls /\ Span(t.out, t.url, 0) /\ Len(t.out) <= Size(t)
    BY <2>1, <2>2 DEF QPair
  <2>4. t.pc = "done" => Len(t.out) = Size(t)
    BY <1>1, <2>1 DEF QProxy
  <2>. QED
    BY <1>1, <1>3, <2>3, <2>4, SPrefix
<1>4. CASE prog = "1" /\ f = 3
  <2>. DEFINE m == Len(task[4].out)
              b == Buf(3)
  <2>1. t.pc # "idle"
    BY <1>1, <1>4, QBasics DEF QSide, QPair
  <2>2. /\ t.url \in Urls /\ t.method \in Methods /\ QClient(t, b, m) /\ m \in Nat /\ m <= Size(t)
        /\ t.pc \in {"first", "size", "pass", "loop", "clear", "more", "done"}
    BY <1>4, <2>1, SClient
  <2>3. t.pc \in {"pass", "loop", "clear", "more", "done"}
    BY <2>2 DEF QClient
  <2>. HIDE DEF m, b
  <2>4. /\ Span(t.out, t.url, Skipped(t)) /\ Skipped(t) + Len(t.out) <= Size(t)
        /\ t.pc = "done" => Skipped(t) + Len(t.out) = Size(t)
    BY <1>1, <2>2, <2>3, SWritten
  <2>5. Len(t.out) \in Nat /\ HeaderLen[t.url] \in Nat /\ BodyLen[t.url] \in Nat
    BY <1>1, <2>2, HEmpty, HLengths
  <2>6. CASE t.method = "GET"
    <3>1. Size(t) = HeaderLen[t.url] + BodyLen[t.url] /\ Skipped(t) = HeaderLen[t.url]
      BY <1>1, <2>2, <2>6, HSizes DEF Skipped
    <3>2. Len(t.out) <= BodyLen[t.url] /\ (t.pc = "done" => Len(t.out) = BodyLen[t.url])
      BY <2>4, <2>5, <3>1
    <3>3. Prefix(t.out, Body(t.url)) /\ (t.pc = "done" => t.out = Body(t.url))
      BY <1>1, <2>2, <2>4, <3>1, <3>2, SPrefixOfBody
    <3>. QED
      BY <1>4, <2>6, <3>3
  <2>7. CASE t.method # "GET"
    <3>1. Skipped(t) = 0 /\ t.method = "HEAD" /\ Header(t.url) = Response(t.method, t.url)
      BY <2>2, <2>7 DEF Skipped, Methods, Header
    <3>2. Size(t) \in Nat
      BY <1>1, <2>2, HSizes
    <3>3. Len(t.out) <= Size(t) /\ (t.pc = "done" => Len(t.out) = Size(t))
      BY <2>4, <2>5, <3>1, <3>2
    <3>4. /\ Prefix(t.out, Response(t.method, t.url))
          /\ t.pc = "done" => t.out = Response(t.method, t.url)
      BY <1>1, <2>2, <2>4, <3>1, <3>3, SPrefix
    <3>. QED
      BY <1>4, <2>7, <3>1, <3>4
  <2>. QED
    BY <2>6, <2>7
<1>. QED
  BY <1>1, <1>2, <1>3, <1>4, SRoles

\* The bytes a thread waits for are coming.
LEMMA SComing ==
  ASSUME HInv
  PROVE  BytesAreComing
<1>. SUFFICES ASSUME NEW f \in Fetchers, task[f].pc \in {"loop", "clear", "more"}, task[f].whole
              PROVE  task[f].sz - task[f].got <= OnTheWay(f)
  BY DEF BytesAreComing
<1>. DEFINE t == task[f]
<1>1. /\ HTaskOK /\ t \in Tasks /\ t.inp \in Seq(Byte) /\ t.got \in Int /\ t.sz \in Int
      /\ Runs(f) /\ Len(t.inp) \in Nat
  BY SRoles, HTask, HEmpty
<1>2. CASE prog = "1" /\ f = 3
  <2>. DEFINE m == Len(task[4].out)
              b == Buf(3)
  <2>1. t.pc # "idle"
    OBVIOUS
  <2>2. /\ t.url \in Urls /\ QClient(t, b, m) /\ m \in Nat /\ m <= Size(t)
    BY <1>2, <2>1, SClient
  <2>3. Len(Response(t.method, t.url)) = Size(t)
    BY <1>1, <2>2, HResponse
  <2>4. OnTheWay(f) = Len(t.inp) + (Size(t) - m)
    BY <1>2, <2>3 DEF OnTheWay
  <2>5. Size(t) \in Nat
    BY <1>1, <2>2, HSizes
  <2>. HIDE DEF m, b
  <2>6. t.sz - t.got = Len(t.inp) + (Size(t) - m)
    BY <1>1, <2>2, SWritten
  <2>7. t.sz - t.got \in Int
    BY <1>1
  <2>. QED
    BY <2>4, <2>6, <2>7
<1>3. ASSUME f # 3, t.sz - t.got <= Len(t.inp) PROVE t.sz - t.got <= OnTheWay(f)
  BY <1>1, <1>3 DEF OnTheWay
<1>4. CASE prog = "1" /\ f = 4
  <2>1. QProxy(t, Buf(4), Finished, Rightly) /\ f # 3
    BY <1>4, QBasics DEF QSide
  <2>2. t.sz = Size(t) /\ t.got + Len(t.inp) = Size(t)
    BY <2>1 DEF QProxy, QPassing
  <2>3. t.sz - t.got <= Len(t.inp)
    BY <1>1, <2>2
  <2>. QED
    BY <1>3, <2>1, <2>3
<1>5. CASE prog \in {"2", "cache"}
  <2>1. PTask(t, Buf(f)) /\ f # 3
    BY <1>1, <1>5, SRoles, HConstants
  <2>2. t.sz <= Size(t) /\ t.got + Len(t.inp) = Size(t) /\ t.url \in Urls
    BY <2>1 DEF PTask, PWhole, Passing
  <2>3. Size(t) \in Nat
    BY <1>1, <2>2, HSizes
  <2>4. t.sz - t.got <= Len(t.inp)
    BY <1>1, <2>2, <2>3
  <2>. QED
    BY <1>3, <2>1, <2>4
<1>6. CASE prog \in Lists
  <2>1. LTask(t, Buf(f)) /\ f # 3
    BY <1>1, <1>6, HConstants DEF HInv, ListInv, Runs, Lists
  <2>2. t.got + Len(t.inp) = t.sz
    BY <2>1 DEF LTask, LWhole, LBody
  <2>3. t.sz - t.got <= Len(t.inp)
    BY <1>1, <2>2
  <2>. QED
    BY <1>3, <2>1, <2>3
<1>. QED
  BY <1>1, <1>2, <1>4, <1>5, <1>6, SRoles

-----------------------------------------------------------------------------
(* What it says about lists of objects, counts and the cache.              *)

\* No line is fetched twice.
LEMMA SLines ==
  ASSUME HInv
  PROVE  DL!LinesOnce
<1>1. LineInv
  BY DEF HInv
<1>2. CASE prog = "d"
  BY <1>1, <1>2 DEF LineInv, PoolLines, DL!LinesOnce
<1>3. CASE prog # "d"
  BY <1>1, <1>3 DEF LineInv, InOrder, DL!LinesOnce
<1>. QED
  BY <1>2, <1>3

\* Answers are in step with requests.
LEMMA SInStep ==
  ASSUME HInv
  PROVE  DL!InStep
<1>. SUFFICES ASSUME NEW f \in Fetchers, task[f].pc \in {"resolve", "connect", "line", "next"},
                     task[f].whole
              PROVE  task[f].inp = <<>>
  BY DEF DL!InStep
<1>. DEFINE t == task[f]
<1>1. Runs(f) /\ HTaskOK
  BY SRoles
<1>2. CASE prog \in Lists
  <2>1. LTask(t, Buf(f))
    BY <1>2 DEF HInv, ListInv
  <2>. QED
    BY <2>1 DEF LTask, LWhole, Between
<1>3. CASE prog \in {"2", "cache"}
  <2>1. PTask(t, Buf(f))
    BY <1>1, <1>3, SRoles
  <2>. QED
    BY <2>1 DEF PTask, Early
<1>4. CASE prog = "1"
  <2>1. QPair(task[4], task[3])
    BY <1>4, QBasics DEF QSide
  <2>2. f = 3 \/ f = 4
    BY <1>1, <1>4, SRoles
  <2>. QED
    BY <2>1, <2>2 DEF QPair, Between
<1>. QED
  BY <1>2, <1>3, <1>4, SRoles

\* Files are bodies.
LEMMA SFiles ==
  ASSUME HInv
  PROVE  DL!FilesAreBodies
<1>. SUFFICES ASSUME NEW f \in Fetchers, prog \in {"a", "b", "c", "d"},
                     task[f].pc \in {"line", "next", "done"}, task[f].url # "", task[f].whole,
                     prog = "d" => DL!Alone(task[f].url)
              PROVE  files[NameOf[task[f].url]] = DL!Body(task[f].url)
  BY Zenon DEF DL!FilesAreBodies, DL!Name
<1>1. LFile(task[f])
  BY Zenon DEF HInv, ListInv, Lists
<1>2. files[NameOf[task[f].url]] = Body(task[f].url)
  BY <1>1, Zenon DEF LFile, Between
<1>. QED
  BY <1>2, HSameBody, Zenon

\* The server asked is the object's own.
LEMMA SServers ==
  ASSUME HInv
  PROVE  DL!RightServer
<1>. SUFFICES ASSUME prog \in {"a", "b"} \/ (prog \in {"c", "d"} /\ DL!OneHost),
                     NEW f \in Fetchers, DL!Answered(task[f]), task[f].url # ""
              PROVE  task[f].srv = HostOf[task[f].url]
  BY Zenon DEF DL!RightServer
<1>1. Named(task[f])
  BY Zenon DEF HInv, ServerInv, Lists
<1>. QED
  BY <1>1, Zenon DEF Named, DL!Answered

LEMMA SProxyServer ==
  ASSUME HInv
  PROVE  RightProxyServer
<1>. SUFFICES ASSUME prog = "1"
              PROVE  QServer(task[4], addr[Home[4]])
  BY DEF RightProxyServer, QServer
<1>. QED
  BY DEF HInv, OneInv

\* Visits are counted.
LEMMA SVisits ==
  ASSUME HInv, prog = "cache"
  PROVE  VisitsAreCounted
<1>. QED
  BY DEF HInv, VisitInv, VisitsAreCounted

\* The invariants of the cache.
LEMMA SFilled ==
  ASSUME HInv, prog = "cache"
  PROVE  CacheLocked /\ CacheFilled
<1>. QED
  BY DEF HInv, CacheInv

\* One thread fills an entry.
LEMMA SOneFiller ==
  ASSUME HInv, prog = "cache"
  PROVE  OneFiller
<1>. SUFFICES ASSUME NEW u \in Urls PROVE Cardinality(Filling(u) \cup filler[u]) <= 1
  BY DEF OneFiller
<1>. DEFINE S == Filling(u) \cup filler[u]
<1>1. \A f, g \in S : f = g
  BY SFilled DEF CacheFilled
<1>2. Cardinality({}) = 0 /\ \A f : Cardinality({f}) = 1
  BY FS_EmptySet, FS_Singleton
<1>3. S = {} \/ \E f : S = {f}
  BY <1>1
<1>. HIDE DEF S
<1>4. Cardinality(S) = 0 \/ Cardinality(S) = 1
  BY <1>2, <1>3
<1>. QED
  BY <1>4 DEF S

\* Entries are responses.
LEMMA SEntries ==
  ASSUME HInv, prog = "cache"
  PROVE  EntriesAreResponses
<1>. SUFFICES ASSUME NEW u \in Urls
              PROVE  /\ cache[u] = <<>> => \/ Filling(u) # {}
                                           \/ \E f \in filler[u] : ~ task[f].whole \/ task[f].gone
                     /\ cache[u] \notin {NoEntry, <<>>} =>
                          \A f \in filler[u] : task[f].whole /\ ~ task[f].gone /\ u \notin NoLength
                                                 => cache[u] = Response("GET", u)
  BY DEF EntriesAreResponses
<1>1. /\ \A f \in filler[u] :
           /\ task[f].url = u /\ task[f].method = "GET" /\ cache[u] = task[f].kept
           /\ task[f].whole /\ ~ task[f].gone => Response2(task[f].kept, task[f])
      /\ cache[u] # NoEntry => Filling(u) # {} \/ filler[u] # {}
      /\ filler[u] \subseteq Fetchers
  <2>1. filler[u] \subseteq Fetchers
    BY HConstants DEF HInv, HTypeOK
  <2>. QED
    BY <2>1, SFilled DEF CacheFilled, Url
<1>2. ASSUME NEW f \in filler[u], task[f].whole, ~ task[f].gone
      PROVE  cache[u] # <<>> /\ (u \notin NoLength => cache[u] = Response("GET", u))
  <2>. DEFINE t == task[f]
              s == t.kept
  <2>1. t \in Tasks /\ s \in Seq(Byte) /\ t.url = u /\ t.method = "GET" /\ cache[u] = s
        /\ Response2(s, t)
    BY <1>1, <1>2, SRoles, HTask
  <2>. HIDE DEF t, s
  <2>2. /\ Span(s, t.url, 0) /\ HeaderLen[t.url] <= Len(s) /\ Len(s) <= Size(t)
        /\ t.url \notin NoLength => Len(s) = Size(t)
    BY <2>1 DEF Response2
  <2>3. s # <<>>
    <3>1. HeaderLen[u] \in Nat /\ 4 <= HeaderLen[u]
      BY HLengths
    <3>2. HeaderLen[u] <= Len(s) /\ Len(s) \in Nat
      BY <2>1, <2>2, HEmpty
    <3>. QED
      BY <3>1, <3>2, HEmpty
  <2>4. Len(s) = Size(t) => s = Response("GET", u)
    BY <2>1, <2>2, SPrefix
  <2>. QED
    BY <2>1, <2>2, <2>3, <2>4
<1>. QED
  BY <1>1, <1>2, PNoEntry

\* The invariant implies what the run checks.
LEMMA HSafe ==
  ASSUME HInv
  PROVE  Safety
<1>. QED
  BY SResponses, SComing, SLines, SInStep, SFiles, SServers, SProxyServer, SVisits, SOneFiller,
     SEntries DEF Safety

\* An entry is reserved when it is absent, and filled by the thread that
\* reserved it.
LEMMA SFinal ==
  ASSUME HInv, [Next]_vars
  PROVE  \A u \in Urls : \/ cache'[u] = cache[u]
                         \/ cache[u] = NoEntry /\ cache'[u] = <<>>
                         \/ cache[u] = <<>> /\ cache'[u] # NoEntry
<1>1. CASE UNCHANGED cache
  BY <1>1
<1>2. CASE UNCHANGED cvars
  BY <1>2 DEF cvars
<1>3. ASSUME prog = "cache", NEW f \in Pool, Connection(f)
      PROVE  \A u \in Urls : \/ cache'[u] = cache[u]
                             \/ cache[u] = NoEntry /\ cache'[u] = <<>>
                             \/ cache[u] = <<>> /\ cache'[u] # NoEntry
  <2>1. /\ f \in Fetchers /\ HTaskOK /\ cache \in [Urls -> Seq(Byte) \cup {NoEntry}]
        /\ CacheLocked /\ CacheFilled
    BY <1>3, PBasics, SFilled
  <2>2. ASSUME task[f].pc = "reserve", cache' = [cache EXCEPT ![Url(f)] = <<>>]
        PROVE  \A u \in Urls : cache'[u] = cache[u] \/ (cache[u] = NoEntry /\ cache'[u] = <<>>)
    BY <2>1, <2>2 DEF CacheLocked
  <2>3. ASSUME task[f].pc = "stored", task[f].method = "GET",
               cache' = [cache EXCEPT ![Url(f)] = ToBeCached(f)]
        PROVE  \A u \in Urls : cache'[u] = cache[u] \/ (cache[u] = <<>> /\ cache'[u] # NoEntry)
    <3>1. task[f].kept \in Seq(Byte) /\ task[f].kept # NoEntry
      BY <2>1, HTask, PNoEntry
    <3>2. \A u \in Urls : u = Url(f) => cache[u] = <<>>
      BY <2>1, <2>3 DEF CacheFilled, Filling
    <3>. QED
      BY <2>1, <2>3, <3>1, <3>2 DEF ToBeCached
  <2>4. CASE main(f) \/ threadMain(f) \/ parseReqHEAD(f) \/ (Leave(f) /\ UNCHANGED cvars)
    BY <1>2, <2>4 DEF main, threadMain, parseReqHEAD
  <2>5. CASE parseReqGET(f)
    <3>1. task[f].method = "GET"
      BY <2>5 DEF parseReqGET
    <3>2. CASE CountVisit(f) \/ Hit(f)
      BY <1>1, <1>2, <3>2 DEF CountVisit, Hit
    <3>3. CASE Lookup(f)
      BY <1>1, <2>2, <3>3 DEF Lookup, Step, At
    <3>4. CASE Store(f)
      BY <1>1, <2>3, <3>1, <3>4 DEF Store, Step, At
    <3>. QED
      BY <1>2, <2>5, <3>2, <3>3, <3>4 DEF parseReqGET, Keep
  <2>. QED
    BY <1>3, <2>4, <2>5 DEF Connection
<1>4. CASE Interrupt
  BY <1>1, <1>4 DEF Interrupt, sigIntHandler
<1>5. CASE UNCHANGED vars
  BY <1>2, <1>5 DEF vars
<1>6. ASSUME NEW f \in Fetchers, Thread(f)
      PROVE  \A u \in Urls : \/ cache'[u] = cache[u]
                             \/ cache[u] = NoEntry /\ cache'[u] = <<>>
                             \/ cache[u] = <<>> /\ cache'[u] # NoEntry
  BY <1>2, <1>3, <1>6 DEF Thread
<1>. QED
  BY <1>4, <1>5, <1>6 DEF Next, Over

-----------------------------------------------------------------------------
(* The theorems.                                                           *)

\* The invariant holds in every behaviour of the HTTP programs.
THEOREM HTTPInvariant == Spec => []HInv
<1>1. Init => HInv
  BY HStart
<1>2. HInv /\ [Next]_vars => HInv'
  BY HStep
<1>. QED
  BY <1>1, <1>2, PTL DEF Spec

\* In every behaviour of these programs, for every set of objects, headers and
\* requests: a proxy's client, a client's file, a downloader's file and a
\* cache entry hold what the server sent, unless the history of the thread
\* says otherwise; bytes that are waited for are coming; lines are fetched
\* once and visits counted; one thread fills an entry.
THEOREM HTTPSafety == Spec => []Safety
<1>1. HInv => Safety
  BY HSafe
<1>. QED
  BY <1>1, HTTPInvariant, PTL

\* What the cache of 8/cache.cpp answers never changes once it is there.
THEOREM CacheIsFinalHolds == Spec => CacheIsFinal
<1>. DEFINE A == \A u \in Urls : \/ cache'[u] = cache[u]
                                 \/ cache[u] = NoEntry /\ cache'[u] = <<>>
                                 \/ cache[u] = <<>> /\ cache'[u] # NoEntry
<1>1. HInv /\ [Next]_vars => [A]_cache
  BY SFinal
<1>. HIDE DEF A
<1>2. []HInv /\ [][Next]_vars => [][A]_cache
  BY <1>1, PTL
<1>3. Spec => [][A]_cache
  BY <1>2, HTTPInvariant, PTL DEF Spec
<1>. QED
  BY <1>3 DEF CacheIsFinal, EntriesAreFinal, A
=============================================================================

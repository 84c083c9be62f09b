---------------------------- MODULE Downloaders ----------------------------
(***************************************************************************)
(* assignment/networks2/6: a.cpp downloads one object; b.cpp downloads a   *)
(* list of objects, each over a new connection; c.cpp the same over one    *)
(* connection that is kept open; d.cpp has a pool of threads with one such *)
(* connection each, which take the next line of the list in turn and share *)
(* buf.  c.cpp and d.cpp are meant for lists of one host (c.cpp:4,         *)
(* d.cpp:4); the address they keep in a global is that of the host then.   *)
(***************************************************************************)
EXTENDS HTTPTransfer

CONSTANTS Pool,         \* the threads of d.cpp
          List,         \* the lines of the file named on the command line: URLs
          Newline,      \* does the last of them end in a newline?
          NameOf        \* the file an object is written to, f_name: the last
                        \* part of its URL, or dl_file

VARIABLES prog,         \* which of the four programs runs
          line, eof,    \* the next line of inFile; its end has been hit
          mtx,
          files,        \* what each file in resp holds
          fetched       \* history: the lines given to fetchObject, in order

dvars == <<prog, line, eof, mtx, files, fetched>>

Free    == 0               \* no thread holds the mutex
NoFile  == <<Zero>>
Names   == {NameOf[u] : u \in Urls}
Name(f) == NameOf[task[f].url]

ListInit ==
  /\ line = 1 /\ eof = FALSE /\ mtx = Free
  /\ files = [n \in Names |-> NoFile]
  /\ fetched = <<>>

Step(f, p, q) == At(f, p) /\ Goes(f, [task[f] EXCEPT !.pc = q])

\* fetchObject is called with the URL u of line l, on the connection as it is.
Fetch(f, u, l) ==
  /\ Goes(f, [Idle EXCEPT !.pc = "resolve", !.url = u, !.inp = task[f].inp,
                          !.con = task[f].con, !.srv = task[f].srv, !.whole = task[f].whole \/ ~ task[f].con])
  /\ fetched' = Append(fetched, l)

-----------------------------------------------------------------------------
\* What fetchObject does with the first chunk: the size of the body, then the
\* bytes after the header are moved to the front of buf, and written.
\* parseHeader never returns when there is no Content-Length to find, and a
\* chunk shorter than the header it is thought to have makes memcpy run away.
parseHeader(f) ==
  IF HasLength(Buf(f))
  THEN Measure(f, Length(Buf(f)) + getHeaderLen(Buf(f)), "hdr")
  ELSE IF prog = "a" THEN At(f, "size") /\ Exit(f) ELSE Step(f, "size", "hang")

StripHeader(f) ==
  \/ /\ At(f, "hdr")
     /\ Goes(f, [task[f] EXCEPT !.pc = "copy", !.hdr = getHeaderLen(Buf(f))])
  \/ /\ At(f, "copy")
     /\ IF task[f].n < task[f].hdr THEN Exit(f)
        ELSE Goes(f, [task[f] EXCEPT !.pc = "clear1",
                                     !.bufD = SubSeq(Buf(f), task[f].hdr + 1, task[f].n)])
  \/ /\ At(f, "clear1")
     /\ Writes(f, [task[f] EXCEPT !.pc = "back"], [i \in 1 .. BufSize |-> Zero])
  \/ /\ At(f, "back")
     /\ Writes(f, [task[f] EXCEPT !.pc = "write1", !.n = Len(task[f].bufD)],
               [i \in 1 .. BufSize |-> IF i <= Len(task[f].bufD) THEN task[f].bufD[i] ELSE Zero])

\* gotSize = cur_cont_size; sz -= headerlen.
\* Mutated form: sz still counts the header.
BodySize_m(t) == t.sz
BodySize(t)   == t.sz - t.hdr

\* std::ofstream oFile(oDir + "/" + f_name): the file is emptied.
Open(f) ==
  /\ At(f, "open") /\ Goes(f, [task[f] EXCEPT !.pc = "first"])
  /\ files' = [files EXCEPT ![Name(f)] = <<>>]

\* The bytes k + 1 .. m of out are written to their places in a file s.
Overlay(s, out, k, m) ==
  IF k = m THEN s
  ELSE [i \in 1 .. Max({Len(s), m}) |->
          IF k < i /\ i <= m THEN out[i] ELSE IF i <= Len(s) THEN s[i] ELSE Zero]

\* oFile.write: thread f goes on as t.  What the stream has not passed on to
\* the file goes there now, or with a later call.
Put(f, t, ks) ==
  \E k \in ks :
    /\ Goes(f, [t EXCEPT !.put = k])
    /\ files' = [files EXCEPT ![Name(f)] = Overlay(@, t.out, t.put, k)]

WriteFirst(f) ==
  LET t == [task[f] EXCEPT !.pc = "loop", !.got = task[f].n, !.sz = BodySize(task[f]),
                           !.out = SubSeq(Buf(f), 1, task[f].n)]
  IN  At(f, "write1") /\ Put(f, t, {0, Len(t.out)})

Write(f) ==
  LET t == [task[f] EXCEPT !.pc = "loop", !.out = @ \o SubSeq(Buf(f), 1, task[f].n)]
  IN  At(f, "pass") /\ Put(f, t, {t.put, Len(t.out)})

\* oFile.close(); the socket is closed or kept open.
Finish(f, next, keep) ==
  LET t == IF keep THEN [task[f] EXCEPT !.pc = next, !.con = TRUE]
                   ELSE [task[f] EXCEPT !.pc = next, !.inp = <<>>]
  IN  At(f, "close") /\ Put(f, t, {Len(t.out)})

\* The body of fetchObject; connect is skipped on a connection that is open.
fetchObject(f, next, keep) ==
  \/ /\ \/ Resolve(f) \/ Connect(f, "open") \/ FirstChunk(f) \/ parseHeader(f)
        \/ StripHeader(f) \/ Loop(f, "close")
     /\ UNCHANGED dvars
  \/ /\ Open(f) \/ WriteFirst(f) \/ Write(f) \/ Finish(f, next, keep)
     /\ UNCHANGED <<prog, line, eof, mtx, fetched>>

-----------------------------------------------------------------------------
\* a.cpp: one object, named on the command line.
Single(f) ==
  \/ /\ At(f, "idle")
     /\ \E u \in Urls : Fetch(f, u, line)
     /\ UNCHANGED <<prog, line, eof, mtx, files>>
  \/ fetchObject(f, "done", FALSE)

\* for (std::string line; std::getline(inFile, line); )
NextLine(f) ==
  /\ task[f].pc \in {"idle", "next"} /\ Home[f] \in up
  /\ IF line <= Len(List)
     THEN Fetch(f, List[line], line) /\ line' = line + 1
     ELSE Goes(f, [task[f] EXCEPT !.pc = "done"]) /\ UNCHANGED <<line, fetched>>
  /\ UNCHANGED <<prog, eof, mtx, files>>

\* b.cpp: a socket per object; c.cpp: one for all, its fetchObject leaves the
\* socket open and sets conFlag.
EachAnew(f)    == NextLine(f) \/ fetchObject(f, "next", FALSE)
OneAfterOne(f) == NextLine(f) \/ fetchObject(f, "next", TRUE)

\* threadMain of d.cpp: inFile.good(), then a line under mtx, then good() again.
\* Mutated form: the mutex is left out.
Lock_m(f) == UNCHANGED mtx
Lock(f)   == mtx = Free /\ mtx' = f

Good(f) ==
  /\ \/ Step(f, "idle", IF eof THEN "done" ELSE "lock")
     \/ Step(f, "line", IF eof THEN "done" ELSE "lock")
  /\ UNCHANGED dvars

LockList(f) ==
  /\ Step(f, "lock", "getline") /\ Lock(f)
  /\ UNCHANGED <<prog, line, eof, files, fetched>>

\* std::getline: the bytes of the line, then the position.
GetLine(f) ==
  \/ /\ At(f, "getline")
     /\ Goes(f, [task[f] EXCEPT !.pc = "advance", !.n = line])
     /\ UNCHANGED dvars
  \/ /\ Step(f, "advance", "unlock")
     /\ line' = IF eof \/ task[f].n > Len(List) THEN line ELSE task[f].n + 1
     /\ eof' = (eof \/ task[f].n > Len(List) \/ (task[f].n = Len(List) /\ ~ Newline))
     /\ UNCHANGED <<prog, mtx, files, fetched>>

UnlockList(f) ==
  /\ Step(f, "unlock", "good") /\ mtx' = Free
  /\ UNCHANGED <<prog, line, eof, files, fetched>>

FetchIfGood(f) ==
  /\ At(f, "good")
  /\ IF eof THEN Goes(f, [task[f] EXCEPT !.pc = "line"]) /\ UNCHANGED fetched
     ELSE Fetch(f, List[task[f].n], task[f].n)
  /\ UNCHANGED <<prog, line, eof, mtx, files>>

threadMain(f) == Good(f) \/ LockList(f) \/ GetLine(f) \/ UnlockList(f) \/ FetchIfGood(f)

Shared(f) == threadMain(f) \/ fetchObject(f, "line", TRUE)

Download(f) ==
  \/ prog = "a" /\ Single(f)
  \/ prog = "b" /\ EachAnew(f)
  \/ prog = "c" /\ OneAfterOne(f)
  \/ prog = "d" /\ Shared(f)

-----------------------------------------------------------------------------
\* No line is fetched twice, and the lines of b.cpp and c.cpp are fetched in
\* order, however the threads meet.
LinesOnce ==
  /\ \A i, j \in DOMAIN fetched : i # j => fetched[i] # fetched[j]
  /\ prog # "d" => \A i \in DOMAIN fetched : fetched[i] = i

\* Between two objects an open connection has nothing left to receive, as long
\* as every response so far came whole: the answers stay in step with the
\* requests.
InStep ==
  \A f \in Fetchers : task[f].pc \in {"resolve", "connect", "line", "next"} /\ task[f].whole
                        => task[f].inp = <<>>

\* The server asked for an object is its own, for all that c.cpp and d.cpp keep
\* a connection for the next object and the threads share the address.
Answered(t) == t.pc \notin {"idle", "lock", "getline", "advance", "unlock", "good",
                            "line", "next", "resolve", "connect"}
OneHost == \A k, l \in DOMAIN List : HostOf[List[k]] = HostOf[List[l]]

RightServer ==
  prog \in {"a", "b"} \/ (prog \in {"c", "d"} /\ OneHost) =>
    \A f \in Fetchers : Answered(task[f]) /\ task[f].url # ""
                          => task[f].srv = HostOf[task[f].url]

\* The file of an object holds its body, if the exchange went well.  Two
\* threads of the pool spoil each other's file when lines of the list end in
\* the same name.
Alone(u) == \A k, l \in DOMAIN List :
              NameOf[List[k]] = NameOf[u] /\ NameOf[List[l]] = NameOf[u] => k = l

FilesAreBodies ==
  \A f \in Fetchers : /\ prog \in {"a", "b", "c", "d"} /\ task[f].pc \in {"line", "next", "done"}
                      /\ task[f].url # "" /\ task[f].whole
                      /\ prog = "d" => Alone(task[f].url)
                      => files[Name(f)] = Body(task[f].url)

\* When the threads of the pool have all finished, every line was fetched.
EveryLineIsFetched ==
  prog = "d" /\ Newline /\ (\A f \in Pool : Home[f] \in up /\ task[f].pc = "done")
    => Len(fetched) = Len(List)
=============================================================================

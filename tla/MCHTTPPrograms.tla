--------------------------- MODULE MCHTTPPrograms ---------------------------
\* A small instance of the HTTP programs for TLC.  u1 has a header of ten
\* bytes, cut before its length line or where buf is full, and its response
\* does not fit into buf; u2 is empty; u3 has no length, and the length line of
\* u1 lies behind its end in buf.  u3 is on a host of its own, which answers
\* with it whatever it is asked.
EXTENDS HTTPPrograms, TLC

MCHome      == 1 :> "proxy" @@ 2 :> "proxy" @@ 3 :> "client" @@ 4 :> "proxy"
MCClient    == 1 :> 1 @@ 2 :> 2 @@ 3 :> 3 @@ 4 :> 3
MCBodyLen   == "u1" :> 1 @@ "u2" :> 0 @@ "u3" :> 0
MCHeaderLen == "u1" :> 10 @@ "u2" :> 5 @@ "u3" :> 4
MCLengthAt  == "u1" :> 6 @@ "u2" :> 1 @@ "u3" :> 0
MCHostOf    == "u1" :> "h1" @@ "u2" :> "h1" @@ "u3" :> "h2"
MCServed    == [h \in {"h1", "h2"} |->
                  [u \in {"u1", "u2", "u3"} |->
                     IF h = MCHostOf[u] THEN u ELSE IF h = "h1" THEN "u2" ELSE "u3"]]
MCNameOf    == "u1" :> "n1" @@ "u2" :> "n2" @@ "u3" :> "n1"
MCRequests  == {[method |-> "GET", url |-> "u1"], [method |-> "GET", url |-> "u3"],
                [method |-> "HEAD", url |-> "u3"], [method |-> "POST", url |-> "u1"]}
MCList      == <<"u1", "u2">>
=============================================================================
